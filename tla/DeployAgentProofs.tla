------------------------- MODULE DeployAgentProofs -------------------------
(***************************************************************************)
(* Proofs about DeployAgent, for any set of requests and any set of        *)
(* shutdown requests.                                                      *)
(*                                                                         *)
(* OrphanNeedsLateCompletion is the heart: it is inductive only together   *)
(* with what the manager's cancel function points at (OwnCancel,           *)
(* CurrentStoppable), with the fact that every cancelled context of an     *)
(* unfinished deployment is accounted for in interrupted (Noted), and with *)
(* what has to have happened when the current task is shown as completed   *)
(* while it runs (LateCurrent).  ExclusiveUntilInterrupted then follows    *)
(* without another induction.                                              *)
(***************************************************************************)
EXTENDS DeployAgent, TLAPS

\* The result is concluded after Live, and is there when Finish is called.
OutcomeOK ==
  \A t \in Task :
    /\ pc[t] \in {"new"} \cup Live => outcome[t] \in {"none", "ok", "error"}
    /\ pc[t] = "completing" => outcome[t] = "completed"
    /\ pc[t] = "finishing" => outcome[t] \in Terminal

\* m.cancel belongs to the current task or is nil.
OwnCancel == cancelFn \in {current, NoTask}

\* A request that was never admitted has left no trace in the manager.
Fresh ==
  \A t \in Task : pc[t] \in {"new", "rejected"} => t # current /\ t \notin ctxDone

\* Before its own Finish, only an interruption cancels a deployment's context.
Noted ==
  \A t \in Task : pc[t] \in Live /\ t \in ctxDone => interrupted[t] # "no"

\* The current task is shown as completed while it runs only if it has been
\* stopped, or after a late completion.
LateCurrent ==
  current # NoTask /\ pc[current] \in Live /\ state[current] = "completed"
    => current \in ctxDone \/ LateCompletion # {}

\* The sync goroutine only ever writes a running state.
HeldOK == \A t \in Task : syncPc[t] = "applying" => held[t] \in Running

IInv ==
  /\ OwnCancel /\ Fresh /\ CurrentStoppable /\ AbandonedIsStopped
  /\ Noted /\ LateCurrent /\ OrphanNeedsLateCompletion /\ HeldOK

\* A step that neither admits, concludes as completed, nor cancels anything: no
\* deployment becomes live or loses its success, and no task is shown as over
\* that was not.
Quiet ==
  /\ UNCHANGED <<current, cancelFn, ctxDone, interrupted>>
  /\ \A u \in Task :
       /\ state'[u] = state[u] \/ state'[u] \in Running
       /\ pc'[u] \in Live => pc[u] \in Live
       /\ pc'[u] \in {"new", "rejected"} => pc[u] \in {"new", "rejected"}
       /\ outcome[u] = "completed" => outcome'[u] = "completed"
       /\ syncPc'[u] = "applying" =>
            held'[u] \in Running \/ (syncPc[u] = "applying" /\ held'[u] = held[u])

-----------------------------------------------------------------------------
\* The definitions every step needs.
USE DEF At, Goto, SdAt, SdGoto, managerVars, apiVars, syncVars

\* The initial state is typed.
LEMMA TypeInit == Init => TypeOK /\ OutcomeOK
  BY DEF Init, ManagerInit, TypeOK, ManagerTypeOK, OutcomeOK, State, PC, Live

\* Every step keeps the types; OutcomeOK is what makes Finish's argument a State.
LEMMA TypeStep == TypeOK /\ OutcomeOK /\ [Next]_vars => TypeOK' /\ OutcomeOK'
<1> SUFFICES ASSUME TypeOK, OutcomeOK, [Next]_vars
             PROVE  TypeOK' /\ OutcomeOK'
  OBVIOUS
<1> USE DEF TypeOK, ManagerTypeOK, OutcomeOK, State, Running, Terminal, PC, Live
<1>1. ASSUME NEW t \in Task, RejectRequest(t) \/ Admit(t)
      PROVE  TypeOK' /\ OutcomeOK'
  <2>1. CASE RejectRequest(t)
    BY <2>1 DEF RejectRequest
  <2>2. CASE Admit(t)
    BY <2>2 DEF Admit, Acquire
  <2>3. QED
    BY <1>1, <2>1, <2>2
<1>2. ASSUME NEW t \in Task, RunLocally(t)
      PROVE  TypeOK' /\ OutcomeOK'
  <2>1. CASE PublishTracker(t)
    BY <2>1 DEF PublishTracker
  <2>2. CASE Prepare(t)
    BY <2>2 DEF Prepare, SetState
  <2>3. CASE ReportStart(t)
    BY <2>3 DEF ReportStart
  <2>4. CASE StartDownload(t)
    BY <2>4 DEF StartDownload, Announce
  <2>5. CASE FsyncAndCompare(t)
    BY <2>5 DEF FsyncAndCompare
  <2>6. CASE CloseTarget(t)
    BY <2>6 DEF CloseTarget
  <2>7. CASE ConcludeError(t)
    BY <2>7 DEF ConcludeError, Announce
  <2>8. CASE ConcludeOk(t)
    BY <2>8 DEF ConcludeOk, SetState
  <2>9. CASE AnnounceCompleted(t)
    BY <2>9 DEF AnnounceCompleted, Announce
  <2>10. CASE FinishTask(t)
    BY <2>10 DEF FinishTask, Finish, CallCancelFn, Interrupt
  <2>11. CASE ReportEnd(t)
    <3>1. pc' = [pc EXCEPT ![t] = "done"] \/ pc' = [pc EXCEPT ![t] = "rebooting"]
      BY <2>11 DEF ReportEnd
    <3>2. UNCHANGED <<current, state, cancelFn, ctxDone, outcome, tracker, lastResult,
                      syncPc, inbox, held, interrupted, sdPc, power>>
      BY <2>11 DEF ReportEnd
    <3>3. CASE pc' = [pc EXCEPT ![t] = "done"]
      BY <3>2, <3>3
    <3>4. CASE pc' = [pc EXCEPT ![t] = "rebooting"]
      BY <3>2, <3>4
    <3>5. QED
      BY <3>1, <3>3, <3>4
  <2>12. CASE AutoReboot(t)
    BY <2>12 DEF AutoReboot
  <2>13. QED
    BY <1>2, <2>1, <2>2, <2>3, <2>4, <2>5, <2>6, <2>7, <2>8, <2>9,
       <2>10, <2>11, <2>12 DEF RunLocally
<1>3. ASSUME NEW t \in Task, AwaitNetwork(t)
      PROVE  TypeOK' /\ OutcomeOK'
  <2>1. CASE FailEarly(t)
    BY <2>1 DEF FailEarly
  <2>2. CASE Respond(t)
    <3>1. CASE pc' = [pc EXCEPT ![t] = "copying"] /\ UNCHANGED outcome
      BY <2>2, <3>1 DEF Respond, Announce
    <3>2. CASE /\ pc' = [pc EXCEPT ![t] = "returned"]
               /\ outcome' = [outcome EXCEPT ![t] = "error"]
      BY <2>2, <3>2 DEF Respond, Announce
    <3>3. QED
      BY <2>2, <3>1, <3>2 DEF Respond
  <2>3. CASE CopyEOF(t)
    BY <2>3 DEF CopyEOF, Announce
  <2>4. CASE CopyFail(t)
    BY <2>4 DEF CopyFail
  <2>5. CASE PublishResult(t)
    BY <2>5 DEF PublishResult
  <2>6. QED
    BY <1>3, <2>1, <2>2, <2>3, <2>4, <2>5 DEF AwaitNetwork
<1>4. ASSUME NEW t \in Task, SyncStep(t)
      PROVE  TypeOK' /\ OutcomeOK'
  <2>1. CASE Subscribe(t)
    BY <2>1 DEF Subscribe
  <2>2. CASE Receive(t)
    <3>1. inbox[t] \in Seq(State) /\ inbox[t] # <<>>
      BY <2>2 DEF Receive
    <3>2. Head(inbox[t]) \in State /\ Tail(inbox[t]) \in Seq(State)
      BY <3>1
    <3>3. inbox' \in [Task -> Seq(State)]
      BY <2>2, <3>2 DEF Receive
    <3>4. /\ held' \in [Task -> State]
          /\ syncPc' \in [Task -> {"none", "subscribing", "listening", "applying",
                                   "stopped"}]
      <4>1. CASE Head(inbox[t]) \in Running
        <5>1. /\ held' = [held EXCEPT ![t] = Head(inbox[t])]
              /\ syncPc' = [syncPc EXCEPT ![t] = "applying"]
          BY <2>2, <4>1 DEF Receive
        <5>2. QED
          BY <3>2, <5>1
      <4>2. CASE Head(inbox[t]) \notin Running
        <5>1. UNCHANGED <<held, syncPc>>
          BY <2>2, <4>2 DEF Receive
        <5>2. QED
          BY <5>1
      <4>3. QED
        BY <4>1, <4>2
    <3>5. UNCHANGED <<current, state, cancelFn, ctxDone, pc, outcome, tracker,
                      lastResult, interrupted, sdPc, power>>
      BY <2>2 DEF Receive
    <3>6. ManagerTypeOK' /\ OutcomeOK'
      BY <3>5
    <3>7. QED
      BY <3>3, <3>4, <3>5, <3>6
  <2>3. CASE ApplyStage(t)
    BY <2>3 DEF ApplyStage, SetState
  <2>4. CASE StopListening(t)
    BY <2>4 DEF StopListening
  <2>5. QED
    BY <1>4, <2>1, <2>2, <2>3, <2>4 DEF SyncStep
<1>5. CASE CancelDeploy
  BY <1>5 DEF CancelDeploy, Cancel, CallCancelFn, Busy, Interrupt
<1>6. ASSUME NEW s \in Shutdown, ShutdownBegin(s) \/ ShutdownStep(s)
      PROVE  TypeOK' /\ OutcomeOK'
  <2>1. CASE ShutdownCancel(s)
    <3>1. CASE Busy
      <4>1. ManagerTypeOK'
        BY <2>1, <3>1 DEF ShutdownCancel, Cancel, CallCancelFn, Busy
      <4>2. interrupted' \in [Task -> {"no", "cancel", "finish"}]
        BY <2>1, <3>1 DEF ShutdownCancel, Interrupt
      <4>3. sdPc' = [sdPc EXCEPT ![s] = "waiting"]
        BY <2>1 DEF ShutdownCancel
      <4>4. UNCHANGED <<pc, outcome, tracker, lastResult, syncPc, inbox, held, power>>
        BY <2>1 DEF ShutdownCancel
      <4>5. QED
        BY <4>1, <4>2, <4>3, <4>4
    <3>2. CASE ~Busy
      BY <2>1, <3>2 DEF ShutdownCancel
    <3>3. QED
      BY <3>1, <3>2
  <2>2. CASE ShutdownBegin(s)
    BY <2>2 DEF ShutdownBegin
  <2>3. CASE ShutdownDrained(s) \/ ShutdownExpired(s) \/ ShutdownReport(s) \/ PowerDown(s)
    BY <2>3 DEF ShutdownDrained, ShutdownExpired, ShutdownReport, PowerDown
  <2>4. QED
    BY <1>6, <2>1, <2>2, <2>3 DEF ShutdownStep
<1>7. CASE UNCHANGED vars
  BY <1>7 DEF vars
<1>8. QED
  BY <1>1, <1>2, <1>3, <1>4, <1>5, <1>6, <1>7 DEF Next

\* Every variable keeps its type: in particular the result Finish is called
\* with is always a terminal state.
THEOREM TypeCorrect == Spec => []TypeOK
<1>1. TypeOK /\ OutcomeOK /\ [Next]_vars => (TypeOK /\ OutcomeOK)'
  BY TypeStep
<1>2. QED
  BY <1>1, TypeInit, PTL DEF Spec

-----------------------------------------------------------------------------
\* The invariant holds before any request.
LEMMA IInvInit == Init => IInv
  BY TaskAssumption DEF Init, ManagerInit, IInv, OwnCancel, Fresh, CurrentStoppable,
         AbandonedIsStopped, Noted, LateCurrent, OrphanNeedsLateCompletion,
         HeldOK, Live

\* Quiet steps keep the invariant.
LEMMA QuietStep ==
  ASSUME TypeOK, IInv, Quiet
  PROVE  IInv'
<1> USE DEF IInv, Quiet
<1>1. OwnCancel' /\ Fresh' /\ CurrentStoppable'
  BY DEF OwnCancel, Fresh, CurrentStoppable
<1>2. AbandonedIsStopped'
  BY DEF AbandonedIsStopped, Running
<1>3. Noted' /\ HeldOK'
  BY DEF Noted, HeldOK
<1>4. LateCompletion \subseteq LateCompletion'
  BY DEF LateCompletion
<1>5. LateCurrent'
  <2> SUFFICES ASSUME current # NoTask, pc'[current] \in Live,
                      state'[current] = "completed", current \notin ctxDone
               PROVE  LateCompletion' # {}
    BY DEF LateCurrent
  <2>1. current \in Task
    BY DEF TypeOK, ManagerTypeOK
  <2>2. pc[current] \in Live /\ state[current] = "completed"
    BY <2>1 DEF Running
  <2>3. QED
    BY <2>2, <1>4 DEF LateCurrent
<1>6. OrphanNeedsLateCompletion'
  BY <1>4 DEF OrphanNeedsLateCompletion
<1>7. QED
  BY <1>1, <1>2, <1>3, <1>5, <1>6

\* Most steps are quiet.
LEMMA QuietActions ==
  ASSUME TypeOK, OutcomeOK, IInv
  PROVE  /\ \A t \in Task :
              /\ RejectRequest(t) \/ PublishTracker(t) \/ Prepare(t) => Quiet
              /\ ReportStart(t) \/ StartDownload(t) \/ AwaitNetwork(t) => Quiet
              /\ FsyncAndCompare(t) \/ CloseTarget(t) \/ PublishResult(t) => Quiet
              /\ ConcludeError(t) \/ AnnounceCompleted(t) => Quiet
              /\ ReportEnd(t) \/ AutoReboot(t) \/ SyncStep(t) => Quiet
         /\ \A s \in Shutdown :
              /\ ShutdownBegin(s) \/ ShutdownDrained(s) \/ ShutdownExpired(s) => Quiet
              /\ ShutdownReport(s) \/ PowerDown(s) => Quiet
         /\ UNCHANGED vars => Quiet
<1> USE DEF TypeOK, ManagerTypeOK, OutcomeOK, Quiet, Live, PC
<1>1. ASSUME NEW t \in Task, RejectRequest(t) \/ PublishTracker(t) \/ ReportStart(t)
      PROVE  Quiet
  BY <1>1 DEF RejectRequest, PublishTracker, ReportStart
<1>2. ASSUME NEW t \in Task, Prepare(t)
      PROVE  Quiet
  BY <1>2 DEF Prepare, SetState, Running
<1>3. ASSUME NEW t \in Task, StartDownload(t) \/ CloseTarget(t) \/ PublishResult(t)
      PROVE  Quiet
  BY <1>3 DEF StartDownload, CloseTarget, PublishResult
<1>4. ASSUME NEW t \in Task, AwaitNetwork(t)
      PROVE  Quiet
  <2>1. CASE FailEarly(t)
    BY <2>1 DEF FailEarly
  <2>2. CASE Respond(t)
    BY <2>2 DEF Respond
  <2>3. CASE CopyEOF(t)
    BY <2>3 DEF CopyEOF
  <2>4. CASE CopyFail(t)
    BY <2>4 DEF CopyFail
  <2>5. QED
    BY <1>3, <1>4, <2>1, <2>2, <2>3, <2>4 DEF AwaitNetwork
<1>5. ASSUME NEW t \in Task, FsyncAndCompare(t)
      PROVE  Quiet
  BY <1>5 DEF FsyncAndCompare
<1>6. ASSUME NEW t \in Task, ConcludeError(t)
      PROVE  Quiet
  BY <1>6 DEF ConcludeError
<1>7. ASSUME NEW t \in Task, AnnounceCompleted(t) \/ ReportEnd(t) \/ AutoReboot(t)
      PROVE  Quiet
  BY <1>7 DEF AnnounceCompleted, ReportEnd, AutoReboot
<1>8. ASSUME NEW t \in Task, Subscribe(t) \/ StopListening(t)
      PROVE  Quiet
  BY <1>8 DEF Subscribe, StopListening
<1>9. ASSUME NEW t \in Task, Receive(t)
      PROVE  Quiet
  <2>1. CASE Head(inbox[t]) \in Running
    BY <1>9, <2>1 DEF Receive
  <2>2. CASE Head(inbox[t]) \notin Running
    BY <1>9, <2>2 DEF Receive
  <2>3. QED
    BY <2>1, <2>2
<1>10. ASSUME NEW t \in Task, ApplyStage(t)
       PROVE  Quiet
  <2>1. held[t] \in Running
    BY <1>10 DEF ApplyStage, IInv, HeldOK
  <2>2. QED
    BY <1>10, <2>1 DEF ApplyStage, SetState
<1>11. ASSUME NEW s \in Shutdown,
              \/ ShutdownBegin(s) \/ ShutdownDrained(s) \/ ShutdownExpired(s)
              \/ ShutdownReport(s) \/ PowerDown(s)
       PROVE  Quiet
  BY <1>11 DEF ShutdownBegin, ShutdownDrained, ShutdownExpired, ShutdownReport,
               PowerDown
<1>12. ASSUME UNCHANGED vars
       PROVE  Quiet
  BY <1>12 DEF vars
<1>13. QED
  <2>1. \A t \in Task : SyncStep(t) => Quiet
    BY <1>8, <1>9, <1>10 DEF SyncStep
  <2>2. QED
    BY ONLY <1>1, <1>2, <1>3, <1>4, <1>5, <1>6, <1>7, <1>11, <1>12, <2>1, Zenon

-----------------------------------------------------------------------------
\* A task that may be replaced is stopped, over, or the victim of a late
\* completion: this is where the busy test of Acquire is used.
LEMMA AdmitStep ==
  ASSUME TypeOK, OutcomeOK, IInv, NEW t \in Task, Admit(t)
  PROVE  IInv'
<1> USE DEF TypeOK, ManagerTypeOK, IInv
<1>1. /\ pc[t] = "new" /\ ~Busy
      /\ current' = t /\ cancelFn' = t
      /\ state' = [state EXCEPT ![t] = "validating"]
      /\ pc' = [pc EXCEPT ![t] = "acquired"]
      /\ UNCHANGED <<ctxDone, outcome, syncPc, held, interrupted>>
  BY DEF Admit, Acquire
<1>2. t \notin ctxDone /\ t # current
  BY <1>1 DEF Fresh
<1>3. OwnCancel' /\ CurrentStoppable' /\ HeldOK'
  BY <1>1 DEF OwnCancel, CurrentStoppable, HeldOK
<1>4. Fresh'
  BY <1>1 DEF Fresh
<1>5. AbandonedIsStopped'
  BY <1>1 DEF AbandonedIsStopped
<1>6. Noted'
  BY <1>1, <1>2 DEF Noted
<1>7. LateCurrent'
  BY <1>1 DEF LateCurrent
<1>8. OrphanNeedsLateCompletion'
  <2> SUFFICES ASSUME NEW u \in Task, pc'[u] \in Live, u # t, u \notin ctxDone
               PROVE  LateCompletion # {}
    BY <1>1 DEF OrphanNeedsLateCompletion, LateCompletion
  <2>1. pc[u] \in Live
    BY <1>1
  <2>2. CASE u # current
    BY <2>1, <2>2 DEF OrphanNeedsLateCompletion
  <2>3. CASE u = current
    <3>1. state[u] \in Terminal
      BY <1>1, <2>3, TaskAssumption DEF Busy
    <3>2. state[u] = "completed"
      BY <3>1 DEF AbandonedIsStopped, Terminal
    <3>3. QED
      BY <2>1, <2>3, <3>2, TaskAssumption DEF LateCurrent
  <2>4. QED
    BY <2>2, <2>3
<1>9. QED
  BY <1>3, <1>4, <1>5, <1>6, <1>7, <1>8

\* A deployment that concludes as completed while it is not current has been
\* interrupted, or somebody before it has: either way there is a late
\* completion once it is concluded.
LEMMA ConcludeOkStep ==
  ASSUME TypeOK, OutcomeOK, IInv, NEW t \in Task, ConcludeOk(t)
  PROVE  IInv'
<1> USE DEF TypeOK, ManagerTypeOK, IInv
<1>1. /\ pc[t] = "concluding" /\ outcome[t] = "ok"
      /\ outcome' = [outcome EXCEPT ![t] = "completed"]
      /\ pc' = [pc EXCEPT ![t] = "completing"]
      /\ UNCHANGED <<current, cancelFn, ctxDone, syncPc, held, interrupted>>
  BY DEF ConcludeOk, SetState
<1>2. \A u \in Task : state'[u] = state[u] \/ (u = current /\ state'[u] = "completed")
  BY DEF ConcludeOk, SetState
<1>3. \A u \in Task : pc'[u] \in Live => pc[u] \in Live /\ u # t
  BY <1>1 DEF Live
<1>4. OwnCancel' /\ CurrentStoppable' /\ HeldOK' /\ Fresh'
  BY <1>1 DEF OwnCancel, CurrentStoppable, HeldOK, Fresh
<1>5. AbandonedIsStopped'
  BY <1>1, <1>2 DEF AbandonedIsStopped
<1>6. Noted'
  BY <1>1, <1>3 DEF Noted
<1>7. LateCompletion \subseteq LateCompletion'
  BY <1>1 DEF LateCompletion
<1>8. LateCurrent'
  <2> SUFFICES ASSUME current # NoTask, pc'[current] \in Live,
                      current \notin ctxDone
               PROVE  LateCompletion' # {}
    BY <1>1 DEF LateCurrent
  <2>1. pc[t] \in Live /\ t # current
    BY <1>1, <1>3 DEF Live
  <2>2. CASE t \in ctxDone
    <3>1. interrupted[t] # "no"
      BY <2>1, <2>2 DEF Noted
    <3>2. t \in LateCompletion'
      BY <1>1, <3>1 DEF LateCompletion
    <3>3. QED
      BY <3>2
  <2>3. CASE t \notin ctxDone
    BY <1>7, <2>1, <2>3 DEF OrphanNeedsLateCompletion
  <2>4. QED
    BY <2>2, <2>3
<1>9. OrphanNeedsLateCompletion'
  BY <1>1, <1>3, <1>7 DEF OrphanNeedsLateCompletion
<1>10. QED
  BY <1>4, <1>5, <1>6, <1>8, <1>9

-----------------------------------------------------------------------------
\* What Cancel and Finish have in common: the current task is shown as over and
\* its context is cancelled, if it was not yet; an owner that did not ask for
\* it is noted as interrupted.
StopsCurrent(owner) ==
  /\ current # NoTask /\ current' = current
  /\ cancelFn' \in {cancelFn, NoTask}
  /\ ctxDone' = ctxDone \cup ({cancelFn} \ {NoTask})
  /\ owner \in {cancelFn, NoTask}
  /\ \E by \in {"cancel", "finish"} : Interrupt(owner, by)
  /\ \A u \in Task :
       /\ u # current => state'[u] = state[u]
       /\ pc'[u] \in Live => pc[u] \in Live /\ (u = cancelFn => owner = u)
       /\ pc'[u] \in {"new", "rejected"} => pc[u] \in {"new", "rejected"}
  /\ UNCHANGED <<outcome, syncPc, held>>

\* Stopping the current task keeps the invariant.
LEMMA StopStep ==
  ASSUME TypeOK, IInv, NEW owner, StopsCurrent(owner)
  PROVE  IInv'
<1> USE DEF TypeOK, ManagerTypeOK, IInv, StopsCurrent
<1>1. current \in Task /\ current \in ctxDone' /\ ctxDone \subseteq ctxDone'
  BY TaskAssumption DEF CurrentStoppable
<1>2. \A u \in Task : interrupted[u] # "no" => interrupted'[u] # "no"
  BY DEF Interrupt
<1>3. \A u \in Task : u \in ctxDone' /\ u \notin ctxDone => u = cancelFn
  OBVIOUS
<1>4. OwnCancel' /\ CurrentStoppable' /\ HeldOK'
  BY <1>1 DEF OwnCancel, CurrentStoppable, HeldOK
<1>5. Fresh'
  BY <1>1, <1>3 DEF Fresh, OwnCancel
<1>6. AbandonedIsStopped'
  BY <1>1 DEF AbandonedIsStopped
<1>7. Noted'
  <2> SUFFICES ASSUME NEW u \in Task, pc'[u] \in Live, u \in ctxDone'
               PROVE  interrupted'[u] # "no"
    BY DEF Noted
  <2>1. CASE u \in ctxDone
    BY <1>2, <2>1 DEF Noted
  <2>2. CASE u \notin ctxDone
    <3>1. owner = u
      BY <1>3, <2>2
    <3>2. QED
      BY <3>1, TaskAssumption DEF Interrupt
  <2>3. QED
    BY <2>1, <2>2
<1>8. LateCurrent'
  BY <1>1 DEF LateCurrent
<1>9. LateCompletion \subseteq LateCompletion'
  BY <1>2 DEF LateCompletion
<1>10. OrphanNeedsLateCompletion'
  BY <1>1, <1>9 DEF OrphanNeedsLateCompletion
<1>11. QED
  BY <1>4, <1>5, <1>6, <1>7, <1>8, <1>10

\* Finish, a cancel request and a shutdown all stop the current task.
LEMMA StopActions ==
  ASSUME TypeOK, OutcomeOK, IInv
  PROVE  /\ \A t \in Task : FinishTask(t) => \E owner : StopsCurrent(owner)
         /\ CancelDeploy => StopsCurrent(cancelFn)
         /\ \A s \in Shutdown : ShutdownCancel(s) => StopsCurrent(cancelFn) \/ Quiet
<1> USE DEF TypeOK, ManagerTypeOK, StopsCurrent
<1>1. ASSUME NEW t \in Task, FinishTask(t)
      PROVE  \E owner : StopsCurrent(owner)
  <2> DEFINE owner == IF cancelFn = t THEN NoTask ELSE cancelFn
  <2>1. /\ current # NoTask /\ UNCHANGED <<current, outcome, syncPc, held>>
        /\ cancelFn' = NoTask
        /\ ctxDone' = ctxDone \cup ({cancelFn} \ {NoTask})
        /\ Interrupt(owner, "finish")
        /\ state' = [state EXCEPT ![current] = outcome[t]]
        /\ pc[t] = "finishing" /\ pc' = [pc EXCEPT ![t] = "ended"]
    BY <1>1 DEF FinishTask, Finish, CallCancelFn
  <2>2. \A u \in Task : pc'[u] \in Live => pc[u] \in Live /\ u # t
    BY <2>1 DEF Live
  <2>3. \A u \in Task : u # current => state'[u] = state[u]
    BY <2>1
  <2>4. \A u \in Task : pc'[u] \in {"new", "rejected"} => pc[u] \in {"new", "rejected"}
    BY <2>1
  <2>5. \A u \in Task : u # t /\ u = cancelFn => owner = u
    OBVIOUS
  <2>6. StopsCurrent(owner)
    BY <2>1, <2>2, <2>3, <2>4, <2>5
  <2>7. QED
    BY <2>6
<1>2. ASSUME CancelDeploy
      PROVE  StopsCurrent(cancelFn)
  BY <1>2 DEF CancelDeploy, Cancel, CallCancelFn, Busy
<1>3. ASSUME NEW s \in Shutdown, ShutdownCancel(s)
      PROVE  StopsCurrent(cancelFn) \/ Quiet
  <2>1. CASE Busy
    <3>1. /\ Cancel /\ Interrupt(cancelFn, "cancel")
          /\ UNCHANGED <<pc, outcome, syncPc, held>>
      BY <1>3, <2>1 DEF ShutdownCancel
    <3>2. QED
      BY <3>1 DEF Cancel, CallCancelFn, Busy
  <2>2. CASE ~Busy
    BY <1>3, <2>2 DEF ShutdownCancel, Quiet
  <2>3. QED
    BY <2>1, <2>2
<1>4. QED
  BY <1>1, <1>2, <1>3

\* Every step keeps the invariant.
LEMMA IInvStep == TypeOK /\ OutcomeOK /\ IInv /\ [Next]_vars => IInv'
<1> SUFFICES ASSUME TypeOK, OutcomeOK, IInv, [Next]_vars
             PROVE  IInv'
  OBVIOUS
<1>1. ASSUME NEW t \in Task, Admit(t)
      PROVE  IInv'
  BY <1>1, AdmitStep
<1>2. ASSUME NEW t \in Task, ConcludeOk(t)
      PROVE  IInv'
  BY <1>2, ConcludeOkStep
<1>3. ASSUME NEW t \in Task, FinishTask(t)
      PROVE  IInv'
  BY <1>3, StopActions, StopStep
<1>4. CASE CancelDeploy
  BY <1>4, StopActions, StopStep
<1>5. ASSUME NEW s \in Shutdown, ShutdownCancel(s)
      PROVE  IInv'
  BY <1>5, StopActions, StopStep, QuietStep
<1>6. CASE Quiet
  BY <1>6, QuietStep
<1>7. ASSUME NEW t \in Task,
             RejectRequest(t) \/ Admit(t) \/ RunLocally(t) \/ AwaitNetwork(t) \/ SyncStep(t)
      PROVE  IInv'
  BY <1>1, <1>2, <1>3, <1>6, <1>7, QuietActions DEF RunLocally
<1>8. ASSUME NEW s \in Shutdown, ShutdownBegin(s) \/ ShutdownStep(s)
      PROVE  IInv'
  BY <1>5, <1>6, <1>8, QuietActions DEF ShutdownStep
<1>9. CASE UNCHANGED vars
  BY <1>6, <1>9, QuietActions
<1>10. QED
  BY <1>4, <1>7, <1>8, <1>9 DEF Next

\* The inductive invariant holds in every reachable state.
LEMMA Invariance == Spec => [](TypeOK /\ OutcomeOK /\ IInv)
<1>1. Init => TypeOK /\ OutcomeOK /\ IInv
  BY TypeInit, IInvInit
<1>2. TypeOK /\ OutcomeOK /\ IInv /\ [Next]_vars => (TypeOK /\ OutcomeOK /\ IInv)'
  BY TypeStep, IInvStep
<1>3. QED
  BY <1>1, <1>2, PTL DEF Spec

-----------------------------------------------------------------------------
\* The manager never loses the means to stop the task it calls current: after
\* any interleaving m.cancel is that task's, or its context is cancelled.
THEOREM CurrentIsStoppable == Spec => []CurrentStoppable
<1>1. IInv => CurrentStoppable
  BY DEF IInv
<1>2. QED
  BY <1>1, Invariance, PTL

\* "failed" and "cancelled" are only shown of a task whose context has been
\* cancelled, whichever goroutine's Cancel or Finish wrote them.
THEOREM AbandonedTasksAreStopped == Spec => []AbandonedIsStopped
<1>1. IInv => AbandonedIsStopped
  BY DEF IInv
<1>2. QED
  BY <1>1, Invariance, PTL

\* A running deployment gets out of everybody's reach only through an earlier
\* one that was interrupted and completed all the same (deploy.go:214).
THEOREM OrphansNeedLateCompletion == Spec => []OrphanNeedsLateCompletion
<1>1. IInv => OrphanNeedsLateCompletion
  BY DEF IInv
<1>2. QED
  BY <1>1, Invariance, PTL

\* Two live deployments cannot both be current; the other one has been
\* interrupted, or is an orphan and then somebody else has been.
LEMMA ExclusiveFromIInv ==
  ASSUME IInv
  PROVE  ExclusiveUntilInterrupted
<1> SUFFICES ASSUME Undisturbed,
                    NEW t \in Task, NEW u \in Task, pc[t] \in Live, pc[u] \in Live, t # u
             PROVE  FALSE
  BY DEF ExclusiveUntilInterrupted
<1>1. t \notin ctxDone /\ u \notin ctxDone
  BY DEF IInv, Noted, Undisturbed
<1>2. LateCompletion # {}
  BY <1>1 DEF IInv, OrphanNeedsLateCompletion
<1>3. QED
  BY <1>2 DEF LateCompletion, Undisturbed

\* Acquire excludes a second deployment as long as nobody interferes with the
\* first: no cancel request, no shutdown, no foreign Finish.
THEOREM ExclusionUntilInterrupted == Spec => []ExclusiveUntilInterrupted
<1>1. IInv => ExclusiveUntilInterrupted
  BY ExclusiveFromIInv
<1>2. QED
  BY <1>1, Invariance, PTL

-----------------------------------------------------------------------------
\* A step that leaves s.tracker and s.lastResult alone and brings no deployment
\* to or past one of the two places where they are written.
StatusQuiet ==
  /\ UNCHANGED <<tracker, lastResult>>
  /\ \A u \in Task :
       /\ interrupted[u] # "no" => interrupted'[u] # "no"
       /\ pc'[u] \in Live \ {"acquired"} =>
            /\ pc[u] \in Live \ {"acquired"}
            /\ pc'[u] = "concluding" => pc[u] = "concluding"
            /\ pc[u] = "concluding" => pc'[u] = "concluding"

\* Only PublishTracker and PublishResult write what is published.
LEMMA StatusQuietActions ==
  ASSUME TypeOK, [Next]_vars,
         \A t \in Task : ~PublishTracker(t) /\ ~PublishResult(t)
  PROVE  StatusQuiet
<1> USE DEF TypeOK, ManagerTypeOK, StatusQuiet, Live, PC
<1>1. ASSUME NEW t \in Task, RejectRequest(t) \/ Admit(t)
      PROVE  StatusQuiet
  BY <1>1 DEF RejectRequest, Admit
<1>2. ASSUME NEW t \in Task, RunLocally(t)
      PROVE  StatusQuiet
  <2>1. CASE Prepare(t) \/ ReportStart(t) \/ StartDownload(t)
    BY <2>1 DEF Prepare, ReportStart, StartDownload
  <2>2. CASE FsyncAndCompare(t) \/ CloseTarget(t)
    BY <2>2 DEF FsyncAndCompare, CloseTarget
  <2>3. CASE ConcludeError(t) \/ ConcludeOk(t) \/ AnnounceCompleted(t)
    BY <2>3 DEF ConcludeError, ConcludeOk, AnnounceCompleted
  <2>4. CASE FinishTask(t)
    BY <2>4 DEF FinishTask, Interrupt
  <2>5. CASE ReportEnd(t) \/ AutoReboot(t)
    BY <2>5 DEF ReportEnd, AutoReboot
  <2>6. QED
    BY <1>2, <2>1, <2>2, <2>3, <2>4, <2>5 DEF RunLocally
<1>3. ASSUME NEW t \in Task, AwaitNetwork(t)
      PROVE  StatusQuiet
  <2>1. CASE FailEarly(t) \/ CopyEOF(t) \/ CopyFail(t)
    BY <2>1 DEF FailEarly, CopyEOF, CopyFail
  <2>2. CASE Respond(t)
    BY <2>2 DEF Respond
  <2>3. CASE PublishResult(t)
    BY <2>3
  <2>4. QED
    BY <1>3, <2>1, <2>2, <2>3 DEF AwaitNetwork
<1>4. ASSUME NEW t \in Task, SyncStep(t)
      PROVE  StatusQuiet
  BY <1>4 DEF SyncStep, Subscribe, Receive, ApplyStage, StopListening
<1>5. CASE CancelDeploy
  BY <1>5 DEF CancelDeploy, Interrupt
<1>6. ASSUME NEW s \in Shutdown, ShutdownBegin(s) \/ ShutdownStep(s)
      PROVE  StatusQuiet
  <2>1. CASE ShutdownCancel(s)
    BY <2>1 DEF ShutdownCancel, Interrupt
  <2>2. CASE ~ShutdownCancel(s)
    BY <1>6, <2>2 DEF ShutdownStep, ShutdownBegin, ShutdownDrained, ShutdownExpired,
                      ShutdownReport, PowerDown
  <2>3. QED
    BY <2>1, <2>2
<1>7. CASE UNCHANGED vars
  BY <1>7 DEF vars
<1>8. QED
  BY <1>1, <1>2, <1>3, <1>4, <1>5, <1>6, <1>7 DEF Next

\* The two places that write find no other live deployment to disturb.
LEMMA StatusStep ==
  ASSUME TypeOK, StatusCoherent, ExclusiveUntilInterrupted, [Next]_vars
  PROVE  StatusCoherent'
<1> USE DEF TypeOK, Undisturbed
<1>1. ASSUME NEW t \in Task, PublishTracker(t)
      PROVE  StatusCoherent'
  <2> SUFFICES ASSUME Undisturbed, NEW u \in Task, pc'[u] \in Live \ {"acquired"}
               PROVE  tracker' = u /\ lastResult' = NoTask /\ pc'[u] # "concluding"
    BY <1>1 DEF StatusCoherent, PublishTracker
  <2>1. pc[t] = "acquired" /\ pc' = [pc EXCEPT ![t] = "spawned"]
    BY <1>1 DEF PublishTracker
  <2>2. u = t
    BY <2>1 DEF ExclusiveUntilInterrupted, Live
  <2>3. QED
    BY <1>1, <2>1, <2>2 DEF PublishTracker
<1>2. ASSUME NEW t \in Task, PublishResult(t)
      PROVE  StatusCoherent'
  <2> SUFFICES ASSUME Undisturbed, NEW u \in Task, pc'[u] \in Live \ {"acquired"}
               PROVE  tracker' = u /\ lastResult' = u /\ pc'[u] = "concluding"
    BY <1>2 DEF StatusCoherent, PublishResult
  <2>1. pc[t] = "returned" /\ pc' = [pc EXCEPT ![t] = "concluding"]
    BY <1>2 DEF PublishResult
  <2>2. u = t
    BY <2>1 DEF ExclusiveUntilInterrupted, Live
  <2>3. tracker = t
    BY <2>1 DEF StatusCoherent, Live
  <2>4. QED
    BY <1>2, <2>1, <2>2, <2>3 DEF PublishResult
<1>3. CASE \A t \in Task : ~PublishTracker(t) /\ ~PublishResult(t)
  <2>1. StatusQuiet
    BY <1>3, StatusQuietActions
  <2>2. Undisturbed' => Undisturbed
    BY <2>1 DEF StatusQuiet
  <2>3. QED
    BY <2>1, <2>2 DEF StatusQuiet, StatusCoherent
<1>4. QED
  BY <1>1, <1>2, <1>3

\* Until something is interrupted, the tracker and the result the handlers read
\* under s.mu are those of the running deployment (deploy.go:129-132, 187-190).
THEOREM StatusIsCoherent == Spec => []StatusCoherent
<1>1. Init => StatusCoherent
  BY DEF Init, StatusCoherent, Live
<1>2. TypeOK /\ IInv /\ StatusCoherent /\ [Next]_vars => StatusCoherent'
  BY StatusStep, ExclusiveFromIInv
<1>3. QED
  BY <1>1, <1>2, Invariance, PTL DEF Spec

=============================================================================
