---------------------------- MODULE DeployAgent ----------------------------
(***************************************************************************)
(* Deployments on one BootSeed node (agent/internal/api/deploy.go and      *)
(* handlers.go over agent/internal/deploy): the goroutines and handlers    *)
(* that share the deploy manager.                                          *)
(*                                                                         *)
(*   - every accepted POST /api/deploy t runs handleDeploy, then a         *)
(*     goroutine runDeploy whose place is pc[t];                           *)
(*   - runDeploy starts a second goroutine, the "sync" goroutine of t,     *)
(*     which copies the stages the pipeline announces into the manager;    *)
(*   - POST /api/deploy/cancel and POST /api/reboot or /poweroff arrive    *)
(*     at any time.                                                        *)
(*                                                                         *)
(* A step is what happens between two points where another goroutine can   *)
(* look at shared state: one critical section of m.mu or s.mu, or one      *)
(* call the pipeline makes to the network or to the disk.  The contents of *)
(* the image and the disk are the subject of module Pipeline; here a       *)
(* deployment is its control flow and the handle it holds on the disk.     *)
(***************************************************************************)
EXTENDS DeployManager, Sequences

CONSTANT Shutdown    \* the POST /api/reboot and /api/poweroff requests

VARIABLES pc,          \* where handleDeploy, then runDeploy, of a request is
          outcome,     \* the err of Pipeline.Run, then the result concluded from it
          tracker,     \* s.tracker: the deployment whose progress is published
          lastResult,  \* s.lastResult: the deployment whose result is published
          syncPc,      \* where the sync goroutine of a deployment is
          inbox,       \* the channel it listens on: stages announced, oldest first
          held,        \* the stage it took from the channel and will write
          interrupted, \* who cancelled the context before the deployment's own Finish
          sdPc,        \* where a shutdown request is
          power        \* the machine

apiVars  == <<tracker, lastResult>>
syncVars == <<syncPc, inbox, held>>
vars == <<managerVars, pc, outcome, apiVars, syncVars, interrupted, sdPc, power>>

\* handleDeploy has admitted the task and runDeploy has not yet concluded it.
Live == {"acquired", "spawned", "preparing", "launching", "requesting",
         "copying", "syncing", "closing", "returned", "concluding"}

PC == {"new", "rejected"} \cup Live
        \cup {"completing", "finishing", "ended", "rebooting", "done"}

\* The target device is open for writing.
HoldsTarget(t) == pc[t] \in {"copying", "syncing", "closing"}

\* stopSync is closed on the success path only.
FaultStopSyncOnSuccess(t) ==
  pc[t] \in {"completing", "ended", "rebooting", "done"} /\ outcome[t] = "completed"

\* close(stopSync) has been executed.
StopSync(t) ==
  pc[t] \in {"concluding", "completing", "finishing", "ended", "rebooting", "done"}

TypeOK ==
  /\ ManagerTypeOK
  /\ pc \in [Task -> PC]
  /\ outcome \in [Task -> {"none", "ok", "error"} \cup Terminal]
  /\ tracker \in Task \cup {NoTask}
  /\ lastResult \in Task \cup {NoTask}
  /\ syncPc \in [Task -> {"none", "subscribing", "listening", "applying", "stopped"}]
  /\ inbox \in [Task -> Seq(State)]
  /\ held \in [Task -> State]
  /\ interrupted \in [Task -> {"no", "cancel", "finish"}]
  /\ sdPc \in [Shutdown -> {"idle", "cancelling", "waiting", "drained", "expired",
                            "powering", "failed", "down"}]
  /\ power \in {"on", "off"}

Init ==
  /\ ManagerInit
  /\ pc = [t \in Task |-> "new"]
  /\ outcome = [t \in Task |-> "none"]
  /\ tracker = NoTask
  /\ lastResult = NoTask
  /\ syncPc = [t \in Task |-> "none"]
  /\ inbox = [t \in Task |-> <<>>]
  /\ held = [t \in Task |-> "idle"]
  /\ interrupted = [t \in Task |-> "no"]
  /\ sdPc = [s \in Shutdown |-> "idle"]
  /\ power = "on"

At(t, here) == power = "on" /\ pc[t] = here

Goto(t, there) == pc' = [pc EXCEPT ![t] = there]

\* Tracker.SetStage and Fail of t's tracker: whoever listens at that moment is
\* sent the stage.  The channel holds 16 and one deployment announces five, so
\* the non-blocking send never drops one for this listener.
Announce(t, stage) ==
  inbox' = IF syncPc[t] \in {"listening", "applying"}
           THEN [inbox EXCEPT ![t] = Append(@, stage)]
           ELSE inbox

\* Note in interrupted that the owner of the manager's cancel function loses
\* its context by a call of kind `by` that is not its own Finish.
Interrupt(owner, by) ==
  interrupted' = IF owner = NoTask THEN interrupted
                 ELSE [interrupted EXCEPT ![owner] = IF @ = "no" THEN by ELSE @]

-----------------------------------------------------------------------------
\* handleDeploy answers an error before Acquire (architecture, confirmation,
\* catalog, firmware, format, disk, capacity), or 409 because Acquire found the
\* manager busy.
RejectRequest(t) ==
  /\ At(t, "new")
  /\ Goto(t, "rejected")
  /\ UNCHANGED <<managerVars, outcome, apiVars, syncVars, interrupted, sdPc, power>>

\* handleDeploy passes every check and Acquire admits the task.
Admit(t) ==
  /\ At(t, "new")
  /\ Acquire(t)
  /\ Goto(t, "acquired")
  /\ UNCHANGED <<outcome, apiVars, syncVars, interrupted, sdPc, power>>

\* The result of the previous deployment stays published.
FaultKeepLastResult(t) ==
  /\ At(t, "acquired")
  /\ tracker' = t
  /\ Goto(t, "spawned")
  /\ UNCHANGED <<managerVars, outcome, lastResult, syncVars, interrupted, sdPc, power>>

\* handleDeploy publishes the new tracker under s.mu and starts runDeploy.
PublishTracker(t) ==
  /\ At(t, "acquired")
  /\ tracker' = t
  /\ lastResult' = NoTask
  /\ Goto(t, "spawned")
  /\ UNCHANGED <<managerVars, outcome, syncVars, interrupted, sdPc, power>>

Prepare(t) ==
  /\ At(t, "spawned")
  /\ SetState("preparing")
  /\ Goto(t, "preparing")
  /\ UNCHANGED <<outcome, apiVars, syncVars, interrupted, sdPc, power>>

\* The start report (answered, refused or timed out, it is the same to
\* runDeploy); then the sync goroutine is spawned.
ReportStart(t) ==
  /\ At(t, "preparing")
  /\ Goto(t, "launching")
  /\ syncPc' = [syncPc EXCEPT ![t] = "subscribing"]
  /\ UNCHANGED <<managerVars, outcome, apiVars, inbox, held, interrupted, sdPc, power>>

-----------------------------------------------------------------------------
\* Pipeline.Run, up to the GET request.
StartDownload(t) ==
  /\ At(t, "launching")
  /\ Announce(t, "downloading")
  /\ Goto(t, "requesting")
  /\ UNCHANGED <<managerVars, outcome, apiVars, syncPc, held, interrupted, sdPc, power>>

\* No usable answer: Run returns err before the target is open.
FailEarly(t) ==
  /\ At(t, "requesting")
  /\ outcome' = [outcome EXCEPT ![t] = "error"]
  /\ Goto(t, "returned")
  /\ UNCHANGED <<managerVars, apiVars, syncVars, interrupted, sdPc, power>>

\* The server answers 200 and the decompressor starts; the target is opened, or
\* cannot be.  An answer that is there is used even if the context has been
\* cancelled since.
Respond(t) ==
  /\ At(t, "requesting")
  /\ Announce(t, "writing")
  /\ \/ /\ Goto(t, "copying")
        /\ UNCHANGED outcome
     \/ /\ Goto(t, "returned")
        /\ outcome' = [outcome EXCEPT ![t] = "error"]
  /\ UNCHANGED <<managerVars, apiVars, syncPc, held, interrupted, sdPc, power>>

\* copyWithProgress reads EOF.  Like Respond it may do so after a cancel: the
\* context is only looked at between two chunks.
CopyEOF(t) ==
  /\ At(t, "copying")
  /\ Announce(t, "syncing")
  /\ Goto(t, "syncing")
  /\ UNCHANGED <<managerVars, outcome, apiVars, syncPc, held, interrupted, sdPc, power>>

\* copyWithProgress sees the cancelled context, or a read or write fails.
CopyFail(t) ==
  /\ At(t, "copying")
  /\ outcome' = [outcome EXCEPT ![t] = "error"]
  /\ Goto(t, "closing")
  /\ UNCHANGED <<managerVars, apiVars, syncVars, interrupted, sdPc, power>>

\* The deferred Sync and Close of the target after an error.
CloseTarget(t) ==
  /\ At(t, "closing")
  /\ Goto(t, "returned")
  /\ UNCHANGED <<managerVars, outcome, apiVars, syncVars, interrupted, sdPc, power>>

\* Sync, the comparison of the digests, and the same deferred calls.
FsyncAndCompare(t) ==
  /\ At(t, "syncing")
  /\ \E verdict \in {"ok", "error"} : outcome' = [outcome EXCEPT ![t] = verdict]
  /\ Goto(t, "returned")
  /\ UNCHANGED <<managerVars, apiVars, syncVars, interrupted, sdPc, power>>

-----------------------------------------------------------------------------
\* Run returns, once the decompressor has exited, which may be waiting for the
\* image server itself; close(stopSync), and the result is published.
PublishResult(t) ==
  /\ At(t, "returned")
  /\ lastResult' = t
  /\ Goto(t, "concluding")
  /\ UNCHANGED <<managerVars, outcome, tracker, syncVars, interrupted, sdPc, power>>

\* err # nil: the context decides between "cancelled" and "failed".
ConcludeError(t) ==
  /\ At(t, "concluding") /\ outcome[t] = "error"
  /\ outcome' = [outcome EXCEPT ![t] = IF t \in ctxDone THEN "cancelled" ELSE "failed"]
  /\ Announce(t, "failed")
  /\ Goto(t, "finishing")
  /\ UNCHANGED <<managerVars, apiVars, syncPc, held, interrupted, sdPc, power>>

\* err = nil: the manager is told "completed" without a look at the context.
ConcludeOk(t) ==
  /\ At(t, "concluding") /\ outcome[t] = "ok"
  /\ SetState("completed")
  /\ outcome' = [outcome EXCEPT ![t] = "completed"]
  /\ Goto(t, "completing")
  /\ UNCHANGED <<apiVars, syncVars, interrupted, sdPc, power>>

\* SetStage("completed") and Broadcast.
AnnounceCompleted(t) ==
  /\ At(t, "completing")
  /\ Announce(t, "completed")
  /\ Goto(t, "finishing")
  /\ UNCHANGED <<managerVars, outcome, apiVars, syncPc, held, interrupted, sdPc, power>>

FinishTask(t) ==
  /\ At(t, "finishing")
  /\ Finish(outcome[t])
  /\ Interrupt(IF cancelFn = t THEN NoTask ELSE cancelFn, "finish")
  /\ Goto(t, "ended")
  /\ UNCHANGED <<outcome, apiVars, syncVars, sdPc, power>>

\* The end report; a completed deployment may have to reboot the machine.
ReportEnd(t) ==
  /\ At(t, "ended")
  /\ \/ Goto(t, "done")
     \/ outcome[t] = "completed" /\ Goto(t, "rebooting")
  /\ UNCHANGED <<managerVars, outcome, apiVars, syncVars, interrupted, sdPc, power>>

\* autoReboot: system.Reboot works, or returns an error that is ignored.
AutoReboot(t) ==
  /\ At(t, "rebooting")
  /\ power' \in {"on", "off"}
  /\ Goto(t, "done")
  /\ UNCHANGED <<managerVars, outcome, apiVars, syncVars, interrupted, sdPc>>

-----------------------------------------------------------------------------
\* The sync goroutine of t.

Subscribe(t) ==
  /\ power = "on" /\ syncPc[t] = "subscribing"
  /\ syncPc' = [syncPc EXCEPT ![t] = "listening"]
  /\ UNCHANGED <<managerVars, pc, outcome, apiVars, inbox, held, interrupted, sdPc, power>>

\* A stage is taken from the channel; a running one will be written.
Receive(t) ==
  /\ power = "on" /\ syncPc[t] = "listening" /\ inbox[t] # <<>>
  /\ inbox' = [inbox EXCEPT ![t] = Tail(@)]
  /\ IF Head(inbox[t]) \in Running
     THEN /\ held' = [held EXCEPT ![t] = Head(inbox[t])]
          /\ syncPc' = [syncPc EXCEPT ![t] = "applying"]
     ELSE UNCHANGED <<held, syncPc>>
  /\ UNCHANGED <<managerVars, pc, outcome, apiVars, interrupted, sdPc, power>>

\* SetState, at whatever later time the goroutine gets m.mu.
ApplyStage(t) ==
  /\ power = "on" /\ syncPc[t] = "applying"
  /\ SetState(held[t])
  /\ syncPc' = [syncPc EXCEPT ![t] = "listening"]
  /\ held' = [held EXCEPT ![t] = "idle"]
  /\ UNCHANGED <<pc, outcome, apiVars, inbox, interrupted, sdPc, power>>

\* With stopSync closed the select may take this branch, though it may as well
\* take a stage that is still queued.
StopListening(t) ==
  /\ power = "on" /\ syncPc[t] = "listening" /\ StopSync(t)
  /\ syncPc' = [syncPc EXCEPT ![t] = "stopped"]
  /\ inbox' = [inbox EXCEPT ![t] = <<>>]
  /\ UNCHANGED <<managerVars, pc, outcome, apiVars, held, interrupted, sdPc, power>>

-----------------------------------------------------------------------------
\* POST /api/deploy/cancel; one that finds nothing to cancel changes nothing.
CancelDeploy ==
  /\ power = "on"
  /\ Cancel
  /\ Interrupt(cancelFn, "cancel")
  /\ UNCHANGED <<pc, outcome, apiVars, syncVars, sdPc, power>>

SdAt(s, here) == power = "on" /\ sdPc[s] = here

SdGoto(s, there) == sdPc' = [sdPc EXCEPT ![s] = there]

\* ensureCancelledForShutdown reads IsRunning.
ShutdownBegin(s) ==
  /\ SdAt(s, "idle")
  /\ SdGoto(s, IF IsRunning THEN "cancelling" ELSE "powering")
  /\ UNCHANGED <<managerVars, pc, outcome, apiVars, syncVars, interrupted, power>>

\* Cancel, whose result is ignored: the task may be over by now.
ShutdownCancel(s) ==
  /\ SdAt(s, "cancelling")
  /\ IF Busy THEN Cancel /\ Interrupt(cancelFn, "cancel")
             ELSE UNCHANGED <<managerVars, interrupted>>
  /\ SdGoto(s, "waiting")
  /\ UNCHANGED <<pc, outcome, apiVars, syncVars, power>>

\* waitCancelled finds the manager no longer running.
ShutdownDrained(s) ==
  /\ SdAt(s, "waiting") /\ ~IsRunning
  /\ SdGoto(s, "drained")
  /\ UNCHANGED <<managerVars, pc, outcome, apiVars, syncVars, interrupted, power>>

\* waitCancelled without a deadline.
FaultWaitForever(s) ==
  /\ SdAt(s, "waiting") /\ ~IsRunning
  /\ SdGoto(s, "expired")
  /\ UNCHANGED <<managerVars, pc, outcome, apiVars, syncVars, interrupted, power>>

\* waitCancelled gives up after three seconds.
ShutdownExpired(s) ==
  /\ SdAt(s, "waiting")
  /\ SdGoto(s, "expired")
  /\ UNCHANGED <<managerVars, pc, outcome, apiVars, syncVars, interrupted, power>>

\* One more end report, "cancelled", for whatever deployment was running.
ShutdownReport(s) ==
  /\ SdAt(s, "drained") \/ SdAt(s, "expired")
  /\ SdGoto(s, "powering")
  /\ UNCHANGED <<managerVars, pc, outcome, apiVars, syncVars, interrupted, power>>

\* system.Reboot or Poweroff, which may also return an error.
PowerDown(s) ==
  /\ SdAt(s, "powering")
  /\ \/ power' = "off" /\ SdGoto(s, "down")
     \/ power' = "on" /\ SdGoto(s, "failed")
  /\ UNCHANGED <<managerVars, pc, outcome, apiVars, syncVars, interrupted>>

-----------------------------------------------------------------------------
\* Steps of runDeploy that wait for the image server: its HTTP client has no
\* timeout, so only a cancelled context is sure to end the wait.
AwaitNetwork(t) ==
  FailEarly(t) \/ Respond(t) \/ CopyEOF(t) \/ CopyFail(t) \/ PublishResult(t)

\* Steps that need nobody outside the machine for long.
RunLocally(t) ==
  \/ PublishTracker(t) \/ Prepare(t) \/ ReportStart(t) \/ StartDownload(t)
  \/ FsyncAndCompare(t) \/ CloseTarget(t)
  \/ ConcludeError(t) \/ ConcludeOk(t) \/ AnnounceCompleted(t)
  \/ FinishTask(t) \/ ReportEnd(t) \/ AutoReboot(t)

SyncStep(t) == Subscribe(t) \/ Receive(t) \/ ApplyStage(t) \/ StopListening(t)

ShutdownStep(s) ==
  \/ ShutdownCancel(s) \/ ShutdownDrained(s) \/ ShutdownExpired(s)
  \/ ShutdownReport(s) \/ PowerDown(s)

Next ==
  \/ \E t \in Task : \/ RejectRequest(t) \/ Admit(t)
                     \/ RunLocally(t) \/ AwaitNetwork(t) \/ SyncStep(t)
  \/ CancelDeploy
  \/ \E s \in Shutdown : ShutdownBegin(s) \/ ShutdownStep(s)

Spec == Init /\ [][Next]_vars

\* The scheduler runs every goroutine that can move.  Requests need not arrive
\* and the image server need not answer.
Fairness ==
  /\ \A t \in Task : /\ WF_vars(RunLocally(t))
                     /\ WF_vars(t \in ctxDone /\ AwaitNetwork(t))
                     /\ WF_vars(SyncStep(t))
  /\ \A s \in Shutdown : WF_vars(ShutdownStep(s))

FairSpec == Spec /\ Fairness

-----------------------------------------------------------------------------
(***************************************************************************)
(* Safety.  "Until something is interrupted" is as far as the exclusion    *)
(* that state.go announces goes; the MC runs show how it ends after that.  *)
(***************************************************************************)
Undisturbed == \A t \in Task : interrupted[t] = "no"

\* As long as no context has been cancelled from outside its own deployment, at
\* most one deployment is between Acquire and the conclusion of runDeploy: the
\* state the manager keeps is enough to exclude a second one (state.go:78).
ExclusiveUntilInterrupted ==
  Undisturbed => \A t, u \in Task : pc[t] \in Live /\ pc[u] \in Live => t = u

\* Whatever the goroutines do to each other, the manager can stop the task it
\* calls current, or has already stopped it: m.cancel is never lost unused
\* (state.go:81-86, 137-140).
CurrentStoppable ==
  current # NoTask => cancelFn = current \/ current \in ctxDone

\* A task shown as failed or cancelled is not still writing with a context
\* that nobody has cancelled: those two states always come with the cancel
\* (Cancel, Finish), even when they were written by another task's goroutine.
AbandonedIsStopped ==
  \A t \in Task : state[t] \in {"failed", "cancelled"} => t \in ctxDone

\* Deployments that went on to succeed after their context had been cancelled.
LateCompletion == {t \in Task : outcome[t] = "completed" /\ interrupted[t] # "no"}

\* A deployment that is running, is no longer current and has a live context
\* is out of everybody's reach.  That takes an earlier deployment which was
\* interrupted and completed all the same: SetState("completed") at
\* deploy.go:214 then declares the wrong task over without cancelling it.
OrphanNeedsLateCompletion ==
  \A t \in Task : pc[t] \in Live /\ t # current /\ t \notin ctxDone
                    => LateCompletion # {}

\* What /api/deploy/status and the shutdown handlers read under s.mu belongs
\* to the deployment that is running, until something is interrupted: its
\* tracker once published, and no result but its own.
StatusCoherent ==
  Undisturbed =>
    \A t \in Task : pc[t] \in Live \ {"acquired"} =>
      /\ tracker = t
      /\ lastResult = IF pc[t] = "concluding" THEN t ELSE NoTask

-----------------------------------------------------------------------------
(***************************************************************************)
(* Liveness, under FairSpec.                                               *)
(***************************************************************************)

\* A cancelled deployment gives its target back and its goroutine ends, also
\* when the image server has stopped sending.
CancelDrains ==
  \A t \in Task : interrupted[t] = "cancel" ~> pc[t] = "done" \/ power = "off"

\* The sync goroutine of a deployment does not outlive it for ever, whichever
\* way the deployment ended.
SyncStops ==
  \A t \in Task : pc[t] = "done" ~> syncPc[t] = "stopped" \/ power = "off"

\* A shutdown request is carried out or refused by the system, even when the
\* manager is left in a running state that will never end.
ShutdownTakesEffect ==
  \A s \in Shutdown : sdPc[s] # "idle" ~> sdPc[s] = "failed" \/ power = "off"

-----------------------------------------------------------------------------
(***************************************************************************)
(* What comments and docs of the repository say, and the code does not     *)
(* keep: each is refuted by a run of its own.                              *)
(***************************************************************************)

\* state.go:3: one node runs one deployment at a time.  Here: at most one
\* deployment holds its target open for writing.
OneDeployAtATime ==
  \A t, u \in Task : HoldsTarget(t) /\ HoldsTarget(u) => t = u

\* deploy.go:165-166: the state copied from the tracker makes the status
\* accurate.  Here: with every goroutine gone, no task is shown as running.
StatusAccurateAtRest ==
  (\A t \in Task : pc[t] \in {"new", "rejected", "done"}
                     /\ syncPc[t] \in {"none", "stopped"})
    => ~IsRunning

=============================================================================
