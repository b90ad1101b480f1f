--------------------------- MODULE DeployManager ---------------------------
(***************************************************************************)
(* deploy.Manager of the node agent (agent/internal/deploy/state.go): the  *)
(* one "current" deploy task of a node, its state, and the cancel function *)
(* of the context handed to its pipeline.  Each operation holds m.mu from  *)
(* beginning to end, so each is one step; the module defines them as       *)
(* actions on the manager's variables, for the goroutines of DeployAgent   *)
(* to take.                                                                *)
(*                                                                         *)
(* Timestamps and error texts of a Task are left out.                      *)
(*                                                                         *)
(* An operator named Fault... is what a plausible slip would have made of  *)
(* the definition after it.  No action uses it; it is there to see that    *)
(* the properties would notice.                                            *)
(***************************************************************************)

CONSTANTS Task,    \* the deploy requests that may be accepted, one Task object each
          NoTask   \* the nil pointer of m.current, m.cancel, s.tracker

ASSUME TaskAssumption == NoTask \notin Task

VARIABLES current,   \* m.current: the last task admitted
          state,     \* Task.State of every task, "idle" before it is admitted
          cancelFn,  \* m.cancel: the task whose context it cancels, NoTask if nil
          ctxDone    \* the tasks whose context is cancelled

managerVars == <<current, state, cancelFn, ctxDone>>

Terminal == {"completed", "failed", "cancelled"}

Running == {"validating", "preparing", "downloading", "writing", "syncing",
            "verifying"}

State == {"idle"} \cup Running \cup Terminal

ManagerTypeOK ==
  /\ current \in Task \cup {NoTask}
  /\ state \in [Task -> State]
  /\ cancelFn \in Task \cup {NoTask}
  /\ ctxDone \in SUBSET Task

ManagerInit ==
  /\ current = NoTask
  /\ state = [t \in Task |-> "idle"]
  /\ cancelFn = NoTask
  /\ ctxDone = {}

-----------------------------------------------------------------------------
\* A task counts as running only while it writes.
FaultBusyOnlyWriting ==
  current # NoTask /\ state[current] \in {"writing", "syncing"}

\* The test of Acquire and Cancel: there is a task and it is not over.
Busy == current # NoTask /\ state[current] \notin Terminal

\* Manager.IsRunning, the test of the shutdown handlers.
IsRunning == current # NoTask /\ state[current] \in Running

\* Acquire succeeds: t becomes the current task with a fresh context.  What the
\* previous task still does is not looked at, only the state recorded for it.
Acquire(t) ==
  /\ ~Busy
  /\ current' = t
  /\ cancelFn' = t
  /\ state' = [state EXCEPT ![t] = "validating"]
  /\ UNCHANGED ctxDone

\* SetState writes to whatever task is current, terminal or not, whoever calls.
SetState(s) ==
  /\ state' = IF current = NoTask THEN state
                                  ELSE [state EXCEPT ![current] = s]
  /\ UNCHANGED <<current, cancelFn, ctxDone>>

\* m.cancel is called without the test for nil.
FaultCallNil == ctxDone' = ctxDone \cup {cancelFn}

\* Calling m.cancel cancels the context it was made for, nil cancels nothing.
CallCancelFn == ctxDone' = ctxDone \cup ({cancelFn} \ {NoTask})

\* Cancel records the state and forgets the context.
FaultCancelKeepsContext ==
  /\ Busy
  /\ state' = [state EXCEPT ![current] = "cancelled"]
  /\ UNCHANGED <<current, cancelFn, ctxDone>>

\* Cancel succeeds: the context is cancelled and the task is recorded as
\* cancelled at once, before its pipeline has noticed anything.
Cancel ==
  /\ Busy
  /\ CallCancelFn
  /\ state' = [state EXCEPT ![current] = "cancelled"]
  /\ UNCHANGED <<current, cancelFn>>

\* Finish drops m.cancel without calling it.
FaultFinishKeepsContext(s) ==
  /\ current # NoTask
  /\ state' = [state EXCEPT ![current] = s]
  /\ cancelFn' = NoTask
  /\ UNCHANGED <<current, ctxDone>>

\* Finish, like SetState, acts on whatever task is current.
Finish(s) ==
  /\ current # NoTask
  /\ state' = [state EXCEPT ![current] = s]
  /\ CallCancelFn
  /\ cancelFn' = NoTask
  /\ UNCHANGED current

=============================================================================
