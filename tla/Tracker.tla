------------------------------ MODULE Tracker ------------------------------
(***************************************************************************)
(* The progress tracker of one deployment (agent/internal/progress) with   *)
(* everybody who uses it: runDeploy, the only one who broadcasts, its sync *)
(* goroutine and the clients of GET /api/deploy/events, who listen.        *)
(*                                                                         *)
(* A broadcast copies the list of listeners under t.mu and sends after it  *)
(* has given the lock back; a listener closes its channel under t.mu when  *)
(* it leaves.  A step is one critical section of t.mu, one send, or one    *)
(* receive.  A frame is a Snapshot, reduced to the stage and the blocks    *)
(* written.  run = "crashed" is the panic of a send on a closed channel,   *)
(* which nobody recovers: the agent process is gone.                       *)
(***************************************************************************)
EXTENDS Naturals, Sequences

CONSTANTS Viewer,   \* the streams that clients open
          Sync,     \* the sync goroutine of runDeploy
          Blocks    \* what the image amounts to

ASSUME TrackerAssumption == Sync \notin Viewer /\ Blocks \in Nat

VARIABLES stage, written,  \* t.stage, with t.errMessage; t.written
          listeners,       \* t.listeners
          queue,           \* the channel of a listener: frames not yet received
          closed,          \* the channels that are closed
          run, after,      \* where runDeploy is, and where its announcement returns
          frame, pending,  \* the snapshot it sends, and who has yet to be sent it
          stopSync,        \* the channel of that name is closed
          pc,              \* where a listener is
          last,            \* the last frame a viewer was sent
          history, heard,  \* what was broadcast; how much of it a listener has received
          torn             \* who left while a broadcast was about to send to it

trackerVars  == <<stage, written>>
channelVars  == <<listeners, queue, closed>>
runVars      == <<run, after, frame, pending, stopSync>>
vars == <<trackerVars, channelVars, runVars, pc, last, history, heard, torn>>

Listener == Viewer \cup {Sync}

InRun    == {"downloading", "writing", "syncing"}
Terminal == {"completed", "failed"}
Stage    == {"", "preparing"} \cup InRun \cup Terminal

Frame    == [stage : Stage, written : 0..Blocks]
Snapshot == [stage |-> stage, written |-> written]
NoFrame  == [stage |-> "", written |-> 0]

\* (A channel too small for the stages of one deployment.)
FaultCapacity == 2

\* make(chan Snapshot, 16)
Capacity == 16

\* (The last stage of Run is taken for the end.)
FaultEndsStream(f) == f.stage \in Terminal \cup {"syncing"}

\* A frame after which handleDeployEvents returns.
EndsStream(f) == f.stage \in Terminal

TypeOK ==
  /\ stage \in Stage /\ written \in 0..Blocks
  /\ listeners \subseteq Listener /\ closed \subseteq Listener
  /\ queue \in [Listener -> Seq(Frame)]
  /\ \A l \in Listener : Len(queue[l]) <= Capacity
  /\ run \in {"published", "running", "announcing", "sending", "returned",
              "repeating", "over", "crashed"}
  /\ after \in {"running", "repeating", "over"}
  /\ frame \in Frame /\ pending \subseteq Listener /\ stopSync \in BOOLEAN
  /\ pc \in [Listener -> {"away", "subscribed", "listening", "ending", "ended",
                          "leaving", "gone"}]
  /\ last \in [Viewer -> Frame]
  /\ history \in Seq(Frame) /\ heard \in [Listener -> Nat] /\ torn \subseteq Listener

Init ==
  /\ stage = "" /\ written = 0
  /\ listeners = {} /\ closed = {} /\ queue = [l \in Listener |-> <<>>]
  /\ run = "published" /\ after = "running" /\ frame = NoFrame /\ pending = {}
  /\ stopSync = FALSE
  /\ pc = [l \in Listener |-> "away"]
  /\ last = [v \in Viewer |-> NoFrame]
  /\ history = <<>> /\ heard = [l \in Listener |-> 0] /\ torn = {}

-----------------------------------------------------------------------------
(***************************************************************************)
(* runDeploy and Pipeline.Run.                                             *)
(***************************************************************************)

\* Tracker.Start, which tells nobody.
Start ==
  /\ run = "published"
  /\ stage' = "preparing" /\ written' = 0
  /\ run' = "running"
  /\ UNCHANGED <<channelVars, after, frame, pending, stopSync, pc, last, history, heard, torn>>

\* The first half of SetStage and of Fail; the second half is a broadcast, and
\* what follows it is `next`.
Announce(s, next) ==
  /\ stage' = s
  /\ run' = "announcing" /\ after' = next
  /\ UNCHANGED <<written, channelVars, frame, pending, stopSync, pc, last, history, heard, torn>>

\* Run announces its next stage.
SetStage ==
  /\ run = "running"
  /\ \/ stage = "preparing"   /\ Announce("downloading", "running")
     \/ stage = "downloading" /\ Announce("writing", "running")
     \/ stage = "writing"     /\ Announce("syncing", "running")

\* (A block is counted where it is read and where it is written.)
FaultAddWritten ==
  /\ run = "running" /\ stage = "writing" /\ written < Blocks
  /\ written' = written + 2
  /\ UNCHANGED <<stage, channelVars, runVars, pc, last, history, heard, torn>>

AddWritten ==
  /\ run = "running" /\ stage = "writing" /\ written < Blocks
  /\ written' = written + 1
  /\ UNCHANGED <<stage, channelVars, runVars, pc, last, history, heard, torn>>

\* Run returns, and stopSync is closed.
Return ==
  /\ run = "running" /\ stage \in InRun
  /\ run' = "returned" /\ stopSync' = TRUE
  /\ UNCHANGED <<trackerVars, channelVars, after, frame, pending, pc, last, history, heard, torn>>

\* err # nil, which is possible in every stage: Fail.  err = nil: SetStage("completed"),
\* after which Broadcast is called once more.
Conclude ==
  /\ run = "returned"
  /\ \/ Announce("failed", "over")
     \/ stage = "syncing" /\ Announce("completed", "repeating")

Repeat ==
  /\ run = "repeating"
  /\ run' = "announcing" /\ after' = "over"
  /\ UNCHANGED <<trackerVars, channelVars, frame, pending, stopSync, pc, last, history, heard, torn>>

\* broadcastLocked: the snapshot and the list of listeners, under t.mu.
CopyListeners ==
  /\ run = "announcing"
  /\ run' = "sending" /\ frame' = Snapshot /\ pending' = listeners
  /\ history' = Append(history, Snapshot)
  /\ UNCHANGED <<trackerVars, channelVars, after, stopSync, pc, last, heard, torn>>

\* The non-blocking send to one of them.
Send(l) ==
  /\ run = "sending" /\ l \in pending
  /\ pending' = pending \ {l}
  /\ IF l \in closed
     THEN run' = "crashed" /\ UNCHANGED queue
     ELSE /\ run' = run
          /\ queue' = IF Len(queue[l]) < Capacity
                      THEN [queue EXCEPT ![l] = Append(@, frame)]
                      ELSE queue
  /\ UNCHANGED <<trackerVars, listeners, closed, after, frame, stopSync, pc, last,
                 history, heard, torn>>

AllSent ==
  /\ run = "sending" /\ pending = {}
  /\ run' = after
  /\ UNCHANGED <<trackerVars, channelVars, after, frame, pending, stopSync, pc, last,
                 history, heard, torn>>

-----------------------------------------------------------------------------
(***************************************************************************)
(* The listeners.                                                          *)
(***************************************************************************)
At(l, here) == run # "crashed" /\ pc[l] = here

Goto(l, there) == pc' = [pc EXCEPT ![l] = there]

\* Where a listener goes on once it has been sent frame f.
Shown(v, f) ==
  /\ last' = [last EXCEPT ![v] = f]
  /\ Goto(v, IF EndsStream(f) THEN "ending" ELSE "listening")

\* Tracker.Subscribe, by a client of /api/deploy/events or by the sync goroutine.
Subscribe(l) ==
  /\ At(l, "away")
  /\ listeners' = listeners \cup {l}
  /\ heard' = [heard EXCEPT ![l] = Len(history)]
  /\ Goto(l, IF l = Sync THEN "listening" ELSE "subscribed")
  /\ UNCHANGED <<trackerVars, queue, closed, runVars, last, history, torn>>

\* The frame that is sent at once; the stream goes on after it whatever it says.
FirstFrame(v) ==
  /\ At(v, "subscribed")
  /\ last' = [last EXCEPT ![v] = Snapshot]
  /\ Goto(v, "listening")
  /\ UNCHANGED <<trackerVars, channelVars, runVars, history, heard, torn>>

\* (No ticker: only broadcasts are shown.)
FaultTick(v) == FALSE

\* The ticker: a snapshot of its own, past whatever waits in the channel.
Tick(v) ==
  /\ At(v, "listening")
  /\ Shown(v, Snapshot)
  /\ UNCHANGED <<trackerVars, channelVars, runVars, history, heard, torn>>

\* A frame is taken from the channel, by a viewer or by the sync goroutine.
Receive(l) ==
  /\ At(l, "listening") /\ queue[l] # <<>>
  /\ queue' = [queue EXCEPT ![l] = Tail(@)]
  /\ heard' = [heard EXCEPT ![l] = @ + 1]
  /\ IF l = Sync THEN UNCHANGED <<last, pc>> ELSE Shown(l, Head(queue[l]))
  /\ UNCHANGED <<trackerVars, listeners, closed, runVars, history, torn>>

\* The client of a stream is gone, or stopSync is closed.
Leave(l) ==
  /\ At(l, "listening")
  /\ l = Sync => stopSync
  /\ Goto(l, "leaving")
  /\ last' = [v \in Viewer |-> IF v = l THEN NoFrame ELSE last[v]]
  /\ UNCHANGED <<trackerVars, channelVars, runVars, history, heard, torn>>

\* (The channel is closed and stays in the list.)
FaultRemove(l) == listeners

\* What is left of t.listeners without l's channel.
Remove(l) == listeners \ {l}

\* The deferred Unsubscribe: close and remove, under t.mu.  What the channel
\* still holds is garbage.
Unsubscribe(l) ==
  /\ At(l, "ending") \/ At(l, "leaving")
  /\ closed' = closed \cup {l}
  /\ listeners' = Remove(l)
  /\ queue' = [queue EXCEPT ![l] = <<>>]
  /\ heard' = [heard EXCEPT ![l] = 0]
  /\ Goto(l, IF pc[l] = "ending" THEN "ended" ELSE "gone")
  /\ torn' = IF l \in pending THEN torn \cup {l} ELSE torn
  /\ UNCHANGED <<trackerVars, runVars, last, history>>

-----------------------------------------------------------------------------
Broadcaster == CopyListeners \/ AllSent \/ Repeat \/ \E l \in Listener : Send(l)

ListenerStep(l) ==
  \/ Subscribe(l) \/ Receive(l) \/ Leave(l) \/ Unsubscribe(l)
  \/ l # Sync /\ (FirstFrame(l) \/ Tick(l))

Next ==
  \/ Start \/ SetStage \/ AddWritten \/ Return \/ Conclude \/ Broadcaster
  \/ \E l \in Listener : ListenerStep(l)

Spec == Init /\ [][Next]_vars

\* The goroutine of a stream is scheduled, its ticker fires and its client reads
\* what it is sent.  Nothing is asked of the deployment, nor of the clients who
\* may come and go.
Fairness ==
  \A v \in Viewer : WF_vars(FirstFrame(v) \/ Tick(v) \/ Receive(v) \/ Unsubscribe(v))

FairSpec == Spec /\ Fairness

-----------------------------------------------------------------------------
\* What is broadcast while a listener is subscribed reaches its channel once, in
\* order, and without a gap, up to the frame that is on its way: five broadcasts
\* never fill a channel of sixteen (progress.go:152, 179-184).  DeployAgent
\* relies on this for the stages that the sync goroutine copies.
NothingSkipped ==
  \A l \in listeners :
    queue[l] = SubSeq(history, heard[l] + 1,
                      IF l \in pending THEN Len(history) - 1 ELSE Len(history))

\* A stream that the agent ended has shown the final state of the deployment as
\* its last frame: nothing follows what isTerminalStage takes for the end, and
\* nobody else closes the channel of a stream (deploy.go:281-296).
EndsWithOutcome ==
  \A v \in Viewer : pc[v] \in {"ending", "ended"} => last[v] = Snapshot /\ stage \in Terminal

\* The agent survives every order of broadcasts and listeners that come and go,
\* unless one leaves between the copy of the list and the send to it.
CrashNeedsLeaver == run = "crashed" => torn # {}

\* A client that stays is told how the deployment ended, also one that came too
\* late for the last broadcast (deploy.go:281-286).
OutcomeShown ==
  \A v \in Viewer :
    pc[v] \in {"subscribed", "listening"} /\ stage \in Terminal
      ~> pc[v] \in {"ended", "leaving", "gone"} \/ run = "crashed"

\* deploy.go:138 and server.go:131: a deployment runs in the background and is
\* not affected by the requests around it.  Here: no listener that leaves takes
\* the agent with it.
NoSendOnClosed == run # "crashed"

=============================================================================
