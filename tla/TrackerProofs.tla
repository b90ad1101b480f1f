--------------------------- MODULE TrackerProofs ---------------------------
(***************************************************************************)
(* Proofs about Tracker, for any number of clients and any size of image.  *)
(*                                                                         *)
(* EndsWithOutcome rests on the fact that a terminal stage is the last:    *)
(* nothing runDeploy does after it changes what a snapshot shows (Final),  *)
(* so that a terminal frame is the same wherever it still is (Faithful).   *)
(* CrashNeedsLeaver rests on the channels in the list being open (Open):   *)
(* one that is closed and still to be sent to was closed since the copy.   *)
(***************************************************************************)
EXTENDS Tracker, SequenceTheorems, TLAPS

\* A snapshot that ends a stream shows the present, and so the final state.
Telling(f) == f.stage \in Terminal => f = Snapshot

\* After a terminal stage only announcements of it are left to do.
Final ==
  stage \in Terminal =>
    /\ run \in {"announcing", "sending", "repeating", "over", "crashed"}
    /\ after \in {"repeating", "over"}

\* Frames on their way do not tell of another end than the one there is.
Faithful ==
  /\ run = "sending" => Telling(frame)
  /\ \A l \in Listener : \A k \in 1..Len(queue[l]) : Telling(queue[l][k])

\* A channel is in the list from Subscribe to Unsubscribe, and closed from then
\* on; who is in the copied list and closed has left since the copy.
Open ==
  /\ \A l \in listeners : pc[l] \in {"subscribed", "listening", "ending", "leaving"}
  /\ \A l \in closed : pc[l] \in {"ended", "gone"}
  /\ run = "sending" => pending \cap closed \subseteq torn

\* What Next preserves, given TypeOK.
IInv == Final /\ Faithful /\ EndsWithOutcome /\ Open /\ CrashNeedsLeaver

-----------------------------------------------------------------------------
\* The definitions every step needs.
USE DEF At, Goto, Listener, trackerVars, channelVars, runVars

\* Sixteen, and all the prover needs to know of it.
LEMMA CapacityIsNat == Capacity \in Nat
  BY DEF Capacity

\* Nothing written is a possible amount.
LEMMA NothingIsFrame == 0 \in 0..Blocks /\ NoFrame \in Frame
<1>1. 0 \in 0..Blocks
  BY TrackerAssumption
<1>2. QED
  BY <1>1 DEF NoFrame, Frame, Stage

\* The initial state is typed.
LEMMA TypeInit == Init => TypeOK
<1> SUFFICES ASSUME Init PROVE TypeOK
  OBVIOUS
<1>1. <<>> \in Seq(Frame) /\ Len(<<>>) <= Capacity
  BY EmptySeq, CapacityIsNat
<1>2. queue \in [Listener -> Seq(Frame)] /\ \A l \in Listener : Len(queue[l]) <= Capacity
  BY <1>1 DEF Init
<1>3. last \in [Viewer -> Frame] /\ frame \in Frame
  BY NothingIsFrame DEF Init
<1>4. history \in Seq(Frame) /\ heard \in [Listener -> Nat]
  BY <1>1 DEF Init
<1>5. QED
  BY <1>1, <1>2, <1>3, <1>4, NothingIsFrame DEF Init, TypeOK, Stage

\* A snapshot is a frame.
LEMMA SnapshotIsFrame == TypeOK => Snapshot \in Frame
  BY DEF TypeOK, Snapshot, Frame

\* What runDeploy does keeps the types.
LEMMA TypeRun ==
  ASSUME TypeOK, Start \/ SetStage \/ AddWritten \/ Return \/ Conclude \/ Broadcaster
  PROVE  TypeOK'
<1> USE DEF TypeOK
<1>1. CASE Start
  BY <1>1, NothingIsFrame DEF Start, Stage
<1>2. CASE SetStage
  BY <1>2 DEF SetStage, Announce, Stage, InRun
<1>3. CASE AddWritten
  BY <1>3, TrackerAssumption DEF AddWritten
<1>4. CASE Return
  BY <1>4 DEF Return
<1>5. CASE Conclude
  BY <1>5 DEF Conclude, Announce, Stage, Terminal
<1>6. CASE CopyListeners
  BY <1>6, SnapshotIsFrame DEF CopyListeners
<1>7. CASE AllSent
  BY <1>7 DEF AllSent
<1>8. CASE Repeat
  BY <1>8 DEF Repeat
<1>9. ASSUME NEW l \in Listener, Send(l)
      PROVE  TypeOK'
  <2>1. CASE l \in closed
    BY <1>9, <2>1 DEF Send
  <2>2. CASE l \notin closed /\ Len(queue[l]) < Capacity
    <3>1. /\ queue' = [queue EXCEPT ![l] = Append(queue[l], frame)]
          /\ pending' = pending \ {l} /\ run' = run
          /\ UNCHANGED <<stage, written, listeners, closed, after, frame, stopSync, pc, last,
                         history, heard, torn>>
      BY <1>9, <2>2 DEF Send
    <3>2. /\ Append(queue[l], frame) \in Seq(Frame)
          /\ Len(Append(queue[l], frame)) = Len(queue[l]) + 1
      BY <1>9
    <3>3. Len(Append(queue[l], frame)) <= Capacity
      BY <3>2, <2>2, CapacityIsNat
    <3>4. QED
      BY <3>1, <3>2, <3>3
  <2>3. CASE l \notin closed /\ ~(Len(queue[l]) < Capacity)
    BY <1>9, <2>3 DEF Send
  <2>4. QED
    BY <2>1, <2>2, <2>3
<1>10. QED
  BY <1>1, <1>2, <1>3, <1>4, <1>5, <1>6, <1>7, <1>8, <1>9 DEF Broadcaster

\* What the listeners do keeps the types.
LEMMA TypeListener ==
  ASSUME TypeOK, NEW l \in Listener, ListenerStep(l)
  PROVE  TypeOK'
<1> USE DEF TypeOK
<1>1. CASE Subscribe(l)
  BY <1>1 DEF Subscribe
<1>2. CASE Receive(l)
  <2>1. /\ Head(queue[l]) \in Frame /\ Tail(queue[l]) \in Seq(Frame)
        /\ Len(Tail(queue[l])) = Len(queue[l]) - 1 /\ Len(queue[l]) \in Nat
    BY <1>2 DEF Receive
  <2>2. Len(Tail(queue[l])) <= Capacity
    BY <2>1, CapacityIsNat
  <2>3. /\ queue' = [queue EXCEPT ![l] = Tail(queue[l])]
        /\ heard' = [heard EXCEPT ![l] = heard[l] + 1]
        /\ UNCHANGED <<stage, written, listeners, closed, run, after, frame, pending, stopSync,
                       history, torn>>
    BY <1>2 DEF Receive
  <2>4. CASE l = Sync
    BY <1>2, <2>1, <2>2, <2>3, <2>4 DEF Receive
  <2>5. CASE l # Sync
    <3>1. /\ l \in Viewer /\ last' = [last EXCEPT ![l] = Head(queue[l])]
          /\ pc' = [pc EXCEPT ![l] = IF EndsStream(Head(queue[l])) THEN "ending" ELSE "listening"]
      BY <1>2, <2>5 DEF Receive, Shown
    <3>2. last' \in [Viewer -> Frame]
      BY <3>1, <2>1
    <3>3. QED
      BY <3>1, <3>2, <2>1, <2>2, <2>3
  <2>6. QED
    BY <2>4, <2>5
<1>3. CASE Leave(l)
  BY <1>3, NothingIsFrame DEF Leave
<1>4. CASE Unsubscribe(l)
  BY <1>4, CapacityIsNat DEF Unsubscribe, Remove
<1>5. CASE l # Sync /\ FirstFrame(l)
  BY <1>5, SnapshotIsFrame DEF FirstFrame
<1>6. CASE l # Sync /\ Tick(l)
  BY <1>6, SnapshotIsFrame DEF Tick, Shown
<1>7. QED
  BY <1>1, <1>2, <1>3, <1>4, <1>5, <1>6 DEF ListenerStep

\* TypeOK holds whatever the number of clients and the size of the image; in
\* particular no channel is ever overfull.
THEOREM TypeCorrect == Spec => []TypeOK
<1>1. TypeOK /\ UNCHANGED vars => TypeOK'
  BY DEF TypeOK, vars
<1>2. TypeOK /\ [Next]_vars => TypeOK'
  BY <1>1, TypeRun, TypeListener DEF Next
<1>3. QED
  BY TypeInit, <1>2, PTL DEF Spec

-----------------------------------------------------------------------------
\* A terminal frame that tells the truth is the end of the stage.
LEMMA TruthIsFinal ==
  ASSUME NEW f, Telling(f), f.stage \in Terminal
  PROVE  stage \in Terminal /\ f = Snapshot
  BY DEF Telling, Snapshot

\* The initial state satisfies the invariant.
LEMMA InvInit == Init => IInv
<1> SUFFICES ASSUME Init PROVE IInv
  OBVIOUS
<1>1. \A l \in Listener : queue[l] = <<>>
  BY DEF Init
<1>2. /\ stage = "" /\ run = "published" /\ listeners = {} /\ closed = {} /\ pending = {}
      /\ \A v \in Viewer : pc[v] = "away"
  BY DEF Init
<1>3. Faithful
  <2>1. \A l \in Listener : 1..Len(queue[l]) = {}
    BY <1>1, EmptySeq
  <2>2. QED
    BY <1>2, <2>1 DEF Faithful
<1>4. Final /\ EndsWithOutcome /\ Open /\ CrashNeedsLeaver
  BY <1>2 DEF Final, Terminal, EndsWithOutcome, Open, CrashNeedsLeaver
<1>5. QED
  BY <1>3, <1>4 DEF IInv

\* The steps of runDeploy that change what a snapshot shows come before the end.
LEMMA InvChange ==
  ASSUME TypeOK, IInv, Start \/ SetStage \/ AddWritten \/ Conclude
  PROVE  IInv'
<1>1. stage \notin Terminal
  <2>1. CASE Start
    BY <2>1 DEF Start, IInv, Final
  <2>2. CASE SetStage
    BY <2>2 DEF SetStage, Terminal
  <2>3. CASE AddWritten
    BY <2>3 DEF AddWritten, Terminal
  <2>4. CASE Conclude
    BY <2>4 DEF Conclude, IInv, Final
  <2>5. QED
    BY <2>1, <2>2, <2>3, <2>4
<1>2. /\ run' \in {"running", "announcing"}
      /\ UNCHANGED <<listeners, queue, closed, frame, pending, pc, last, torn>>
  BY DEF Start, SetStage, AddWritten, Conclude, Announce
<1>3. Final'
  <2>1. CASE Start
    BY <2>1 DEF Start, Final, Terminal
  <2>2. CASE SetStage
    BY <2>2 DEF SetStage, Announce, Final, Terminal
  <2>3. CASE AddWritten
    BY <2>3 DEF AddWritten, Final, Terminal
  <2>4. CASE Conclude
    BY <2>4 DEF Conclude, Announce, Final
  <2>5. QED
    BY <2>1, <2>2, <2>3, <2>4
<1>4. Faithful'
  <2>1. \A l \in Listener : \A k \in 1..Len(queue[l]) : queue[l][k].stage \notin Terminal
    BY <1>1, TruthIsFinal DEF IInv, Faithful
  <2>2. QED
    BY <1>2, <2>1 DEF Faithful, Telling
<1>5. EndsWithOutcome'
  BY <1>1, <1>2 DEF IInv, EndsWithOutcome
<1>6. Open' /\ CrashNeedsLeaver'
  BY <1>2 DEF IInv, Open, CrashNeedsLeaver
<1>7. QED
  BY <1>3, <1>4, <1>5, <1>6 DEF IInv

\* The other steps of runDeploy.
LEMMA InvSend ==
  ASSUME TypeOK, IInv, Return \/ Broadcaster
  PROVE  IInv'
<1> USE DEF IInv
<1>1. CASE Return \/ Repeat \/ AllSent
  <2>1. /\ UNCHANGED <<stage, written, listeners, queue, closed, frame, pending, pc, last, torn>>
        /\ run' # "sending" /\ run' # "crashed"
    BY <1>1 DEF Return, Repeat, AllSent, TypeOK
  <2>2. Final'
    BY <1>1 DEF Return, Repeat, AllSent, Final, Terminal, InRun, TypeOK
  <2>3. Faithful'
    BY <2>1 DEF Faithful, Telling, Snapshot
  <2>4. EndsWithOutcome' /\ Open' /\ CrashNeedsLeaver'
    BY <2>1 DEF EndsWithOutcome, Open, CrashNeedsLeaver, Snapshot
  <2>5. QED
    BY <2>2, <2>3, <2>4
<1>2. CASE CopyListeners
  <2>1. /\ UNCHANGED <<stage, written, listeners, queue, closed, after, pc, last, torn>>
        /\ run = "announcing" /\ run' = "sending" /\ frame' = Snapshot /\ pending' = listeners
    BY <1>2 DEF CopyListeners
  <2>2. listeners \cap closed = {}
    BY DEF Open
  <2>3. Final' /\ EndsWithOutcome' /\ CrashNeedsLeaver'
    BY <2>1 DEF Final, EndsWithOutcome, CrashNeedsLeaver, Snapshot
  <2>4. Faithful'
    BY <2>1 DEF Faithful, Telling, Snapshot
  <2>5. Open'
    BY <2>1, <2>2 DEF Open
  <2>6. QED
    BY <2>3, <2>4, <2>5
<1>3. ASSUME NEW l \in Listener, Send(l)
      PROVE  IInv'
  <2>1. /\ UNCHANGED <<stage, written, listeners, closed, after, frame, pc, last, torn>>
        /\ run = "sending" /\ l \in pending /\ pending' = pending \ {l}
        /\ l \in closed => run' = "crashed"
        /\ l \notin closed => run' = run
    BY <1>3 DEF Send
  <2>2. Final' /\ EndsWithOutcome'
    BY <2>1 DEF Final, EndsWithOutcome, Snapshot
  <2>3. Open' /\ CrashNeedsLeaver'
    BY <2>1 DEF Open, CrashNeedsLeaver
  <2>4. queue' = queue \/ queue' = [queue EXCEPT ![l] = Append(queue[l], frame)]
    BY <1>3 DEF Send
  <2>5. Telling(frame)
    BY <2>1 DEF Faithful
  <2>6. \A m \in Listener : \A k \in 1..Len(queue'[m]) : Telling(queue'[m][k])
    <3>1. CASE queue' = queue
      BY <3>1 DEF Faithful
    <3>2. CASE queue' = [queue EXCEPT ![l] = Append(queue[l], frame)]
      <4>1. queue[l] \in Seq(Frame)
        BY DEF TypeOK
      <4>2. \A k \in 1..Len(Append(queue[l], frame)) :
              Append(queue[l], frame)[k] = frame \/
                (k \in 1..Len(queue[l]) /\ Append(queue[l], frame)[k] = queue[l][k])
        BY <4>1
      <4>3. \A k \in 1..Len(Append(queue[l], frame)) : Telling(Append(queue[l], frame)[k])
        BY <4>2, <2>5 DEF Faithful
      <4>4. \A m \in Listener : m # l => queue'[m] = queue[m]
        BY <3>2 DEF TypeOK
      <4>5. queue'[l] = Append(queue[l], frame)
        BY <3>2 DEF TypeOK
      <4>6. QED
        BY <4>3, <4>4, <4>5 DEF Faithful
    <3>3. QED
      BY <2>4, <3>1, <3>2
  <2>7. Faithful'
    BY <2>1, <2>5, <2>6 DEF Faithful, Telling, Snapshot
  <2>8. QED
    BY <2>2, <2>3, <2>7
<1>4. QED
  BY <1>1, <1>2, <1>3 DEF Broadcaster

\* What the listeners do.
LEMMA InvListener ==
  ASSUME TypeOK, IInv, NEW l \in Listener, ListenerStep(l)
  PROVE  IInv'
<1> USE DEF IInv
<1>1. /\ UNCHANGED <<stage, written, run, after, frame, pending>>
      /\ torn \subseteq torn'
  BY DEF ListenerStep, Subscribe, Receive, Leave, Unsubscribe, FirstFrame, Tick
<1>2. Final' /\ CrashNeedsLeaver'
  BY <1>1 DEF Final, CrashNeedsLeaver
<1>3. Faithful'
  <2>1. \A m \in Listener : \A k \in 1..Len(queue'[m]) : Telling(queue'[m][k])
    <3>1. CASE queue' = queue
      BY <3>1 DEF Faithful
    <3>2. CASE Unsubscribe(l)
      <4>1. /\ \A m \in Listener : m # l => queue'[m] = queue[m]
            /\ queue'[l] = <<>>
        BY <3>2 DEF Unsubscribe, TypeOK
      <4>2. QED
        BY <4>1 DEF Faithful
    <3>3. CASE Receive(l)
      <4>1. queue[l] \in Seq(Frame) /\ queue[l] # <<>>
        BY <3>3 DEF Receive, TypeOK
      <4>2. /\ \A m \in Listener : m # l => queue'[m] = queue[m]
            /\ queue'[l] = Tail(queue[l])
        BY <3>3 DEF Receive, TypeOK
      <4>3. \A k \in 1..Len(Tail(queue[l])) :
              k + 1 \in 1..Len(queue[l]) /\ Tail(queue[l])[k] = queue[l][k + 1]
        BY <4>1
      <4>4. QED
        BY <4>2, <4>3 DEF Faithful
    <3>4. QED
      BY <3>1, <3>2, <3>3 DEF ListenerStep, Subscribe, Leave, FirstFrame, Tick
  <2>2. QED
    BY <1>1, <2>1 DEF Faithful, Telling, Snapshot
<1>4. EndsWithOutcome'
  <2>1. CASE Receive(l) /\ l # Sync
    <3>1. queue[l] \in Seq(Frame) /\ queue[l] # <<>> /\ l \in Viewer
      BY <2>1 DEF Receive, TypeOK
    <3>2. Head(queue[l]) = queue[l][1] /\ 1 \in 1..Len(queue[l])
      BY <3>1
    <3>3. Telling(Head(queue[l]))
      BY <3>2 DEF Faithful
    <3>4. /\ last' = [last EXCEPT ![l] = Head(queue[l])]
          /\ pc' = [pc EXCEPT ![l] = IF EndsStream(Head(queue[l])) THEN "ending" ELSE "listening"]
      BY <2>1 DEF Receive, Shown
    <3>5. EndsStream(Head(queue[l])) => Head(queue[l]) = Snapshot /\ stage \in Terminal
      BY <3>3, TruthIsFinal DEF EndsStream
    <3>6. QED
      BY <1>1, <3>1, <3>4, <3>5 DEF EndsWithOutcome, TypeOK, Snapshot
  <2>2. CASE l # Sync /\ Tick(l)
    BY <1>1, <2>2 DEF Tick, Shown, EndsStream, EndsWithOutcome, TypeOK, Snapshot
  <2>3. CASE l # Sync /\ FirstFrame(l)
    BY <1>1, <2>3 DEF FirstFrame, EndsWithOutcome, TypeOK, Snapshot
  <2>4. CASE Subscribe(l)
    BY <1>1, <2>4 DEF Subscribe, EndsWithOutcome, TypeOK, Snapshot
  <2>5. CASE Receive(l) /\ l = Sync
    BY <1>1, <2>5 DEF Receive, EndsWithOutcome, Snapshot
  <2>6. CASE Leave(l)
    BY <1>1, <2>6 DEF Leave, EndsWithOutcome, TypeOK, Snapshot
  <2>7. CASE Unsubscribe(l)
    BY <1>1, <2>7 DEF Unsubscribe, EndsWithOutcome, TypeOK, Snapshot
  <2>8. QED
    BY <2>1, <2>2, <2>3, <2>4, <2>5, <2>6, <2>7 DEF ListenerStep
<1>5. Open'
  <2>1. CASE Unsubscribe(l)
    BY <1>1, <2>1 DEF Unsubscribe, Remove, Open, TypeOK
  <2>2. CASE Subscribe(l)
    BY <1>1, <2>2 DEF Subscribe, Open, TypeOK
  <2>3. CASE Receive(l)
    BY <1>1, <2>3 DEF Receive, Shown, Open, TypeOK
  <2>4. CASE Leave(l)
    BY <1>1, <2>4 DEF Leave, Open, TypeOK
  <2>5. CASE l # Sync /\ (FirstFrame(l) \/ Tick(l))
    BY <1>1, <2>5 DEF FirstFrame, Tick, Shown, Open, TypeOK
  <2>6. QED
    BY <2>1, <2>2, <2>3, <2>4, <2>5 DEF ListenerStep
<1>6. QED
  BY <1>2, <1>3, <1>4, <1>5

\* Every step keeps the invariant.
LEMMA InvStep == TypeOK /\ IInv /\ [Next]_vars => IInv'
<1>1. IInv /\ UNCHANGED vars => IInv'
  BY DEF vars, IInv, Final, Faithful, Telling, Snapshot, EndsWithOutcome, Open, CrashNeedsLeaver
<1>2. QED
  BY <1>1, InvChange, InvSend, InvListener DEF Next

\* Both are invariants for any number of clients.
THEOREM InvHolds == Spec => []IInv
  BY TypeCorrect, InvInit, InvStep, PTL DEF Spec

\* A stream that the agent ended has shown how the deployment ended, whatever the
\* order of ticks, broadcasts and clients (deploy.go:281-296).
THEOREM StreamsEndWithOutcome == Spec => []EndsWithOutcome
<1>1. IInv => EndsWithOutcome
  BY DEF IInv
<1>2. QED
  BY <1>1, InvHolds, PTL

\* The agent panics only if a listener leaves between the copy of the list and the
\* send to it (progress.go:159-183).
THEOREM CrashesNeedLeavers == Spec => []CrashNeedsLeaver
<1>1. IInv => CrashNeedsLeaver
  BY DEF IInv
<1>2. QED
  BY <1>1, InvHolds, PTL

-----------------------------------------------------------------------------
(***************************************************************************)
(* NothingSkipped: a deployment announces five times at most (Bounded), so *)
(* a channel always has room; and the snapshot under way is the last of    *)
(* the history, wherever it has not arrived yet (Copied).                  *)
(***************************************************************************)
\* The announcements made so far, the one under way included.
Announced == IF run = "announcing" THEN Len(history) + 1 ELSE Len(history)

\* Every stage is announced once; "completed" twice.
Bounded ==
  /\ run = "published" => stage = ""
  /\ run = "repeating" => after = "repeating"
  /\ after \in {"repeating", "over"} => stage \in Terminal
  /\ stage \in {"", "preparing"} => Announced <= 0
  /\ stage = "downloading" => Announced <= 1
  /\ stage = "writing" => Announced <= 2
  /\ stage = "syncing" => Announced <= 3
  /\ stage \in Terminal /\ after # "over" => Announced <= 4
  /\ Announced <= 5

\* How much of the history has been sent to a listener.
SentTo(l) == IF l \in pending THEN Len(history) - 1 ELSE Len(history)

\* Who is yet to be sent the snapshot is yet to be sent the last of the history,
\* and nobody has received more than was sent.
Copied ==
  /\ run \notin {"sending", "crashed"} => pending = {}
  /\ pending # {} => Len(history) > 0 /\ frame = history[Len(history)]
  /\ \A l \in listeners : heard[l] <= SentTo(l)
  /\ \A l \in Listener : pc[l] = "away" => l \notin pending /\ queue[l] = <<>>

\* What Next preserves, given TypeOK and IInv.
SInv == Bounded /\ Copied /\ NothingSkipped

\* What is left of a part of a sequence after its first element.
LEMMA TailOfPart ==
  ASSUME NEW S, NEW h \in Seq(S), NEW i \in Nat, NEW n \in 0..Len(h),
         SubSeq(h, i + 1, n) # <<>>
  PROVE  i + 1 <= n /\ Tail(SubSeq(h, i + 1, n)) = SubSeq(h, (i + 1) + 1, n)
<1>1. i + 1 <= n
  BY SubSeqEmpty
<1>2. i + 1 \in 1..Len(h) /\ n \in (i + 1)..Len(h)
  BY <1>1
<1>3. QED
  BY <1>1, <1>2, HeadTailOfSubSeq

\* A part that lacks only the last element of the sequence.
LEMMA PartExtended ==
  ASSUME NEW S, NEW h \in Seq(S), NEW i \in Nat, i + 1 <= Len(h)
  PROVE  Append(SubSeq(h, i + 1, Len(h) - 1), h[Len(h)]) = SubSeq(h, i + 1, Len(h))
<1>1. i + 1 \in 1..Len(h) /\ Len(h) \in (i + 1)..Len(h)
  OBVIOUS
<1>2. SubSeq(h, i + 1, Len(h)) = SubSeq(h, i + 1, Len(h) - 1) \o <<h[Len(h)]>>
  BY <1>1, SubSeqRecursiveSecond
<1>3. h[Len(h)] \in S /\ \A k \in (i + 1)..(Len(h) - 1) : h[k] \in S
  BY <1>1
<1>4. i + 1 \in Int /\ Len(h) - 1 \in Int
  BY <1>1
<1>5. SubSeq(h, i + 1, Len(h) - 1) \in Seq(S)
  BY <1>3, <1>4, SubSeqProperties
<1>6. QED
  BY <1>2, <1>3, <1>5, AppendIsConcat

\* A part of a sequence does not see what is appended to it.
LEMMA PartOfAppend ==
  ASSUME NEW S, NEW h \in Seq(S), NEW e \in S, NEW i \in Nat
  PROVE  SubSeq(Append(h, e), i + 1, Len(h)) = SubSeq(h, i + 1, Len(h))
<1> DEFINE a == Append(h, e)
<1>1. /\ a \in Seq(S) /\ \A k \in 1..Len(h) : a[k] = h[k] /\ h[k] \in S
      /\ i + 1 \in Int /\ Len(h) \in Int
  BY AppendProperties
<1>2. \A k \in (i + 1)..Len(h) : a[k] \in S /\ h[k] \in S /\ a[k] = h[k]
  BY <1>1
<1> HIDE DEF a
<1>3. /\ SubSeq(a, i + 1, Len(h)) \in Seq(S)
      /\ Len(SubSeq(a, i + 1, Len(h))) = IF i + 1 <= Len(h) THEN Len(h) - (i + 1) + 1 ELSE 0
      /\ \A k \in 1..(Len(h) - (i + 1) + 1) : SubSeq(a, i + 1, Len(h))[k] = a[(i + 1) + k - 1]
  BY <1>1, <1>2, SubSeqProperties
<1>4. /\ SubSeq(h, i + 1, Len(h)) \in Seq(S)
      /\ Len(SubSeq(h, i + 1, Len(h))) = IF i + 1 <= Len(h) THEN Len(h) - (i + 1) + 1 ELSE 0
      /\ \A k \in 1..(Len(h) - (i + 1) + 1) : SubSeq(h, i + 1, Len(h))[k] = h[(i + 1) + k - 1]
  BY <1>1, <1>2, SubSeqProperties
<1>5. Len(SubSeq(a, i + 1, Len(h))) = Len(SubSeq(h, i + 1, Len(h)))
  BY <1>3, <1>4
<1>6. \A k \in 1..Len(SubSeq(a, i + 1, Len(h))) :
        SubSeq(a, i + 1, Len(h))[k] = SubSeq(h, i + 1, Len(h))[k]
  <2> SUFFICES ASSUME NEW k \in 1..Len(SubSeq(a, i + 1, Len(h)))
               PROVE  SubSeq(a, i + 1, Len(h))[k] = SubSeq(h, i + 1, Len(h))[k]
    OBVIOUS
  <2>1. k \in 1..(Len(h) - (i + 1) + 1) /\ (i + 1) + k - 1 \in (i + 1)..Len(h)
    BY <1>3, <1>1
  <2>2. QED
    BY <2>1, <1>2, <1>3, <1>4
<1>7. SubSeq(a, i + 1, Len(h)) = SubSeq(h, i + 1, Len(h))
  BY <1>3, <1>4, <1>5, <1>6, SeqEqual
<1>8. QED
  BY <1>7 DEF a

-----------------------------------------------------------------------------
\* The initial state has no history, and no listener.
LEMMA SentInit == Init => SInv
<1> SUFFICES ASSUME Init PROVE SInv
  OBVIOUS
<1>1. Announced = 0
  BY EmptySeq DEF Init, Announced
<1>2. Bounded
  <2>1. stage = "" /\ run = "published" /\ after = "running"
    BY DEF Init
  <2>2. Announced <= 0 /\ Announced <= 5
    BY <1>1
  <2>3. QED
    BY <2>1, <2>2 DEF Bounded, Terminal
<1>3. Copied /\ NothingSkipped
  BY DEF Init, Copied, NothingSkipped
<1>4. QED
  BY <1>2, <1>3 DEF SInv

\* Every stage is announced once, and the completed one once more.
LEMMA BoundedStep ==
  ASSUME TypeOK, IInv, Bounded, [Next]_vars
  PROVE  Bounded'
<1>1. Len(history) \in Nat /\ Announced \in Nat
  BY DEF TypeOK, Announced
<1>2. CASE Start
  <2>1. run = "published" /\ run' = "running" /\ UNCHANGED <<history, after>>
    BY <1>2 DEF Start
  <2>2. stage = "" /\ stage' = "preparing" /\ after \notin {"repeating", "over"}
    BY <1>2, <2>1 DEF Start, Bounded, Terminal
  <2>3. Announced' = Announced
    BY <2>1 DEF Announced
  <2>4. QED
    BY <1>1, <2>1, <2>2, <2>3 DEF Bounded, Terminal
<1>3. CASE SetStage
  <2>1. run = "running" /\ run' = "announcing" /\ history' = history /\ after' = "running"
    BY <1>3 DEF SetStage, Announce
  <2>2. Announced' = Announced + 1
    BY <2>1 DEF Announced
  <2>3. CASE stage = "preparing" /\ stage' = "downloading"
    BY <1>1, <2>1, <2>2, <2>3 DEF Bounded, Terminal
  <2>4. CASE stage = "downloading" /\ stage' = "writing"
    BY <1>1, <2>1, <2>2, <2>4 DEF Bounded, Terminal
  <2>5. CASE stage = "writing" /\ stage' = "syncing"
    BY <1>1, <2>1, <2>2, <2>5 DEF Bounded, Terminal
  <2>6. QED
    BY <1>3, <2>3, <2>4, <2>5 DEF SetStage, Announce
<1>4. CASE AddWritten \/ Return
  <2>1. /\ run \notin {"announcing", "published", "repeating"}
        /\ run' \notin {"announcing", "published", "repeating"}
        /\ UNCHANGED <<stage, after, history>>
    BY <1>4 DEF AddWritten, Return
  <2>2. Announced' = Announced
    BY <2>1 DEF Announced
  <2>3. QED
    BY <2>1, <2>2 DEF Bounded
<1>5. CASE Conclude
  <2>1. run = "returned" /\ run' = "announcing" /\ history' = history
    BY <1>5 DEF Conclude, Announce
  <2>2. stage \notin Terminal /\ stage \in Stage
    BY <2>1 DEF IInv, Final, TypeOK
  <2>3. Announced <= 3
    <3>1. CASE stage \in {"", "preparing"}
      <4>1. Announced <= 0
        BY <3>1 DEF Bounded
      <4>2. QED
        BY <1>1, <4>1
    <3>2. CASE stage \in InRun
      <4>1. Announced <= 1 \/ Announced <= 2 \/ Announced <= 3
        BY <3>2 DEF Bounded, InRun
      <4>2. QED
        BY <1>1, <4>1
    <3>3. QED
      BY <2>2, <3>1, <3>2 DEF Stage
  <2>4. stage' \in Terminal /\ after' \in {"repeating", "over"}
    BY <1>5 DEF Conclude, Announce, Terminal
  <2>5. Announced' = Announced + 1
    BY <2>1 DEF Announced
  <2>6. Announced' <= 4 /\ Announced' <= 5
    BY <1>1, <2>3, <2>5
  <2>7. QED
    BY <2>1, <2>4, <2>6 DEF Bounded, Terminal
<1>6. CASE Repeat
  <2>1. run = "repeating" /\ after = "repeating" /\ stage \in Terminal
    BY <1>6 DEF Repeat, Bounded
  <2>2. run' = "announcing" /\ history' = history /\ stage' = stage /\ after' = "over"
    BY <1>6 DEF Repeat
  <2>3. Announced <= 4
    BY <2>1 DEF Bounded
  <2>4. Announced' = Announced + 1
    BY <2>1, <2>2 DEF Announced
  <2>5. Announced' <= 5
    BY <1>1, <2>3, <2>4
  <2>6. QED
    BY <2>1, <2>2, <2>5 DEF Bounded, Terminal
<1>7. CASE CopyListeners
  <2>1. /\ run = "announcing" /\ run' = "sending" /\ stage' = stage /\ after' = after
        /\ Len(history') = Len(history) + 1
    BY <1>7, SnapshotIsFrame DEF CopyListeners, TypeOK
  <2>2. Announced' = Announced
    BY <2>1 DEF Announced
  <2>3. QED
    BY <2>1, <2>2 DEF Bounded
<1>8. CASE AllSent
  <2>1. run' = after /\ after \in {"running", "repeating", "over"}
    BY <1>8 DEF AllSent, TypeOK
  <2>2. run = "sending" /\ UNCHANGED <<stage, after, history>>
    BY <1>8 DEF AllSent
  <2>3. Announced' = Announced
    BY <2>1, <2>2 DEF Announced
  <2>4. QED
    BY <2>1, <2>2, <2>3 DEF Bounded
<1>9. CASE \E l \in Listener : Send(l)
  <2>1. /\ run = "sending" /\ run' \in {"sending", "crashed"}
        /\ UNCHANGED <<stage, after, history>>
    BY <1>9 DEF Send
  <2>2. Announced' = Announced
    BY <2>1 DEF Announced
  <2>3. QED
    BY <2>1, <2>2 DEF Bounded
<1>10. CASE UNCHANGED <<stage, run, after, history>>
  BY <1>10 DEF Bounded, Announced
<1>11. ASSUME NEW l \in Listener, ListenerStep(l)
       PROVE  UNCHANGED <<stage, run, after, history>>
  BY <1>11 DEF ListenerStep, Subscribe, Receive, Leave, Unsubscribe, FirstFrame, Tick
<1>12. QED
  BY <1>2, <1>3, <1>4, <1>5, <1>6, <1>7, <1>8, <1>9, <1>10, <1>11 DEF Next, Broadcaster, vars

\* The snapshot on its way stays the last of the history, and no listener has
\* received more than it was sent.
LEMMA CopiedStep ==
  ASSUME TypeOK, IInv, SInv, [Next]_vars
  PROVE  Copied' /\ NothingSkipped'
<1> USE DEF SInv
<1>1. Len(history) \in Nat /\ history \in Seq(Frame)
  BY DEF TypeOK
<1>2. CASE /\ UNCHANGED <<listeners, queue, frame, pending, pc, history, heard>>
           /\ run = "sending" => pending = {} \/ run' \in {"sending", "crashed"}
           /\ run = "crashed" => run' = "crashed"
  <2>1. Copied'
    BY <1>2 DEF Copied, SentTo
  <2>2. NothingSkipped'
    BY <1>2 DEF NothingSkipped
  <2>3. QED
    BY <2>1, <2>2
<1>3. CASE CopyListeners
  <2>1. /\ run = "announcing" /\ pending = {} /\ pending' = listeners /\ frame' = Snapshot
        /\ run' = "sending" /\ history' = Append(history, Snapshot)
        /\ UNCHANGED <<listeners, queue, pc, heard>>
    BY <1>3 DEF CopyListeners, Copied
  <2>2. Len(history') = Len(history) + 1 /\ history'[Len(history')] = Snapshot
    BY <2>1, <1>1, SnapshotIsFrame
  <2>3. Copied'
    BY <1>1, <2>1, <2>2 DEF Copied, SentTo, Open, IInv
  <2>4. ASSUME NEW l \in listeners
        PROVE  queue[l] = SubSeq(history', heard[l] + 1, Len(history') - 1)
    <3>1. queue[l] = SubSeq(history, heard[l] + 1, Len(history)) /\ heard[l] \in Nat
      BY <2>1 DEF NothingSkipped, TypeOK
    <3>2. Len(history') - 1 = Len(history)
      BY <2>2, <1>1
    <3>3. QED
      BY <3>1, <3>2, <2>1, <1>1, SnapshotIsFrame, PartOfAppend
  <2>5. NothingSkipped'
    BY <2>1, <2>4 DEF NothingSkipped
  <2>6. QED
    BY <2>3, <2>5
<1>4. ASSUME NEW l \in Listener, Send(l)
      PROVE  Copied' /\ NothingSkipped'
  <2>1. /\ run = "sending" /\ l \in pending /\ pending' = pending \ {l}
        /\ run' \in {"sending", "crashed"}
        /\ UNCHANGED <<listeners, frame, pc, history, heard>>
    BY <1>4 DEF Send
  <2>2. Len(history) > 0 /\ frame = history[Len(history)] /\ frame \in Frame
    BY <2>1 DEF Copied, TypeOK
  <2>3. \A m \in Listener : m # l => queue'[m] = queue[m]
    BY <1>4 DEF Send, TypeOK
  <2>4. pc[l] # "away"
    BY <2>1 DEF Copied
  <2>5. Copied'
    BY <1>1, <2>1, <2>2, <2>3, <2>4 DEF Copied, SentTo, TypeOK
  <2>6. ASSUME l \in listeners
        PROVE  queue'[l] = SubSeq(history, heard[l] + 1, Len(history))
    <3>1. /\ queue[l] = SubSeq(history, heard[l] + 1, Len(history) - 1)
          /\ heard[l] \in Nat /\ heard[l] <= Len(history) - 1
      BY <2>1, <2>6 DEF NothingSkipped, Copied, SentTo, TypeOK
    <3>2. Len(history) <= 5
      BY <1>1, <2>1 DEF Bounded, Announced
    <3>3. Len(queue[l]) < Capacity
      <4>1. heard[l] + 1 \in Int /\ Len(history) - 1 \in Int
        BY <3>1, <1>1
      <4>2. \A k \in (heard[l] + 1)..(Len(history) - 1) : history[k] \in Frame
        BY <3>1, <1>1
      <4>3. Len(SubSeq(history, heard[l] + 1, Len(history) - 1)) =
              IF heard[l] + 1 <= Len(history) - 1
              THEN (Len(history) - 1) - (heard[l] + 1) + 1 ELSE 0
        BY <4>1, <4>2, SubSeqProperties
      <4>4. Len(queue[l]) <= 4
        BY <4>3, <3>1, <3>2, <1>1
      <4>5. QED
        BY <4>4, <3>1, <1>1 DEF Capacity, TypeOK
    <3>4. l \notin closed
      BY <2>6 DEF IInv, Open
    <3>5. queue'[l] = Append(queue[l], frame)
      BY <1>4, <3>3, <3>4 DEF Send, TypeOK
    <3>6. heard[l] + 1 <= Len(history)
      BY <3>1, <1>1
    <3>7. QED
      BY <3>1, <3>5, <3>6, <2>2, <1>1, PartExtended
  <2>7. NothingSkipped'
    BY <2>1, <2>3, <2>6 DEF NothingSkipped, TypeOK
  <2>8. QED
    BY <2>5, <2>7
<1>5. ASSUME NEW l \in Listener, Subscribe(l)
      PROVE  Copied' /\ NothingSkipped'
  <2>1. /\ l \notin pending /\ queue[l] = <<>>
        /\ listeners' = listeners \cup {l} /\ heard' = [heard EXCEPT ![l] = Len(history)]
        /\ \A m \in Listener : m # l => pc'[m] = pc[m]
        /\ pc'[l] # "away"
        /\ UNCHANGED <<run, queue, frame, pending, history>>
    BY <1>5 DEF Subscribe, Copied, TypeOK
  <2>2. /\ heard'[l] = Len(history)
        /\ \A m \in Listener : m # l => heard'[m] = heard[m]
    BY <2>1 DEF TypeOK
  <2>3. SubSeq(history, Len(history) + 1, Len(history)) = <<>>
    BY <1>1, SubSeqEmpty
  <2>4. \A m \in listeners' : heard'[m] <= SentTo(m)
    BY <1>1, <2>1, <2>2 DEF Copied, SentTo, TypeOK
  <2>5. Copied'
    BY <2>1, <2>4 DEF Copied, SentTo
  <2>6. NothingSkipped'
    BY <2>1, <2>2, <2>3 DEF NothingSkipped, TypeOK
  <2>7. QED
    BY <2>5, <2>6
<1>6. ASSUME NEW l \in Listener, Receive(l)
      PROVE  Copied' /\ NothingSkipped'
  <2>1. /\ queue[l] # <<>> /\ pc[l] = "listening" /\ pc'[l] # "away"
        /\ queue' = [queue EXCEPT ![l] = Tail(queue[l])]
        /\ heard' = [heard EXCEPT ![l] = heard[l] + 1]
        /\ \A m \in Listener : m # l => pc'[m] = pc[m]
        /\ UNCHANGED <<run, listeners, frame, pending, history>>
    BY <1>6 DEF Receive, Shown, TypeOK
  <2>2. /\ queue'[l] = Tail(queue[l]) /\ heard'[l] = heard[l] + 1
        /\ \A m \in Listener : m # l => queue'[m] = queue[m] /\ heard'[m] = heard[m]
    BY <2>1 DEF TypeOK
  <2>3. ASSUME l \in listeners
        PROVE  /\ heard[l] + 1 <= SentTo(l)
               /\ queue'[l] = SubSeq(history, heard'[l] + 1, SentTo(l))
    <3>1. queue[l] = SubSeq(history, heard[l] + 1, SentTo(l)) /\ heard[l] \in Nat
      BY <2>3 DEF NothingSkipped, SentTo, TypeOK
    <3>2. SentTo(l) \in 0..Len(history)
      BY <1>1 DEF SentTo, Copied
    <3>3. /\ heard[l] + 1 <= SentTo(l)
          /\ Tail(queue[l]) = SubSeq(history, (heard[l] + 1) + 1, SentTo(l))
      <4> DEFINE n == SentTo(l)
      <4> HIDE DEF n
      <4>1. n \in 0..Len(history) /\ queue[l] = SubSeq(history, heard[l] + 1, n)
        BY <3>1, <3>2 DEF n
      <4>2. /\ heard[l] + 1 <= n
            /\ Tail(queue[l]) = SubSeq(history, (heard[l] + 1) + 1, n)
        BY <4>1, <3>1, <2>1, <1>1, TailOfPart
      <4>3. QED
        BY <4>2 DEF n
    <3>4. QED
      BY <3>3, <2>2
  <2>4. Copied'
    BY <1>1, <2>1, <2>2, <2>3 DEF Copied, SentTo, TypeOK
  <2>5. NothingSkipped'
    BY <2>1, <2>2, <2>3 DEF NothingSkipped, SentTo, TypeOK
  <2>6. QED
    BY <2>4, <2>5
<1>7. ASSUME NEW l \in Listener, Unsubscribe(l)
      PROVE  Copied' /\ NothingSkipped'
  <2>1. /\ pc[l] # "away" /\ pc'[l] # "away" /\ listeners' = listeners \ {l}
        /\ \A m \in Listener :
             m # l => pc'[m] = pc[m] /\ queue'[m] = queue[m] /\ heard'[m] = heard[m]
        /\ UNCHANGED <<run, frame, pending, history>>
    BY <1>7 DEF Unsubscribe, Remove, TypeOK
  <2>2. Copied'
    BY <1>1, <2>1 DEF Copied, SentTo, TypeOK
  <2>3. NothingSkipped'
    BY <2>1 DEF NothingSkipped, TypeOK
  <2>4. QED
    BY <2>2, <2>3
<1>8. ASSUME NEW l \in Listener, Leave(l) \/ FirstFrame(l) \/ Tick(l)
      PROVE  Copied' /\ NothingSkipped'
  <2>1. /\ \A m \in Listener : pc'[m] = "away" => pc[m] = "away"
        /\ UNCHANGED <<run, listeners, queue, frame, pending, history, heard>>
    BY <1>8 DEF Leave, FirstFrame, Tick, Shown, TypeOK
  <2>2. Copied'
    BY <2>1 DEF Copied, SentTo
  <2>3. NothingSkipped'
    BY <2>1 DEF NothingSkipped
  <2>4. QED
    BY <2>2, <2>3
<1>9. CASE Start \/ SetStage \/ AddWritten \/ Return \/ Conclude \/ Repeat
  BY <1>2, <1>9 DEF Start, SetStage, AddWritten, Return, Conclude, Announce, Repeat
<1>10. CASE AllSent
  BY <1>2, <1>10 DEF AllSent
<1>11. CASE UNCHANGED vars
  BY <1>2, <1>11 DEF vars
<1>12. QED
  BY <1>3, <1>4, <1>5, <1>6, <1>7, <1>8, <1>9, <1>10, <1>11
     DEF Next, Broadcaster, ListenerStep

\* Whatever the clients do, what is broadcast while one is subscribed reaches its
\* channel without a gap: a channel of sixteen is never full (progress.go:152,
\* 179-184).
THEOREM NothingIsSkipped == Spec => []NothingSkipped
<1>1. TypeOK /\ IInv /\ SInv /\ [Next]_vars => SInv'
  BY BoundedStep, CopiedStep DEF SInv
<1>2. SInv => NothingSkipped
  BY DEF SInv
<1>3. QED
  BY TypeCorrect, InvHolds, SentInit, <1>1, <1>2, PTL DEF Spec

=============================================================================
