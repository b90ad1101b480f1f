--------------------------- MODULE PipelineProofs ---------------------------
(***************************************************************************)
(* Proofs about Pipeline, for an image and pipes of any length.            *)
(*                                                                         *)
(* That Run implements VerifiedWrite comes down to its last step: an "ok"  *)
(* that a checksum vouches for means that the target holds the published   *)
(* image.  What was written is what the raw digest has been fed (Written), *)
(* so a raw checksum settles it.  The compressed digest is fed in another  *)
(* place, and for external formats by another goroutine, two pipes and a   *)
(* process away: Conveyed follows the units from there to here.            *)
(***************************************************************************)
EXTENDS Pipeline, SequenceTheorems, TLAPS

\* There is an outcome once the copy is over, and not before; the child is over
\* when its output is, and before Run returns.
Decided ==
  /\ run \in {"requesting", "opening", "copying", "reading", "writing", "comparing"} <=> result = "none"
  /\ run = "comparing" /\ External => child \in {"exited", "killed"} /\ stdout = <<>>
  /\ run = "returned" => child # "running"

\* What has been hashed is what has been written, but for the block in hand.
Written ==
  /\ run \in {"requesting", "opening", "copying", "reading"} => target = rawHash
  /\ run = "writing" => rawHash = Append(target, block)

\* Nothing has been read before there is an answer; without a child both digests
\* are fed by the same read.
Direct ==
  /\ run = "requesting" =>
       /\ compressedHash = <<>> /\ rawHash = <<>>
       /\ stdin = <<>> /\ decoded = <<>> /\ stdout = <<>>
       /\ feeder = "none" /\ child = "none"
  /\ ~External =>
       /\ feeder = "none" /\ child = "none"
       /\ result # "error" => compressedHash = rawHash

\* A unit that is not the published one has come in.
Damaged == \E i \in 1..Len(compressedHash) : compressedHash[i] = Wrong

\* A child that exits of itself while its output is read has put out everything,
\* and nothing more comes in; or it has met a unit that is wrong.
Conveyed ==
  External /\ child = "exited" /\ ~StdoutClosed =>
    \/ feeder = "done" /\ compressedHash = rawHash \o stdout
    \/ Damaged

\* A success has the raw digest that every checksum in force implies.
Justified ==
  result = "ok" =>
    /\ External => child \in {"exited", "killed"}
    /\ Vouched => rawHash = Published

\* What Next preserves, given TypeOK.
IInv ==
  /\ Decided /\ Written /\ HashedIsWritten /\ Direct
  /\ NothingLostInTransit /\ Conveyed /\ Justified

-----------------------------------------------------------------------------
\* The definitions that every step needs.
USE DEF runVars, childVars, feedVars, FinishWith

\* Zero is a block: the wrong one.
LEMMA BlockFacts == Wrong \in Block /\ \A i \in 1..N : i \in Block
  BY PipelineAssumption DEF Wrong, Block

\* A server sends units.
LEMMA NextUnitsAreBlocks == TypeOK => NextUnits \subseteq Block
<1> SUFFICES ASSUME TypeOK PROVE NextUnits \subseteq Block
  OBVIOUS
<1>1. Len(compressedHash) \in Nat /\ N \in Nat
  BY PipelineAssumption DEF TypeOK
<1>2. Len(compressedHash) < N => Len(compressedHash) + 1 \in 1..N
  BY <1>1
<1>3. QED
  BY <1>2, BlockFacts DEF NextUnits

\* The initial state is typed.
LEMMA TypeInit == Init => TypeOK
<1> SUFFICES ASSUME Init PROVE TypeOK
  OBVIOUS
<1>1. <<>> \in Seq(Block)
  BY EmptySeq
<1>2. image \in Entry
  BY ImagesAssumption DEF Init
<1>3. QED
  BY <1>1, <1>2, BlockFacts DEF Init, TypeOK

\* Every step keeps the types.
LEMMA TypeStep == TypeOK /\ [Next]_vars => TypeOK'
<1> SUFFICES ASSUME TypeOK, [Next]_vars PROVE TypeOK'
  OBVIOUS
<1> USE DEF TypeOK
<1>1. CASE CancelContext \/ ChildKilled
  BY <1>1, EmptySeq DEF CancelContext, ChildKilled
<1>2. CASE RequestFails \/ RequestAnswered \/ OpenTarget \/ CheckContext \/ EndDirect \/ ReadFails
  BY <1>2 DEF RequestFails, RequestAnswered, OpenTarget, CheckContext, EndDirect, ReadFails
<1>3. CASE CopyDirect
  <2>1. PICK u \in NextUnits :
          /\ compressedHash' = Append(compressedHash, u)
          /\ TakeBlock(u) \/ (UNCHANGED <<block, rawHash, target>> /\ result' = "error" /\ run' = "closing")
    BY <1>3 DEF CopyDirect
  <2>2. u \in Block
    BY NextUnitsAreBlocks
  <2>3. /\ UNCHANGED <<image, cancelled, child, decoded, stdout, feeder, unit, stdin>>
    BY <1>3 DEF CopyDirect
  <2>4. CASE TakeBlock(u)
    BY <2>1, <2>2, <2>3, <2>4 DEF TakeBlock
  <2>5. CASE UNCHANGED <<block, rawHash, target>> /\ result' = "error" /\ run' = "closing"
    BY <2>1, <2>2, <2>3, <2>5
  <2>6. QED
    BY <2>1, <2>4, <2>5
<1>4. CASE CopyFromChild
  <2>1. Head(stdout) \in Block /\ Tail(stdout) \in Seq(Block)
    BY <1>4, HeadTailProperties DEF CopyFromChild
  <2>2. QED
    BY <1>4, <2>1 DEF CopyFromChild, TakeBlock
<1>5. CASE EndFromChild \/ Compare \/ CloseTarget \/ Return
  BY <1>5 DEF EndFromChild, Compare, CloseTarget, Return
<1>6. CASE WriteTarget \/ WriteFails
  <2>1. Append(target, block) \in Seq(Block) /\ Append(target, Wrong) \in Seq(Block)
    BY BlockFacts, AppendProperties
  <2>2. QED
    BY <1>6, <2>1, BlockFacts DEF WriteTarget, WriteFails
<1>7. CASE FeederReads
  <2>1. PICK u \in NextUnits : compressedHash' = Append(compressedHash, u) /\ unit' = u
    BY <1>7 DEF FeederReads
  <2>2. u \in Block
    BY NextUnitsAreBlocks
  <2>3. QED
    BY <1>7, <2>1, <2>2 DEF FeederReads
<1>8. CASE FeederStops \/ FeederFeeds
  <2>1. Append(stdin, unit) \in Seq(Block)
    BY AppendProperties
  <2>2. QED
    BY <1>8, <2>1, BlockFacts DEF FeederStops, FeederFeeds
<1>9. CASE ChildDecodes
  <2>1. Head(stdin) \in Block /\ Tail(stdin) \in Seq(Block)
    BY <1>9, HeadTailProperties DEF ChildDecodes
  <2>2. <<Head(stdin)>> \in Seq(Block)
    BY <2>1
  <2>3. QED
    BY <1>9, <2>1, <2>2 DEF ChildDecodes
<1>10. CASE ChildWrites
  <2>1. stdout \o decoded \in Seq(Block) /\ <<>> \in Seq(Block)
    BY ConcatProperties, EmptySeq
  <2>2. QED
    BY <1>10, <2>1 DEF ChildWrites
<1>11. CASE ChildExits
  BY <1>11 DEF ChildExits
<1>12. CASE UNCHANGED vars
  BY <1>12 DEF vars
<1>13. QED
  BY <1>1, <1>2, <1>3, <1>4, <1>5, <1>6, <1>7, <1>8, <1>9, <1>10, <1>11, <1>12
     DEF Next, AwaitServer, RunStep, ChildStep

\* TypeOK holds for any image and any pipe.
THEOREM TypeCorrect == Spec => []TypeOK
  BY TypeInit, TypeStep, PTL DEF Spec

-----------------------------------------------------------------------------
\* The head of one sequence becomes the end of the one before it.
LEMMA HeadMoves ==
  ASSUME NEW S, NEW p \in Seq(S), NEW t \in Seq(S), t # <<>>
  PROVE  Append(p, Head(t)) \o Tail(t) = p \o t /\ (p \o <<Head(t)>>) \o Tail(t) = p \o t
<1>1. Head(t) \in S /\ Tail(t) \in Seq(S) /\ <<Head(t)>> \in Seq(S)
  BY HeadTailProperties
<1>2. Append(p, Head(t)) = p \o <<Head(t)>>
  BY <1>1, AppendIsConcat
<1>3. <<Head(t)>> \o Tail(t) = t
  BY <1>1, HeadTailProperties
<1>4. (p \o <<Head(t)>>) \o Tail(t) = p \o (<<Head(t)>> \o Tail(t))
  BY <1>1, ConcatAssociative
<1>5. QED
  BY <1>2, <1>3, <1>4

\* An element at the end of the last of two sequences is at the end of both.
LEMMA AppendToLast ==
  ASSUME NEW S, NEW p \in Seq(S), NEW t \in Seq(S), NEW u \in S
  PROVE  p \o Append(t, u) = Append(p \o t, u) /\ (p \o t) \o <<u>> = Append(p \o t, u)
<1>1. <<u>> \in Seq(S) /\ p \o t \in Seq(S)
  BY ConcatProperties
<1>2. Append(t, u) = t \o <<u>> /\ Append(p \o t, u) = (p \o t) \o <<u>>
  BY <1>1, AppendIsConcat
<1>3. (p \o t) \o <<u>> = p \o (t \o <<u>>)
  BY <1>1, ConcatAssociative
<1>4. QED
  BY <1>2, <1>3

\* The first element of the last of two sequences, followed by a third, is in all.
LEMMA HeadIsInside ==
  ASSUME NEW S, NEW p \in Seq(S), NEW t \in Seq(S), NEW v \in Seq(S), t # <<>>
  PROVE  \E i \in 1..Len((p \o t) \o v) : ((p \o t) \o v)[i] = Head(t)
<1>1. Len(p) \in Nat /\ Len(t) \in Nat \ {0} /\ Len(v) \in Nat
  BY LenProperties, EmptySeq
<1>2. /\ p \o t \in Seq(S) /\ Len(p \o t) = Len(p) + Len(t)
      /\ (p \o t)[Len(p) + 1] = t[1]
  <2>1. Len(p) + 1 \in 1..(Len(p) + Len(t)) /\ ~(Len(p) + 1 <= Len(p)) /\ (Len(p) + 1) - Len(p) = 1
    BY <1>1
  <2>2. QED
    BY <2>1, ConcatProperties
<1>3. Len((p \o t) \o v) = (Len(p) + Len(t)) + Len(v) /\ ((p \o t) \o v)[Len(p) + 1] = (p \o t)[Len(p) + 1]
  <2>1. Len(p) + 1 \in 1..(Len(p \o t) + Len(v)) /\ Len(p) + 1 <= Len(p \o t)
    BY <1>1, <1>2
  <2>2. QED
    BY <1>2, <2>1, ConcatProperties
<1>4. Head(t) = t[1] /\ Len(p) + 1 \in 1..Len((p \o t) \o v)
  BY <1>1, <1>3
<1>5. QED
  BY <1>2, <1>3, <1>4

\* The published file has no wrong unit.
LEMMA PublishedIsSound == TypeOK /\ Damaged => compressedHash # Published
<1> SUFFICES ASSUME TypeOK, Damaged, compressedHash = Published PROVE FALSE
  OBVIOUS
<1>1. PICK i \in 1..Len(compressedHash) : compressedHash[i] = 0
  BY DEF Damaged, Wrong
<1>2. DOMAIN compressedHash = 1..Len(compressedHash)
  BY LenProperties DEF TypeOK
<1>3. DOMAIN Published = 1..N
  BY DEF Published
<1>4. i \in 1..N
  BY <1>2, <1>3
<1>5. Published[i] = i
  BY <1>4 DEF Published
<1>6. QED
  BY <1>1, <1>4, <1>5, PipelineAssumption

\* What has been damaged stays so.
LEMMA DamageStays ==
  ASSUME TypeOK, Damaged,
         compressedHash' = compressedHash
           \/ \E u \in Block : compressedHash' = Append(compressedHash, u)
  PROVE  Damaged'
<1>1. CASE compressedHash' = compressedHash
  BY <1>1 DEF Damaged
<1>2. CASE \E u \in Block : compressedHash' = Append(compressedHash, u)
  <2>1. PICK u \in Block : compressedHash' = Append(compressedHash, u)
    BY <1>2
  <2>2. PICK i \in 1..Len(compressedHash) : compressedHash[i] = Wrong
    BY DEF Damaged
  <2>3. /\ Len(compressedHash') = Len(compressedHash) + 1 /\ Len(compressedHash) \in Nat
        /\ \A k \in 1..Len(compressedHash) : compressedHash'[k] = compressedHash[k]
    BY <2>1, AppendProperties, LenProperties DEF TypeOK
  <2>4. i \in 1..Len(compressedHash') /\ compressedHash'[i] = Wrong
    BY <2>2, <2>3
  <2>5. QED
    BY <2>4 DEF Damaged
<1>3. QED
  BY <1>1, <1>2

-----------------------------------------------------------------------------
\* The initial state satisfies the invariant.
LEMMA InvInit == Init => IInv
  BY DEF Init, IInv, Decided, Written, HashedIsWritten, Direct, NothingLostInTransit,
         Conveyed, Justified

\* Nothing moves between the two digests.
LEMMA Still ==
  ASSUME IInv, UNCHANGED <<image, compressedHash, rawHash, childVars, feedVars>>,
         StdoutClosed => StdoutClosed'
  PROVE  NothingLostInTransit' /\ Conveyed'
  BY DEF IInv, NothingLostInTransit, Conveyed, External, Damaged

\* Neither the feeder nor the child has a part in what Run does by itself.
LEMMA Apart ==
  ASSUME IInv, External, run # "requesting", UNCHANGED <<image, runVars>>,
         (UNCHANGED <<child, stdout>>) \/ child = "running"
  PROVE  Decided' /\ Written' /\ HashedIsWritten' /\ Direct' /\ Justified'
<1> USE DEF IInv, External
<1>1. External' /\ run' # "requesting"
  OBVIOUS
<1>2. Decided' /\ Written' /\ HashedIsWritten' /\ Direct'
  BY <1>1 DEF Decided, Written, HashedIsWritten, Direct
<1>3. Justified'
  BY <1>1 DEF Justified, Vouched
<1>4. QED
  BY <1>2, <1>3

\* The beginning of Run.
LEMMA InvBegin ==
  ASSUME TypeOK, IInv, CancelContext \/ RequestFails \/ RequestAnswered \/ OpenTarget \/ CheckContext
  PROVE  IInv'
<1> USE DEF IInv
<1>1. CASE CancelContext
  <2>1. NothingLostInTransit' /\ Conveyed'
    BY <1>1, Still DEF CancelContext, StdoutClosed
  <2>2. QED
    BY <1>1, <2>1 DEF CancelContext, Decided, Written, HashedIsWritten, Direct, Justified, Vouched, External
<1>2. CASE RequestFails \/ OpenTarget \/ CheckContext
  <2>1. NothingLostInTransit' /\ Conveyed'
    BY <1>2, Still DEF RequestFails, OpenTarget, CheckContext, StdoutClosed
  <2>2. /\ UNCHANGED <<image, compressedHash, rawHash, target, child, stdout, feeder, unit, stdin, decoded>>
        /\ run \in {"requesting", "opening", "copying"} /\ result = "none"
        /\ \/ run' \in {"copying", "reading"} /\ result' = "none"
           \/ run' \in {"returned", "waiting", "closing"} /\ result' = "error"
        /\ run' = "returned" => child # "running"
    BY <1>2 DEF RequestFails, OpenTarget, CheckContext, Decided, Direct
  <2>3. Decided' /\ Direct'
    <3>1. Decided'
      BY <2>2 DEF Decided, External
    <3>2. run' # "requesting" /\ External' = External
      BY <2>2 DEF External
    <3>3. Direct'
      BY <2>2, <3>2 DEF Direct
    <3>4. QED
      BY <3>1, <3>3
  <2>4. Written' /\ HashedIsWritten' /\ Justified'
    BY <2>2 DEF Written, HashedIsWritten, Justified
  <2>5. QED
    BY <2>1, <2>3, <2>4
<1>3. CASE RequestAnswered
  <2>1. /\ run = "requesting" /\ run' = "opening" /\ result = "none" /\ result' = "none"
        /\ UNCHANGED <<image, compressedHash, rawHash, target, stdout, decoded, stdin>>
        /\ External => child' = "running" /\ feeder' = "reading"
        /\ ~External => child' = "none" /\ feeder' = "none"
    BY <1>3 DEF RequestAnswered, Decided, Direct
  <2>2. compressedHash = <<>> /\ rawHash = <<>> /\ stdin = <<>> /\ decoded = <<>> /\ stdout = <<>>
    BY <2>1 DEF Direct
  <2>3. Decided' /\ Written' /\ HashedIsWritten' /\ Direct' /\ Conveyed' /\ Justified'
    BY <2>1 DEF Decided, Written, HashedIsWritten, Direct, Conveyed, Justified, External
  <2>4. <<>> \o <<>> = <<>>
    BY EmptySeq, ConcatEmptySeq
  <2>5. NothingLostInTransit'
    BY <2>1, <2>2, <2>4 DEF NothingLostInTransit, External
  <2>6. QED
    BY <2>3, <2>5
<1>4. QED
  BY <1>1, <1>2, <1>3

\* Reading.
LEMMA InvRead ==
  ASSUME TypeOK, IInv, CopyDirect \/ EndDirect \/ ReadFails \/ CopyFromChild \/ EndFromChild
  PROVE  IInv'
<1> USE DEF IInv
<1>1. CASE CopyDirect
  <2>1. PICK u \in NextUnits :
          /\ compressedHash' = Append(compressedHash, u)
          /\ \/ block' = u /\ rawHash' = Append(rawHash, u) /\ run' = "writing"
                /\ UNCHANGED <<target, result>>
             \/ result' = "error" /\ run' = "closing"
    BY <1>1 DEF CopyDirect, TakeBlock
  <2>2. /\ run = "reading" /\ ~External /\ ~External' /\ result = "none"
        /\ UNCHANGED <<child, feeder>>
    BY <1>1 DEF CopyDirect, External, Decided
  <2>3. Decided' /\ Written' /\ HashedIsWritten' /\ Direct'
    BY <2>1, <2>2 DEF Decided, Written, HashedIsWritten, Direct
  <2>4. NothingLostInTransit' /\ Conveyed' /\ Justified'
    BY <2>1, <2>2 DEF NothingLostInTransit, Conveyed, Justified
  <2>5. QED
    BY <2>3, <2>4
<1>2. CASE EndDirect \/ ReadFails \/ EndFromChild
  <2>1. NothingLostInTransit' /\ Conveyed'
    BY <1>2, Still DEF EndDirect, ReadFails, EndFromChild, StdoutClosed
  <2>2. /\ UNCHANGED <<image, compressedHash, rawHash, target, child, stdout, feeder>>
        /\ run = "reading" /\ result = "none"
        /\ \/ /\ run' = "comparing" /\ result' = "none"
              /\ External => child \in {"exited", "killed"} /\ stdout = <<>>
           \/ run' = "closing" /\ result' = "error"
    BY <1>2 DEF EndDirect, ReadFails, EndFromChild, Decided
  <2>3. Decided' /\ Direct'
    <3>1. Decided'
      BY <2>2 DEF Decided, External
    <3>2. run' # "requesting" /\ External' = External
      BY <2>2 DEF External
    <3>3. Direct'
      BY <2>2, <3>2 DEF Direct
    <3>4. QED
      BY <3>1, <3>3
  <2>4. Written' /\ HashedIsWritten'
    BY <2>2 DEF Written, HashedIsWritten
  <2>5. Justified'
    BY <2>2 DEF Justified
  <2>6. QED
    BY <2>1, <2>3, <2>4, <2>5
<1>3. CASE CopyFromChild
  <2>1. /\ run = "reading" /\ External /\ External' /\ result = "none" /\ stdout # <<>>
        /\ block' = Head(stdout) /\ rawHash' = Append(rawHash, Head(stdout)) /\ run' = "writing"
        /\ stdout' = Tail(stdout)
        /\ UNCHANGED <<image, compressedHash, target, result, child, decoded, feeder, unit, stdin>>
    BY <1>3 DEF CopyFromChild, TakeBlock, External, Decided
  <2>2. Decided' /\ Written' /\ HashedIsWritten' /\ Direct' /\ Justified'
    BY <2>1 DEF Decided, Written, HashedIsWritten, Direct, Justified
  <2>3. rawHash' \o stdout' = rawHash \o stdout
    BY <2>1, HeadMoves DEF TypeOK
  <2>4. NothingLostInTransit'
    BY <2>1, <2>3 DEF NothingLostInTransit, StdoutClosed
  <2>5. Conveyed'
    BY <2>1, <2>3 DEF Conveyed, StdoutClosed, Damaged
  <2>6. QED
    BY <2>2, <2>4, <2>5
<1>4. QED
  BY <1>1, <1>2, <1>3

\* Writing and the way out.
LEMMA InvWrite ==
  ASSUME TypeOK, IInv, WriteTarget \/ WriteFails \/ Compare \/ CloseTarget \/ Return
  PROVE  IInv'
<1> USE DEF IInv
<1>1. NothingLostInTransit' /\ Conveyed'
  BY Still DEF WriteTarget, WriteFails, Compare, CloseTarget, Return, StdoutClosed
<1>2. CASE WriteTarget \/ WriteFails
  <2>1. /\ run = "writing" /\ result = "none"
        /\ UNCHANGED <<image, compressedHash, rawHash, child, stdout, feeder>>
        /\ \/ run' = "copying" /\ result' = "none" /\ target' = Append(target, block)
           \/ run' = "closing" /\ result' = "error"
    BY <1>2 DEF WriteTarget, WriteFails, Decided
  <2>2. Decided' /\ Direct' /\ Justified'
    BY <2>1 DEF Decided, Direct, Justified, External
  <2>3. Written' /\ HashedIsWritten'
    BY <2>1 DEF Written, HashedIsWritten
  <2>4. QED
    BY <1>1, <2>2, <2>3
<1>3. CASE Compare
  <2>1. /\ run = "comparing" /\ run' = "closing" /\ result = "none" /\ result' \in {"ok", "error"}
        /\ UNCHANGED <<image, compressedHash, rawHash, target, child, stdout, feeder, decoded, stdin>>
        /\ result' = "ok" => /\ image.compressedSum => compressedHash = Published
                             /\ image.rawSum => rawHash = Published
    BY <1>3 DEF Compare, Decided
  <2>2. Decided' /\ Written' /\ HashedIsWritten' /\ Direct'
    BY <2>1 DEF Decided, Written, HashedIsWritten, Direct, External
  <2>3. ASSUME result' = "ok", image.compressedSum, child # "killed"
        PROVE  rawHash = Published
    <3>1. compressedHash = Published
      BY <2>1, <2>3
    <3>2. CASE ~External
      BY <2>1, <3>1, <3>2 DEF Direct
    <3>3. CASE External
      <4>1. child = "exited" /\ stdout = <<>>
        BY <2>1, <2>3, <3>3 DEF Decided
      <4>2. compressedHash = rawHash \o stdout
        BY <2>1, <3>1, <3>3, <4>1, PublishedIsSound DEF Conveyed, StdoutClosed
      <4>3. QED
        BY <3>1, <4>1, <4>2, ConcatEmptySeq DEF TypeOK
    <3>4. QED
      BY <3>2, <3>3
  <2>4. Justified'
    BY <2>1, <2>3 DEF Justified, Vouched, External, Decided
  <2>5. QED
    BY <1>1, <2>2, <2>4
<1>4. CASE CloseTarget \/ Return
  <2>1. /\ run \in {"closing", "waiting"} /\ run' \in {"waiting", "returned"}
        /\ UNCHANGED <<image, compressedHash, rawHash, target, result, child, stdout, feeder>>
    BY <1>4 DEF CloseTarget, Return
  <2>2. run' = "returned" => child # "running"
    BY <1>4 DEF CloseTarget, Return, Direct
  <2>3. QED
    BY <1>1, <2>1, <2>2 DEF Decided, Written, HashedIsWritten, Direct, Justified, Vouched, External
<1>5. QED
  BY <1>2, <1>3, <1>4

\* The feeder.
LEMMA InvFeeder ==
  ASSUME TypeOK, IInv, FeederReads \/ FeederStops \/ FeederFeeds
  PROVE  IInv'
<1> USE DEF IInv
<1>1. /\ UNCHANGED <<image, runVars, childVars>> /\ External /\ External' /\ run # "requesting"
      /\ UNCHANGED StdoutClosed
  BY DEF FeederReads, FeederStops, FeederFeeds, Direct, External, StdoutClosed
<1>2. Decided' /\ Written' /\ HashedIsWritten' /\ Direct' /\ Justified'
  BY <1>1, Apart
<1>3. /\ stdin \in Seq(Block) /\ unit \in Block /\ compressedHash \in Seq(Block)
      /\ rawHash \o stdout \o decoded \in Seq(Block)
      /\ rawHash \o stdout \o decoded \o stdin \in Seq(Block)
  BY ConcatProperties DEF TypeOK
<1> DEFINE put == rawHash \o stdout \o decoded
<1>4. put' = put /\ put \in Seq(Block) /\ put \o stdin \in Seq(Block)
  BY <1>1, <1>3
<1>5. NothingLostInTransit
        <=> (External /\ child = "running" /\ ~StdoutClosed =>
               compressedHash = (put \o stdin) \o (IF feeder = "feeding" THEN <<unit>> ELSE <<>>))
  BY DEF NothingLostInTransit
<1>6. NothingLostInTransit'
        <=> (External' /\ child' = "running" /\ ~StdoutClosed' =>
               compressedHash' = (put' \o stdin') \o (IF feeder' = "feeding" THEN <<unit'>> ELSE <<>>))
  BY DEF NothingLostInTransit
<1> HIDE DEF put
<1>7. (put \o stdin) \o <<>> = put \o stdin
  BY <1>4, ConcatEmptySeq
<1>8. CASE FeederReads
  <2>1. PICK u \in Block : compressedHash' = Append(compressedHash, u) /\ unit' = u
    BY <1>8, NextUnitsAreBlocks DEF FeederReads
  <2>2. feeder = "reading" /\ feeder' = "feeding" /\ stdin' = stdin
    BY <1>8 DEF FeederReads
  <2>3. Append(put \o stdin, u) = (put \o stdin) \o <<u>>
    BY <1>3, <1>4, AppendToLast
  <2>4. NothingLostInTransit'
    BY <1>1, <1>4, <1>5, <1>6, <1>7, <2>1, <2>2, <2>3
  <2>5. Conveyed'
    BY <1>1, <2>1, <2>2, DamageStays DEF Conveyed
  <2>6. QED
    BY <1>2, <2>4, <2>5
<1>9. CASE FeederStops
  <2>1. feeder = "reading" /\ feeder' = "done" /\ UNCHANGED <<stdin, compressedHash>>
    BY <1>9 DEF FeederStops
  <2>2. NothingLostInTransit'
    BY <1>1, <1>4, <1>5, <1>6, <2>1
  <2>3. Conveyed'
    BY <1>1, <2>1 DEF Conveyed, Damaged
  <2>4. QED
    BY <1>2, <2>2, <2>3
<1>10. CASE FeederFeeds
  <2>1. feeder = "feeding" /\ compressedHash' = compressedHash
    BY <1>10 DEF FeederFeeds
  <2>2. Conveyed'
    BY <1>1, <2>1 DEF Conveyed, Damaged
  <2>3. CASE child = "running"
    <3>1. stdin' = Append(stdin, unit) /\ feeder' = "reading"
      BY <1>10, <2>3 DEF FeederFeeds
    <3>2. put \o Append(stdin, unit) = (put \o stdin) \o <<unit>>
      BY <1>3, <1>4, AppendToLast
    <3>3. put \o Append(stdin, unit) \in Seq(Block)
      BY <1>3, <1>4, AppendProperties, ConcatProperties
    <3>4. (put \o Append(stdin, unit)) \o <<>> = put \o Append(stdin, unit)
      BY <3>3, ConcatEmptySeq
    <3>5. NothingLostInTransit'
      BY <1>1, <1>4, <1>5, <1>6, <2>1, <3>1, <3>2, <3>4
    <3>6. QED
      BY <1>2, <2>2, <3>5
  <2>4. CASE child # "running"
    <3>1. NothingLostInTransit'
      BY <1>1, <1>6, <2>4
    <3>2. QED
      BY <1>2, <2>2, <3>1
  <2>5. QED
    BY <2>3, <2>4
<1>11. QED
  BY <1>8, <1>9, <1>10

\* The child.
LEMMA InvChild ==
  ASSUME TypeOK, IInv, ChildDecodes \/ ChildWrites \/ ChildExits \/ ChildKilled
  PROVE  IInv'
<1> USE DEF IInv
<1>1. /\ UNCHANGED <<image, runVars, compressedHash, feeder, unit>> /\ child = "running"
      /\ External /\ External' /\ run # "requesting"
      /\ UNCHANGED StdoutClosed
  BY DEF ChildDecodes, ChildWrites, ChildExits, ChildKilled, Direct, External, StdoutClosed
<1>2. Decided' /\ Written' /\ HashedIsWritten' /\ Direct' /\ Justified'
  BY <1>1, Apart
<1> DEFINE taken  == rawHash \o stdout
           unfed  == IF feeder = "feeding" THEN <<unit>> ELSE <<>>
<1>3. taken \in Seq(Block) /\ unfed \in Seq(Block) /\ <<>> \in Seq(Block)
  BY ConcatProperties, EmptySeq DEF TypeOK
<1>4. /\ stdin \in Seq(Block) /\ stdout \in Seq(Block) /\ decoded \in Seq(Block)
      /\ rawHash \in Seq(Block)
  BY DEF TypeOK
<1>5. ~StdoutClosed => compressedHash = ((taken \o decoded) \o stdin) \o unfed
  BY <1>1 DEF NothingLostInTransit
<1>6. unfed' = unfed
  BY <1>1
<1>7. NothingLostInTransit'
        <=> (child' = "running" /\ ~StdoutClosed =>
               compressedHash = ((taken' \o decoded') \o stdin') \o unfed)
  BY <1>1, <1>6 DEF NothingLostInTransit
<1>8. taken \o <<>> = taken
  BY <1>3, ConcatEmptySeq
<1>9. taken' = rawHash \o stdout'
  BY <1>1
<1> HIDE DEF taken, unfed
<1>10. CASE ChildDecodes
  <2>1. /\ decoded = <<>> /\ stdin # <<>> /\ UNCHANGED <<child, stdout>>
        /\ stdin' = Tail(stdin) /\ decoded' = <<Head(stdin)>>
    BY <1>10 DEF ChildDecodes
  <2>2. (taken \o <<Head(stdin)>>) \o Tail(stdin) = taken \o stdin
    BY <1>3, <1>4, <2>1, HeadMoves
  <2>3. taken' = taken
    BY <1>9, <2>1 DEF taken
  <2>4. NothingLostInTransit'
    BY <1>5, <1>7, <1>8, <2>1, <2>2, <2>3
  <2>5. Conveyed'
    BY <1>1, <2>1 DEF Conveyed
  <2>6. QED
    BY <1>2, <2>4, <2>5
<1>11. CASE ChildWrites
  <2>1. CASE StdoutClosed
    BY <1>1, <1>2, <2>1 DEF NothingLostInTransit, Conveyed
  <2>2. CASE ~StdoutClosed
    <3>1. stdout' = stdout \o decoded /\ decoded' = <<>> /\ UNCHANGED <<child, stdin>>
      BY <1>11, <2>2 DEF ChildWrites
    <3>2. taken' = taken \o decoded
      <4>1. (rawHash \o stdout) \o decoded = rawHash \o (stdout \o decoded)
        BY <1>4, ConcatAssociative
      <4>2. taken = rawHash \o stdout
        BY DEF taken
      <4>3. QED
        BY <1>9, <3>1, <4>1, <4>2
    <3>3. taken' \o <<>> = taken'
      BY <1>3, <1>4, <3>2, ConcatProperties, ConcatEmptySeq
    <3>4. NothingLostInTransit'
      BY <1>5, <1>7, <2>2, <3>1, <3>2, <3>3
    <3>5. Conveyed'
      BY <1>1, <3>1 DEF Conveyed
    <3>6. QED
      BY <1>2, <3>4, <3>5
  <2>3. QED
    BY <2>1, <2>2
<1>12. CASE ChildExits
  <2>1. child' = "exited" /\ decoded = <<>> /\ UNCHANGED <<stdin, stdout>>
    BY <1>12 DEF ChildExits
  <2>2. NothingLostInTransit'
    BY <2>1 DEF NothingLostInTransit
  <2>3. ASSUME ~StdoutClosed
        PROVE  compressedHash = (taken \o stdin) \o unfed
    BY <1>5, <1>8, <2>1, <2>3
  <2>4. CASE stdin = <<>> /\ StdinClosed
    <3>1. feeder = "done" /\ unfed = <<>>
      BY <2>4 DEF StdinClosed, unfed
    <3>2. ~StdoutClosed => compressedHash = taken
      BY <1>8, <2>3, <2>4, <3>1
    <3>3. Conveyed'
      BY <1>1, <1>9, <2>1, <3>1, <3>2 DEF Conveyed, taken
    <3>4. QED
      BY <1>2, <2>2, <3>3
  <2>5. CASE stdin # <<>> /\ Head(stdin) = Wrong
    <3>1. \E i \in 1..Len((taken \o stdin) \o unfed) : ((taken \o stdin) \o unfed)[i] = Head(stdin)
      BY <1>3, <1>4, <2>5, HeadIsInside
    <3>2. ~StdoutClosed => Damaged
      BY <2>3, <2>5, <3>1 DEF Damaged
    <3>3. Conveyed'
      BY <1>1, <3>2 DEF Conveyed, Damaged
    <3>4. QED
      BY <1>2, <2>2, <3>3
  <2>6. QED
    BY <1>12, <2>4, <2>5 DEF ChildExits
<1>13. CASE ChildKilled
  BY <1>2, <1>13 DEF ChildKilled, NothingLostInTransit, Conveyed
<1>14. QED
  BY <1>10, <1>11, <1>12, <1>13

\* Every step keeps the invariant.
LEMMA InvStep == TypeOK /\ IInv /\ [Next]_vars => IInv'
<1>1. IInv /\ UNCHANGED vars => IInv'
  BY DEF vars, IInv, Decided, Written, HashedIsWritten, Direct, NothingLostInTransit, Conveyed,
         Justified, Vouched, External, StdoutClosed, Damaged
<1>2. QED
  BY <1>1, InvBegin, InvRead, InvWrite, InvFeeder, InvChild
     DEF Next, AwaitServer, RunStep, ChildStep

\* The invariant holds for any image and any pipe.
THEOREM InvHolds == Spec => []IInv
  BY TypeCorrect, InvInit, InvStep, PTL DEF Spec

\* No unit is lost, added or reordered on its way through the feeder, the pipes and
\* the child while the child lives (pipeline.go:188-262).
THEOREM NothingIsLost == Spec => []NothingLostInTransit
<1>1. IInv => NothingLostInTransit
  BY DEF IInv
<1>2. QED
  BY <1>1, InvHolds, PTL

\* What the checksums are computed over is what has been written
\* (pipeline.go:118-175).
THEOREM WhatIsHashedIsWritten == Spec => []HashedIsWritten
<1>1. IInv => HashedIsWritten
  BY DEF IInv
<1>2. QED
  BY <1>1, InvHolds, PTL

-----------------------------------------------------------------------------
(***************************************************************************)
(* The refinement of VerifiedWrite.                                        *)
(***************************************************************************)

\* Run begins where VerifiedWrite does.
LEMMA WriteBegins == Init => Write!WriteInit
  BY DEF Init, Write!WriteInit, Verdict, Vouched

\* Steps that neither write nor return nor end the child from outside are none of
\* VerifiedWrite.
LEMMA Stutters ==
  ASSUME UNCHANGED <<image, target>>,
         child' = "killed" <=> child = "killed",
         (run' = "returned" /\ UNCHANGED <<run, result>>) \/ (run # "returned" /\ run' # "returned")
  PROVE  UNCHANGED Write!writeVars
  BY DEF Write!writeVars, Verdict, Vouched

\* Every step is one of VerifiedWrite or none of its business.
LEMMA WriteStep == TypeOK /\ IInv /\ [Next]_vars => [Write!WriteNext]_(Write!writeVars)
<1> SUFFICES ASSUME TypeOK, IInv, [Next]_vars
             PROVE  [Write!WriteNext]_(Write!writeVars)
  OBVIOUS
<1> USE DEF IInv
<1>1. CASE WriteTarget \/ WriteFails
  <2>1. /\ run = "writing" /\ run' # "returned" /\ UNCHANGED <<image, child>>
        /\ target' = target \/ \E b \in Block : target' = Append(target, b)
    BY <1>1, BlockFacts DEF WriteTarget, WriteFails, TypeOK
  <2>2. Verdict = "none" /\ Verdict' = "none" /\ Vouched' = Vouched
    BY <2>1 DEF Verdict, Vouched
  <2>3. QED
    BY <2>1, <2>2 DEF Write!WriteNext, Write!WriteBlock, Write!writeVars
<1>2. CASE RequestFails
  <2>1. Verdict = "none" /\ Verdict' = "error" /\ Vouched' = Vouched /\ target' = target
    BY <1>2 DEF RequestFails, Verdict, Vouched
  <2>2. QED
    BY <2>1 DEF Write!WriteNext, Write!Refuse
<1>3. CASE Return
  <2>1. /\ run = "waiting" /\ run' = "returned"
        /\ UNCHANGED <<image, child, target, rawHash, result>>
    BY <1>3 DEF Return
  <2>2. Verdict = "none" /\ Verdict' = result /\ Vouched' = Vouched
    BY <2>1 DEF Verdict, Vouched
  <2>3. CASE result = "ok"
    <3>1. Vouched => target = Published
      BY <2>3 DEF Justified, HashedIsWritten
    <3>2. Write!Accept
      BY <2>1, <2>2, <2>3, <3>1 DEF Write!Accept
    <3>3. QED
      BY <3>2 DEF Write!WriteNext
  <2>4. CASE result = "error"
    BY <2>1, <2>2, <2>4 DEF Write!WriteNext, Write!Refuse
  <2>5. QED
    BY <2>1, <2>3, <2>4 DEF Decided, TypeOK
<1>4. CASE ChildKilled
  <2>1. /\ child = "running" /\ child' = "killed"
        /\ UNCHANGED <<image, target, run, result>>
    BY <1>4 DEF ChildKilled
  <2>2. Verdict = "none" /\ Verdict' = "none"
    BY <2>1 DEF Verdict, Decided
  <2>3. CASE image.rawSum \/ ~image.compressedSum
    <3>1. Vouched' = Vouched
      BY <2>1, <2>3 DEF Vouched
    <3>2. QED
      BY <2>1, <2>2, <3>1 DEF Write!writeVars
  <2>4. CASE ~image.rawSum /\ image.compressedSum
    <3>1. Vouched = TRUE /\ Vouched' = FALSE
      BY <2>1, <2>4 DEF Vouched
    <3>2. QED
      BY <2>1, <2>2, <3>1 DEF Write!WriteNext, Write!LoseCover
  <2>5. QED
    BY <2>3, <2>4
<1>5. CASE CancelContext \/ OpenTarget \/ CheckContext \/ RequestAnswered
  BY <1>5, Stutters DEF CancelContext, OpenTarget, CheckContext, RequestAnswered, Direct
<1>6. CASE CopyDirect \/ EndDirect \/ ReadFails \/ CopyFromChild \/ EndFromChild
  BY <1>6, Stutters DEF CopyDirect, EndDirect, ReadFails, CopyFromChild, EndFromChild, TakeBlock
<1>7. CASE Compare \/ CloseTarget
  BY <1>7, Stutters DEF Compare, CloseTarget
<1>8. CASE FeederReads \/ FeederStops \/ FeederFeeds
  BY <1>8, Stutters DEF FeederReads, FeederStops, FeederFeeds
<1>9. CASE ChildDecodes \/ ChildWrites \/ ChildExits
  BY <1>9, Stutters DEF ChildDecodes, ChildWrites, ChildExits
<1>10. CASE UNCHANGED vars
  BY <1>10, Stutters DEF vars
<1>11. QED
  BY <1>1, <1>2, <1>3, <1>4, <1>5, <1>6, <1>7, <1>8, <1>9, <1>10
     DEF Next, AwaitServer, RunStep, ChildStep

\* Whatever the server sends, whoever fails or is cancelled, and however long the
\* image and the pipes are: Run implements VerifiedWrite.
THEOREM RunImplementsVerifiedWrite == Spec => ImplementsVerifiedWrite
  BY TypeCorrect, InvHolds, WriteBegins, WriteStep, PTL
     DEF Spec, ImplementsVerifiedWrite, Write!WriteSpec

=============================================================================
