------------------------------ MODULE Pipeline ------------------------------
(***************************************************************************)
(* One call of Pipeline.Run (agent/internal/deploy/pipeline.go): the body  *)
(* of an HTTP answer is hashed, decompressed, hashed again and written to  *)
(* the target, and the hashes are compared when all is written.            *)
(*                                                                         *)
(*   - "plain" images (raw, img) are copied by Run's own loop;             *)
(*   - "gzip" images are decoded inside that loop;                         *)
(*   - "external" images (xz, zst) go through a child process: a feeder    *)
(*     goroutine copies the body into its stdin, and the loop reads its    *)
(*     stdout.                                                             *)
(*                                                                         *)
(* The published file is N units, unit i decodes to block i of the raw     *)
(* image.  Anything else the server may send in place of a unit is Wrong.  *)
(* A digest is equal to the published one just when what was hashed is.    *)
(***************************************************************************)
EXTENDS Naturals, Sequences

CONSTANTS N,         \* units in the published file
          PipeSize,  \* units a pipe to or from the child holds
          Images     \* the catalog entries to deploy, see Entry

ASSUME PipelineAssumption == N \in Nat \ {0} /\ PipeSize \in Nat \ {0}

Wrong == 0

Block == 0 .. N

Published == [i \in 1 .. N |-> i]

\* What of images.Image concerns Run: the two checksums may be absent.
Entry == [format : {"plain", "gzip", "external"},
          compressedSum : BOOLEAN, rawSum : BOOLEAN]

ASSUME ImagesAssumption == Images \subseteq Entry

VARIABLES image,     \* p.Image
          cancelled, \* ctx is done
          run,       \* where Run is
          block,     \* what its loop has read and not written yet
          compressedHash, rawHash,  \* what the two digests have been fed
          target,    \* what has been written to the target
          result,    \* the err Run will return: "none" so far, "ok" or "error"
          feeder,    \* the feeder goroutine
          unit,      \* what it has read and not fed yet
          stdin,     \* the child's input pipe
          child,     \* the child process
          decoded,   \* what it has decoded and not put out yet
          stdout     \* its output pipe

runVars   == <<run, block, rawHash, target, result>>
childVars == <<child, decoded, stdout>>
feedVars  == <<feeder, unit, stdin>>
vars == <<image, cancelled, compressedHash, runVars, childVars, feedVars>>

External == image.format = "external"

TypeOK ==
  /\ image \in Entry
  /\ cancelled \in BOOLEAN
  /\ run \in {"requesting", "opening", "copying", "reading", "writing", "comparing",
              "closing", "waiting", "returned"}
  /\ block \in Block
  /\ compressedHash \in Seq(Block) /\ rawHash \in Seq(Block) /\ target \in Seq(Block)
  /\ result \in {"none", "ok", "error"}
  /\ feeder \in {"none", "reading", "feeding", "done"}
  /\ unit \in Block
  /\ stdin \in Seq(Block) /\ stdout \in Seq(Block) /\ decoded \in Seq(Block)
  /\ child \in {"none", "running", "exited", "killed"}

Init ==
  /\ image \in Images
  /\ cancelled = FALSE
  /\ run = "requesting" /\ block = Wrong /\ result = "none"
  /\ compressedHash = <<>> /\ rawHash = <<>> /\ target = <<>>
  /\ feeder = "none" /\ unit = Wrong /\ stdin = <<>>
  /\ child = "none" /\ decoded = <<>> /\ stdout = <<>>

\* Run stops with err = e; goes on at `there`.
FinishWith(e, there) == result' = e /\ run' = there

-----------------------------------------------------------------------------
\* The caller's context is cancelled.
CancelContext ==
  /\ ~cancelled /\ run # "returned"
  /\ cancelled' = TRUE
  /\ UNCHANGED <<image, compressedHash, runVars, childVars, feedVars>>

\* What one Read of the body may return: the unit that comes next in the
\* published file, or another one where the server holds a different file, a
\* damaged or a longer one.  counterReader looks at the context before it
\* reads, so a read that was under way may still deliver after a cancel.
NextUnits ==
  IF Len(compressedHash) < N THEN {Len(compressedHash) + 1, Wrong}
  ELSE IF Len(compressedHash) = N THEN {Wrong} ELSE {}

\* resp.Body.Close is forgotten.
FaultBodyLeftOpen == TRUE

\* The body can only be read while Run has not closed it.
BodyOpen == run # "returned"

\* The feeder does not close the child's input when its copy ends.
FaultStdinLeftOpen == FALSE

\* The child's input is at an end.
StdinClosed == feeder = "done"

\* Close waits for the child with its output still open.
FaultStdoutLeftOpen == run = "returned"

\* Run will not read the child's output any more.
StdoutClosed == run \in {"waiting", "returned"}

\* No answer, a status other than 200, or the decoder cannot be started.
RequestFails ==
  /\ run = "requesting"
  /\ FinishWith("error", "returned")
  /\ UNCHANGED <<image, cancelled, compressedHash, block, rawHash, target,
                 childVars, feedVars>>

\* The answer is 200; the child and its feeder are started.
RequestAnswered ==
  /\ run = "requesting"
  /\ run' = "opening"
  /\ IF External THEN child' = "running" /\ feeder' = "reading"
                 ELSE UNCHANGED <<child, feeder>>
  /\ UNCHANGED <<image, cancelled, compressedHash, block, rawHash, target, result,
                 decoded, stdout, unit, stdin>>

OpenTarget ==
  /\ run = "opening"
  /\ \/ run' = "copying" /\ UNCHANGED result
     \/ FinishWith("error", "waiting")
  /\ UNCHANGED <<image, cancelled, compressedHash, block, rawHash, target,
                 childVars, feedVars>>

-----------------------------------------------------------------------------
\* The head of the loop is the only place where it looks at the context.
CheckContext ==
  /\ run = "copying"
  /\ IF cancelled THEN FinishWith("error", "closing")
                  ELSE run' = "reading" /\ UNCHANGED result
  /\ UNCHANGED <<image, cancelled, compressedHash, block, rawHash, target,
                 childVars, feedVars>>

\* The loop takes block b from its reader; TeeReader feeds it to rawHash.
TakeBlock(b) ==
  /\ block' = b
  /\ rawHash' = Append(rawHash, b)
  /\ run' = "writing"
  /\ UNCHANGED <<target, result>>

\* The end of the body is missed.
FaultReadPastEnd ==
  /\ run = "reading" /\ ~External
  /\ compressedHash' = Append(compressedHash, Len(compressedHash) + 1)
  /\ TakeBlock(Len(compressedHash) + 1)
  /\ UNCHANGED <<image, cancelled, childVars, feedVars>>

\* Without a child the loop reads and decodes the body itself.  A wrong unit is
\* passed on (plain always does that) or found out by the gzip reader.
CopyDirect ==
  /\ run = "reading" /\ ~External
  /\ \E u \in NextUnits :
       /\ compressedHash' = Append(compressedHash, u)
       /\ \/ TakeBlock(u)
          \/ /\ u = Wrong /\ image.format = "gzip"
             /\ FinishWith("error", "closing")
             /\ UNCHANGED <<block, rawHash, target>>
  /\ UNCHANGED <<image, cancelled, childVars, feedVars>>

\* A gzip reader accepts the end of the body only where its stream ends.
StreamMayEnd ==
  image.format = "gzip" =>
    \/ compressedHash = Published
    \/ \E i \in 1 .. Len(compressedHash) : compressedHash[i] = Wrong

\* End of the body: the file on the server ends here.
EndDirect ==
  /\ run = "reading" /\ ~External
  /\ StreamMayEnd
  /\ run' = "comparing"
  /\ UNCHANGED <<image, cancelled, compressedHash, block, rawHash, target, result,
                 childVars, feedVars>>

\* Reading the body fails: the connection, the gzip stream, the context.
ReadFails ==
  /\ run = "reading" /\ ~External
  /\ FinishWith("error", "closing")
  /\ UNCHANGED <<image, cancelled, compressedHash, block, rawHash, target,
                 childVars, feedVars>>

\* The pipe to the child knows nothing of the context.
CopyFromChild ==
  /\ run = "reading" /\ External /\ stdout # <<>>
  /\ TakeBlock(Head(stdout))
  /\ stdout' = Tail(stdout)
  /\ UNCHANGED <<image, cancelled, compressedHash, child, decoded, feedVars>>

\* The end of the child's output is io.EOF whatever made it exit.
EndFromChild ==
  /\ run = "reading" /\ External /\ stdout = <<>>
  /\ child \in {"exited", "killed"}
  /\ run' = "comparing"
  /\ UNCHANGED <<image, cancelled, compressedHash, block, rawHash, target, result,
                 childVars, feedVars>>

\* A short write goes unnoticed.
FaultShortWrite ==
  /\ run = "writing"
  /\ target' \in {target, Append(target, block)}
  /\ run' = "copying"
  /\ block' = Wrong
  /\ UNCHANGED <<image, cancelled, compressedHash, rawHash, result, childVars, feedVars>>

\* The whole block is written.
WriteTarget ==
  /\ run = "writing"
  /\ target' = Append(target, block)
  /\ run' = "copying"
  /\ block' = Wrong
  /\ UNCHANGED <<image, cancelled, compressedHash, rawHash, result, childVars, feedVars>>

\* The write fails, perhaps with a part of the block on the target.
WriteFails ==
  /\ run = "writing"
  /\ target' \in {target, Append(target, Wrong)}
  /\ FinishWith("error", "closing")
  /\ block' = Wrong
  /\ UNCHANGED <<image, cancelled, compressedHash, rawHash, childVars, feedVars>>

\* Only a raw checksum is compared.
FaultCompareRawOnly ==
  /\ run = "comparing"
  /\ FinishWith(IF image.rawSum /\ rawHash # Published THEN "error" ELSE "ok",
                "closing")
  /\ UNCHANGED <<image, cancelled, compressedHash, block, rawHash, target,
                 childVars, feedVars>>

\* The feeder may still be adding to compressedHash if the child has died under
\* it: what Sum then returns need not be the digest of anything.
DigestMayBeTorn == feeder = "reading"

\* Sync, then the digests that were published are compared.
Compare ==
  /\ run = "comparing"
  /\ \E torn \in {FALSE, DigestMayBeTorn} :
       LET mismatch ==
             \/ image.compressedSum /\ (compressedHash # Published \/ torn)
             \/ image.rawSum /\ rawHash # Published
       IN FinishWith(IF mismatch THEN "error" ELSE "ok", "closing")
  /\ UNCHANGED <<image, cancelled, compressedHash, block, rawHash, target,
                 childVars, feedVars>>

\* Deferred: Sync and Close of the target; then the child's stdout is closed.
CloseTarget ==
  /\ run = "closing"
  /\ run' = "waiting"
  /\ UNCHANGED <<image, cancelled, compressedHash, block, rawHash, target, result,
                 childVars, feedVars>>

\* Deferred: Wait for the child, its exit status is dropped; the body is closed.
Return ==
  /\ run = "waiting"
  /\ External => child \in {"exited", "killed"}
  /\ run' = "returned"
  /\ UNCHANGED <<image, cancelled, compressedHash, block, rawHash, target, result,
                 childVars, feedVars>>

-----------------------------------------------------------------------------
\* The feeder, io.Copy(stdin, src).

FeederReads ==
  /\ feeder = "reading" /\ BodyOpen
  /\ \E u \in NextUnits :
       /\ compressedHash' = Append(compressedHash, u)
       /\ unit' = u
  /\ feeder' = "feeding"
  /\ UNCHANGED <<image, cancelled, runVars, childVars, stdin>>

\* The read ends the copy: end of the body, a lost connection, a cancelled
\* context or a closed body are all one to the feeder.
FeederStops ==
  /\ feeder = "reading"
  /\ feeder' = "done"
  /\ UNCHANGED <<image, cancelled, compressedHash, runVars, childVars, unit, stdin>>

\* A unit that finds the pipe full is dropped.
FaultFeederDrops ==
  /\ feeder = "feeding"
  /\ stdin' = IF Len(stdin) < PipeSize THEN Append(stdin, unit) ELSE stdin
  /\ feeder' = "reading"
  /\ unit' = Wrong
  /\ UNCHANGED <<image, cancelled, compressedHash, runVars, childVars>>

\* The write blocks while the pipe is full and fails when the child is gone.
FeederFeeds ==
  /\ feeder = "feeding"
  /\ \/ /\ child = "running" /\ Len(stdin) < PipeSize
        /\ stdin' = Append(stdin, unit)
        /\ feeder' = "reading"
     \/ /\ child \in {"exited", "killed"}
        /\ feeder' = "done"
        /\ UNCHANGED stdin
  /\ unit' = Wrong
  /\ UNCHANGED <<image, cancelled, compressedHash, runVars, childVars>>

-----------------------------------------------------------------------------
\* The child, xz -d or zstd -d.

ChildDecodes ==
  /\ child = "running" /\ decoded = <<>> /\ stdin # <<>>
  /\ stdin' = Tail(stdin)
  /\ decoded' = <<Head(stdin)>>
  /\ UNCHANGED <<image, cancelled, compressedHash, runVars, child, stdout, feeder, unit>>

\* It writes until Run closes the other end, then SIGPIPE ends it.
ChildWrites ==
  /\ child = "running" /\ decoded # <<>>
  /\ IF StdoutClosed
     THEN child' = "exited" /\ UNCHANGED stdout
     ELSE /\ Len(stdout) < PipeSize
          /\ stdout' = stdout \o decoded
          /\ UNCHANGED child
  /\ decoded' = <<>>
  /\ UNCHANGED <<image, cancelled, compressedHash, runVars, feedVars>>

\* It has put out everything and its input is at an end, or it finds fault with
\* its input.
ChildExits ==
  /\ child = "running" /\ decoded = <<>>
  /\ \/ stdin = <<>> /\ StdinClosed
     \/ stdin # <<>> /\ Head(stdin) = Wrong
  /\ child' = "exited"
  /\ UNCHANGED <<image, cancelled, compressedHash, runVars, decoded, stdout, feedVars>>

\* Something else ends it, such as a node out of memory.
ChildKilled ==
  /\ child = "running"
  /\ child' = "killed"
  /\ decoded' = <<>>
  /\ UNCHANGED <<image, cancelled, compressedHash, runVars, stdout, feedVars>>

-----------------------------------------------------------------------------
\* Steps that read the network.  Nothing but a cancelled context, or a closed
\* body, is sure to end them.
AwaitServer ==
  \/ RequestFails \/ RequestAnswered
  \/ CopyDirect \/ EndDirect \/ ReadFails
  \/ FeederReads \/ FeederStops

\* Steps of Run that need the node only.
RunStep ==
  \/ OpenTarget \/ CheckContext \/ CopyFromChild \/ EndFromChild
  \/ WriteTarget \/ WriteFails \/ Compare \/ CloseTarget \/ Return

ChildStep == ChildDecodes \/ ChildWrites \/ ChildExits

Next ==
  \/ CancelContext \/ ChildKilled
  \/ AwaitServer \/ RunStep \/ FeederFeeds \/ ChildStep

Spec == Init /\ [][Next]_vars

\* What the scheduler and the kernel do; the server need not do anything.
Fairness ==
  /\ WF_vars(RunStep) /\ WF_vars(FeederFeeds) /\ WF_vars(ChildStep)
  /\ WF_vars(cancelled /\ run = "requesting" /\ RequestFails)
  /\ WF_vars(cancelled /\ ReadFails)
  /\ WF_vars((cancelled \/ ~BodyOpen) /\ FeederStops)

FairSpec == Spec /\ Fairness

-----------------------------------------------------------------------------
(***************************************************************************)
(* Properties.                                                             *)
(***************************************************************************)

\* A checksum vouches for the target: the raw one always, the compressed one
\* unless the child was ended from outside.
Vouched == image.rawSum \/ (image.compressedSum /\ child # "killed")

Verdict == IF run = "returned" THEN result ELSE "none"

Write == INSTANCE VerifiedWrite WITH Image <- Published,
                                     vouched <- Vouched, verdict <- Verdict

\* Run implements VerifiedWrite: it reports success once, after its last write,
\* and a success that a checksum vouches for means the whole image is there.
ImplementsVerifiedWrite == Write!WriteSpec

\* No unit is lost or reordered between the two digests while the child lives:
\* what has been read is what has been put out and what is under way.
NothingLostInTransit ==
  External /\ child = "running" /\ ~StdoutClosed =>
    compressedHash = rawHash \o stdout \o decoded \o stdin
                       \o (IF feeder = "feeding" THEN <<unit>> ELSE <<>>)

\* Whatever the digest is computed over has been written when it is compared.
HashedIsWritten == run = "comparing" \/ result = "ok" => target = rawHash

-----------------------------------------------------------------------------
\* A cancelled Run returns, also with a silent server and full pipes.
CancelReturns == cancelled ~> run = "returned"

\* The feeder does not outlive Run for ever, also with a silent server.
FeederEnds == run = "returned" ~> feeder \in {"none", "done"}

\* With a server that goes on answering, the loop, the feeder and the child do
\* not end up waiting for each other.
ServedRunReturns == WF_vars(AwaitServer) => <>(run = "returned")

-----------------------------------------------------------------------------
\* DEPLOY.md:421: a deployment that succeeded has written raw_size bytes.
SuccessMeansWhole == Verdict = "ok" => Len(target) = N

=============================================================================
