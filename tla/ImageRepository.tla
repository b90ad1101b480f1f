-------------------------- MODULE ImageRepository --------------------------
(***************************************************************************)
(* The image service together with the scripts an administrator runs on    *)
(* the same directory (scripts/add-image.sh, scripts/remove-image.sh).     *)
(*                                                                         *)
(* The scripts exclude each other with a lock on .index.flock.  The        *)
(* service has s.mu.  Neither looks at the other's.                        *)
(***************************************************************************)
EXTENDS ImageService

CONSTANT Runs           \* executions of a script

ASSUME RunsAssumption ==
  Runs \subseteq Writers /\ Runs \cap (Jobs \cup Ids) = {} /\ IsFiniteSet(Runs)

VARIABLES
  run,                  \* the script executions
  contestedIds,         \* ids that two additions have been working on at once
  contestedFiles,       \* files that have had two users at once
  stale                 \* a snapshot was overtaken before it was written back

scriptVars == <<run>>

\* No guard reads these.  They remember what has happened.
history == <<contestedIds, contestedFiles, stale>>

vars == <<serviceVars, scriptVars, history>>

-----------------------------------------------------------------------------
(* Scripts.                                                                *)

\* Where a script has got to:
\*   copying     cp is writing the image file
\*   copied      the image file is in place
\*   hashed      its checksum is known
\*   found       (remove) the entry and its path have been read
\*   moving      the new index is in a temporary file
\*   unlinking   the index has been replaced, the file is still there
Working == {"copying", "copied", "hashed", "found", "moving", "unlinking"}

NotStarted == [at |-> "idle", op |-> "add", id |-> None, file |-> None,
               view |-> <<>>, digest |-> NoFile]

WorkingRuns == {r \in Runs : run[r].at \in Working}

At(r, place) == run' = [run EXCEPT ![r].at = place]
Exits(r) == run' = [run EXCEPT ![r] = [NotStarted EXCEPT !.at = "ended"]]

\* flock: at most one script is past acquire_lock.  One that waits gives up
\* after 30 s and has done nothing.
LockFree == WorkingRuns = {}

\* Who has an image file open for writing.
Busy == WritingJobs \cup {r \in Runs : run[r].at = "copying"}

\* add-image.sh after its conversions: lock, duplicate check, cp unless the file
\* is already the one in the image directory.  What is added is a whole image.
AddImage(r, i, n) ==
  /\ run[r].at = "idle"
  /\ LockFree
  /\ i \notin IdsIn(index)
  /\ \E inPlace \in BOOLEAN :
       /\ inPlace => Whole(disk[n])
       /\ run' = [run EXCEPT ![r] =
                    [NotStarted EXCEPT !.at = IF inPlace THEN "copied" ELSE "copying",
                                       !.id = i, !.file = n]]
       /\ disk' = IF inPlace THEN disk
                  ELSE [disk EXCEPT ![n] = Truncated(@, r, Busy)]

\* cp ends; set -e ends the script when it has failed.
CopyEnds(r) ==
  /\ run[r].at = "copying"
  /\ \/ /\ disk' = [disk EXCEPT ![run[r].file] = Completed(@, r)]
        /\ At(r, "copied")
     \/ Exits(r) /\ UNCHANGED disk

\* sha256sum; it fails when the file is gone.
ScriptHash(r) ==
  /\ run[r].at = "copied"
  /\ IF disk[run[r].file] = NoFile
     THEN Exits(r)
     ELSE run' = [run EXCEPT ![r].at = "hashed", ![r].digest = disk[run[r].file]]
  /\ UNCHANGED disk

\* remove-image.sh: lock, find the path of the entry, ask for confirmation.
RemoveImage(r, i) ==
  /\ run[r].at = "idle"
  /\ LockFree
  /\ i \in IdsIn(index)
  /\ run' = [run EXCEPT ![r] = [NotStarted EXCEPT !.at = "found", !.op = "remove",
                                                  !.id = i, !.file = FileOf(index, i)]]
  /\ UNCHANGED disk

\* jq or python reads the index and writes the changed one to "index.json.tmp.$$".
Edit(r) ==
  /\ run[r].at \in {"hashed", "found"}
  /\ run' = [run EXCEPT ![r].at = "moving", ![r].view = index]
  /\ UNCHANGED disk

\* What it has written there.
Edited(r) ==
  IF run[r].op = "add"
  THEN Append(run[r].view, [id |-> run[r].id, file |-> run[r].file,
                            digest |-> run[r].digest])
  ELSE Without(run[r].view, run[r].id)

\* mv.  With --delete-file the image file is next.
Move(r) ==
  /\ run[r].at = "moving"
  /\ index' = Edited(r)
  /\ \/ Exits(r)
     \/ run[r].op = "remove" /\ At(r, "unlinking")
  /\ UNCHANGED disk

Unlink(r) ==
  /\ run[r].at = "unlinking"
  /\ disk' = [disk EXCEPT ![run[r].file] = NoFile]
  /\ Exits(r)

\* The administrator declines or interrupts it, or a command fails.
Interrupt(r) ==
  /\ run[r].at \in Working
  /\ Exits(r)
  /\ UNCHANGED disk

-----------------------------------------------------------------------------
(* The composition.                                                        *)

ServiceStep ==
  /\ \/ \E j \in Jobs, i \in Ids, source \in Sources : StartAdd(j, i, source)
     \/ \E j \in Jobs : \/ Prepare(j) \/ BeginWrite(j, Busy) \/ EndWrite(j)
                        \/ Hash(j) \/ LockAndRead(j) \/ Register(j) \/ CleanUp(j)
     \/ \E i \in Ids : DeleteRead(i) \/ UpdateRead(i)
     \/ RequestStep
     \/ ServerStops
  /\ UNCHANGED scriptVars

ScriptStep ==
  /\ \E r \in Runs :
       \/ Move(r)
       \/ /\ \/ \E i \in Ids, n \in Names : AddImage(r, i, n)
             \/ \E i \in Ids : RemoveImage(r, i)
             \/ CopyEnds(r) \/ ScriptHash(r) \/ Edit(r) \/ Unlink(r) \/ Interrupt(r)
          /\ UNCHANGED index
  /\ UNCHANGED <<job, mu>>

\* Additions of id i under way.
Additions(i) ==
  {j \in LiveJobs : job[j].id = i}
    \cup {r \in WorkingRuns : run[r].op = "add" /\ run[r].id = i}

\* Who relies on file n or is about to write or remove it.
Users(n) ==
  {<<"entry", k>> : k \in {k \in DOMAIN index : index[k].file = n}}
    \cup {<<"job", j>> : j \in {j \in LiveJobs : job[j].id = n}}
    \cup {<<"run", r>> : r \in {r \in WorkingRuns :
                                  /\ run[r].file = n
                                  /\ run[r].op = "add" \/ run[r].at = "unlinking"}}
    \cup {<<"delete", mu>> : x \in {y \in {n} : mu.op = "removing" /\ mu.victim = y}}

\* A snapshot that is going to be written back is no longer what index.json says.
ServiceOvertaken == mu.op \in Cycle /\ mu.view # index
ScriptOvertaken == \E r \in Runs : run[r].at = "moving" /\ run[r].view # index

Contested(users(_), S) == {x \in S : Cardinality(users(x)) > 1}

Remember ==
  /\ contestedIds' = contestedIds \cup Contested(Additions, Ids)'
  /\ contestedFiles' = contestedFiles \cup Contested(Users, Names)'
  /\ stale' = (stale \/ (ServiceOvertaken \/ ScriptOvertaken)')

Init ==
  /\ ServiceInit
  /\ run = [r \in Runs |-> NotStarted]
  /\ contestedIds = {}
  /\ contestedFiles = {}
  /\ stale = FALSE

Next == (ServiceStep \/ ScriptStep) /\ Remember

Spec == Init /\ [][Next]_vars

-----------------------------------------------------------------------------
(* Properties.                                                             *)

TypeOK ==
  /\ ServiceTypeOK
  /\ run \in [Runs -> [at : Working \cup {"idle", "ended"}, op : {"add", "remove"},
                       id : Ids \cup {None}, file : Names \cup {None},
                       view : Seq(Entry), digest : Content]]
  /\ contestedIds \subseteq Ids
  /\ contestedFiles \subseteq Names
  /\ stale \in BOOLEAN

\* An image that is registered is there, whole, and has the registered checksum,
\* through failed and interrupted additions, deletions of others and restarts
\* of the server - unless its file has had two users at once or an
\* overtaken snapshot has been written back.
RegisteredIntact ==
  stale \/ \A e \in Range(index) :
             e.file \notin contestedFiles => Whole(disk[e.file]) /\ disk[e.file] = e.digest

\* An id is registered once, unless two additions of it have overlapped: the
\* duplicate check of either comes long before its registration.  Agents refuse
\* an index with a duplicate as a whole (ValidateIndex, images.go).
RegisteredOnce ==
  stale \/ \A k, l \in DOMAIN index :
             k # l /\ index[k].id = index[l].id => index[k].id \in contestedIds

\* s.mu is held by one job or request at a time, is given back when its holder is
\* through or gone, and nobody but a script changes the index under the holder.
LockProtectsIndex ==
  /\ \A j \in Jobs : job[j].stage = "registering" => mu.op = "register" /\ mu.id = job[j].id
  /\ mu.op = "register" => Cardinality({j \in Jobs : job[j].stage = "registering"}) = 1
  /\ (\A r \in Runs : run[r].at = "idle") => ~ServiceOvertaken

\* An image leaves the index when it is deleted or removed, and otherwise only
\* when a snapshot is written back that has been overtaken.
Removes(i) ==
  \/ mu.op = "delete" /\ mu.id = i
  \/ \E r \in Runs : run[r].at = "moving" /\ run[r].op = "remove" /\ run[r].id = i

NothingForgotten ==
  [][\A i \in IdsIn(index) \ IdsIn(index') :
       Removes(i) \/ ServiceOvertaken \/ ScriptOvertaken]_vars

-----------------------------------------------------------------------------
(* What the repository says and the code does not do.                      *)

\* imagesvc.go:112, "Delete removes the entry and the file": the file it is
\* going to remove is the one of the image it was asked to delete.
DeleteRemovesItsOwnFile ==
  mu.op = "removing" => mu.victim = FileOf(mu.view, mu.id)

=============================================================================
