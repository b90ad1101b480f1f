----------------------- MODULE ImageRepositoryProofs -----------------------
(***************************************************************************)
(* Proofs about ImageRepository: the service and the scripts on one        *)
(* directory, for any number of images, jobs and scripts.                  *)
(*                                                                         *)
(* The lemmas on what a step does to a variable (JobMoves, RunMoves,       *)
(* IndexMoves, MuMoves, DiskMoves) go through all actions once; the rest   *)
(* of the proofs goes through those few cases.                             *)
(*                                                                         *)
(* The invariant is proved part by part, each from those before it: the    *)
(* types; who holds s.mu; that an id which was never contested has one     *)
(* addition at most, and a file which was never contested one user; and    *)
(* from that what jobs, scripts and entries know of their files.           *)
(***************************************************************************)
EXTENDS ImageRepository, ImageIndexProofs, FiniteSetTheorems, TLAPS

-----------------------------------------------------------------------------
(* The invariant.                                                          *)

\* A request to delete has seen the image, and a script under way has an image and
\* a file.
Base ==
  /\ TypeOK
  /\ mu.op = "delete" => mu.id \in IdsIn(mu.view)
  /\ \A r \in Runs :
       /\ run[r].at \in Working => run[r].id \in Ids /\ run[r].file \in Names
       /\ run[r].at \in {"copying", "copied", "hashed"} => run[r].op = "add"
       /\ run[r].at \in {"found", "unlinking"} => run[r].op = "remove"

\* s.mu and the job that holds it.
Locked ==
  /\ \A j \in Jobs : job[j].stage = "registering" => mu.op = "register" /\ mu.id = job[j].id
  /\ mu.op = "register" => \E j \in Jobs : {k \in Jobs : job[k].stage = "registering"} = {j}

\* As long as no script has been started, nobody changes the index under s.mu.
Undisturbed == (\A r \in Runs : run[r].at = "idle") => ~ServiceOvertaken

\* `stale` remembers every snapshot that was overtaken.
Remembered == ~stale => ~ServiceOvertaken /\ ~ScriptOvertaken

\* An id that was never contested has one addition under way at most, and one that
\* is being added is not registered.
AddedOnce ==
  \A i \in Ids \ contestedIds :
    /\ \A x, y \in Additions(i) : x = y
    /\ ~stale => Additions(i) = {} \/ i \notin IdsIn(index)

\* A file that was never contested has one user at most.
UsedAlone == \A n \in Names \ contestedFiles : \A x, y \in Users(n) : x = y

\* Who has not finished a file has begun it, and has no other file open.
WriterKnown(w, n) ==
  /\ w \in Jobs => /\ job[w].stage \notin {"idle", "queued", "prepared"}
                   /\ job[w].stage = "writing" => job[w].id = n
  /\ w \in Runs => /\ run[w].at # "idle"
                   /\ run[w].at = "copying" => run[w].file = n

WritersKnown == \A n \in Names : \A w \in disk[n].unfinished : WriterKnown(w, n)

\* What a job knows of its file.
JobRight(j) ==
  /\ job[j].stage = "writing" => disk[job[j].id] = Created(j)
  /\ job[j].stage = "written" => Whole(disk[job[j].id])
  /\ job[j].stage \in {"hashed", "registering"} =>
       Whole(disk[job[j].id]) /\ disk[job[j].id] = job[j].digest

\* What a script knows of the file it adds.
RunRight(r) ==
  /\ run[r].at = "copying" => disk[run[r].file] = Created(r)
  /\ run[r].at = "copied" => Whole(disk[run[r].file])
  /\ run[r].at \in {"hashed", "moving"} /\ run[r].op = "add" =>
       Whole(disk[run[r].file]) /\ disk[run[r].file] = run[r].digest

EntryRight(e) == Whole(disk[e.file]) /\ disk[e.file] = e.digest

FilesRight ==
  /\ \A j \in LiveJobs : job[j].id \notin contestedFiles => JobRight(j)
  /\ \A r \in WorkingRuns : run[r].file \notin contestedFiles => RunRight(r)
  /\ ~stale => \A k \in DOMAIN index :
       index[k].file \notin contestedFiles => EntryRight(index[k])

IInv == /\ Base /\ Locked /\ Undisturbed /\ Remembered /\ AddedOnce /\ UsedAlone
        /\ WritersKnown /\ FilesRight /\ RegisteredOnce

-----------------------------------------------------------------------------
(* Types.                                                                  *)

JobType == [stage : Stages, id : Ids \cup {None}, source : Sources \cup {None}, digest : Content]
MuType  == [op : Cycle \cup {"free", "removing"}, id : Ids \cup {None},
            view : Seq(Entry), victim : Names \cup {None}]
RunType == [at : Working \cup {"idle", "ended"}, op : {"add", "remove"},
            id : Ids \cup {None}, file : Names \cup {None},
            view : Seq(Entry), digest : Content]

\* The sets of contents that the operations on files return.
LEMMA ContentTypes ==
  /\ NoFile \in Content
  /\ \A w \in Writers : Created(w) \in Content
  /\ \A c \in Content, w \in Writers, busy \in SUBSET Writers : Truncated(c, w, busy) \in Content
  /\ \A c \in Content, w \in Writers : Completed(c, w) \in Content
  BY DEF NoFile, Created, Truncated, Completed, Content

\* Who writes files are writers.
LEMMA WhoWrites == Jobs \subseteq Writers /\ Runs \subseteq Writers /\ Busy \subseteq Writers
<1>1. Jobs \subseteq Writers /\ Runs \subseteq Writers
  BY Zenon, RepositoryAssumption, RunsAssumption
<1> QED
  BY <1>1 DEF Busy, WritingJobs

\* What is remembered keeps its type.
LEMMA RememberTyped ==
  ASSUME TypeOK, Remember
  PROVE  /\ contestedIds' \subseteq Ids /\ contestedFiles' \subseteq Names /\ stale' \in BOOLEAN
         /\ contestedIds \subseteq contestedIds' /\ contestedFiles \subseteq contestedFiles'
         /\ stale => stale'
<1>1. contestedIds' \subseteq Ids /\ contestedIds \subseteq contestedIds'
  BY DEF TypeOK, Remember, Contested
<1>2. contestedFiles' \subseteq Names /\ contestedFiles \subseteq contestedFiles'
  BY DEF TypeOK, Remember, Contested
<1>3. stale' \in BOOLEAN /\ (stale => stale')
  <2>1. (ServiceOvertaken \/ ScriptOvertaken)' \in BOOLEAN
    BY DEF ServiceOvertaken, ScriptOvertaken
  <2> QED
    BY <2>1 DEF TypeOK, Remember
<1> QED
  BY <1>1, <1>2, <1>3

-----------------------------------------------------------------------------
(* What a step does to each variable.                                      *)

\* The goroutine of job k: it stays, it is over, it goes on with the same image, or
\* it has just been started, for an id that is not registered.
JobMoves(k) ==
  \/ job'[k] = job[k]
  \/ job'[k].stage \in {"done", "failed", "lost"}
  \/ /\ k \in LiveJobs /\ job'[k].stage \in Active \ {"queued"}
     /\ job'[k].id = job[k].id
     /\ job'[k].stage = "prepared" => job[k].stage = "queued"
     /\ job'[k].stage = "writing" => job[k].stage = "prepared"
  \/ /\ job[k].stage = "idle" /\ job'[k].stage = "queued"
     /\ job'[k].id \in Ids \ IdsIn(index)
     /\ UNCHANGED <<index, disk, mu, run>>

\* Every step of the server moves the jobs in one of these ways.
LEMMA ServiceMovesJobs ==
  ASSUME TypeOK, ServiceStep
  PROVE  /\ job' \in [Jobs -> JobType]
         /\ \A k \in Jobs : JobMoves(k)
<1> USE DEF JobMoves, JobType, LiveJobs, Active, Stages
<1>0. /\ job \in [Jobs -> JobType] /\ disk \in [Names -> Content]
      /\ \A j \in LiveJobs : job[j].id \in Ids
      /\ Ids \subseteq Names /\ NoFile \in Content
  BY Zenon, RepositoryAssumption, ContentTypes DEF TypeOK, ServiceTypeOK
<1>1. ASSUME NEW j \in Jobs, NEW i \in Ids, NEW source \in Sources, StartAdd(j, i, source),
             UNCHANGED run
      PROVE  job' \in [Jobs -> JobType] /\ \A k \in Jobs : JobMoves(k)
  BY <1>0, <1>1 DEF StartAdd
<1>2. ASSUME NEW j \in Jobs, job[j].stage \in Active, NEW outcome \in {"done", "failed"},
             Ends(j, outcome)
      PROVE  job' \in [Jobs -> JobType] /\ \A k \in Jobs : JobMoves(k)
  BY <1>0, <1>2 DEF Ends, Over, IdleJob
<1>3. ASSUME NEW j \in Jobs, job[j].stage \in Active, NEW stage \in Active \ {"queued"},
             stage = "prepared" => job[j].stage = "queued",
             stage = "writing" => job[j].stage = "prepared",
             To(j, stage)
      PROVE  job' \in [Jobs -> JobType] /\ \A k \in Jobs : JobMoves(k)
  BY <1>0, <1>3 DEF To
<1>4. ASSUME NEW j \in Jobs, Hash(j)
      PROVE  job' \in [Jobs -> JobType] /\ \A k \in Jobs : JobMoves(k)
  <2>1. CASE To(j, "cleaning")
    BY <1>3, <1>4, <2>1 DEF Hash
  <2>2. CASE job' = [job EXCEPT ![j].stage = "hashed", ![j].digest = disk[job[j].id]]
    <3>1. job[j].stage = "written" /\ disk[job[j].id] \in Content
      BY <1>0, <1>4 DEF Hash
    <3> QED
      BY <1>0, <2>2, <3>1
  <2> QED
    BY <1>4, <2>1, <2>2 DEF Hash
<1>5. ASSUME ServerStops
      PROVE  job' \in [Jobs -> JobType] /\ \A k \in Jobs : JobMoves(k)
  BY <1>0, <1>5 DEF ServerStops, Over, IdleJob
<1>6. ASSUME UNCHANGED job
      PROVE  job' \in [Jobs -> JobType] /\ \A k \in Jobs : JobMoves(k)
  BY <1>0, <1>6
<1>7. ASSUME NEW j \in Jobs, Prepare(j) \/ BeginWrite(j, Busy) \/ EndWrite(j) \/ LockAndRead(j)
                               \/ Register(j) \/ CleanUp(j)
      PROVE  job' \in [Jobs -> JobType] /\ \A k \in Jobs : JobMoves(k)
  <2>1. job[j].stage \in Active
    BY <1>7 DEF Prepare, BeginWrite, EndWrite, LockAndRead, Register, CleanUp
  <2>2. \/ Ends(j, "done") \/ Ends(j, "failed")
        \/ \E stage \in Active \ {"queued"} :
             /\ To(j, stage)
             /\ stage = "prepared" => job[j].stage = "queued"
             /\ stage = "writing" => job[j].stage = "prepared"
    BY <1>7 DEF Prepare, BeginWrite, EndWrite, LockAndRead, Register, CleanUp
  <2> QED
    BY <1>2, <1>3, <2>1, <2>2
<1> QED
  BY <1>1, <1>4, <1>5, <1>6, <1>7
  DEF ServiceStep, scriptVars, RequestStep, DeleteRead, UpdateRead, DeleteWrite, DeleteRemove, UpdateWrite

\* A script r: it stays, it is over, it goes on with the same image and file, or it
\* has just been started, to add an id that is not registered or to remove one.
RunMoves(r) ==
  \/ run'[r] = run[r]
  \/ run'[r].at = "ended"
  \/ /\ r \in WorkingRuns /\ run'[r].at \in Working
     /\ run'[r].op = run[r].op /\ run'[r].id = run[r].id /\ run'[r].file = run[r].file
     /\ run'[r].at \notin {"copying", "found"}
     /\ run'[r].at \in {"copied", "hashed"} => run[r].op = "add"
     /\ run'[r].at = "unlinking" => run[r].op = "remove"
  \/ /\ run[r].at = "idle" /\ run'[r].at \in {"copying", "copied"} /\ run'[r].op = "add"
     /\ run'[r].id \in Ids \ IdsIn(index) /\ run'[r].file \in Names
     /\ UNCHANGED index
  \/ /\ run[r].at = "idle" /\ run'[r].at = "found" /\ run'[r].op = "remove"
     /\ run'[r].id \in Ids /\ run'[r].file \in Names
     /\ UNCHANGED <<index, disk>>

\* The file of an image that is registered.
LEMMA FileOfName ==
  ASSUME NEW idx \in Seq(Entry), NEW i \in IdsIn(idx)
  PROVE  FileOf(idx, i) \in Names
<1>1. LastAt(idx, i) \in DOMAIN idx
  BY LastAtProperties
<1>2. idx[LastAt(idx, i)] \in Entry
  BY <1>1
<1> QED
  BY <1>2 DEF FileOf, Entry

\* One script goes on, the others stay.
LEMMA OneRun ==
  ASSUME run \in [Runs -> RunType], NEW r \in Runs, NEW rec \in RunType,
         run' = [run EXCEPT ![r] = rec]
  PROVE  run' \in [Runs -> RunType] /\ run'[r] = rec /\ \A k \in Runs \ {r} : run'[k] = run[k]
<1> DEFINE T == RunType
<1> HIDE DEF T
<1>1. run \in [Runs -> T] /\ rec \in T
  BY DEF T
<1>2. run' \in [Runs -> T] /\ run'[r] = rec /\ \A k \in Runs \ {r} : run'[k] = run[k]
  BY <1>1
<1> QED
  BY <1>2 DEF T

\* A step of a script is the step of one of them.
LEMMA OneScript ==
  ASSUME run \in [Runs -> RunType], ScriptStep
  PROVE  \E r \in Runs : \A k \in Runs \ {r} : run'[k] = run[k]
  BY DEF ScriptStep, Move, AddImage, RemoveImage, CopyEnds, ScriptHash, Edit, Unlink, Interrupt, At, Exits

\* Every step of a script moves the scripts in one of these ways.
LEMMA ScriptMovesRuns ==
  ASSUME Base, ScriptStep
  PROVE  /\ run' \in [Runs -> RunType]
         /\ \A k \in Runs : RunMoves(k)
<1> USE DEF RunMoves, RunType, WorkingRuns, Working
<1>0. /\ run \in [Runs -> RunType] /\ disk \in [Names -> Content] /\ index \in Seq(Entry)
      /\ NoFile \in Content /\ <<>> \in Seq(Entry)
      /\ \A r \in Runs :
           /\ run[r].at \in Working => run[r].id \in Ids /\ run[r].file \in Names
           /\ run[r].at \in {"copying", "copied", "hashed"} => run[r].op = "add"
           /\ run[r].at \in {"found", "unlinking"} => run[r].op = "remove"
  BY ContentTypes DEF Base, TypeOK, ServiceTypeOK
<1>1. ASSUME NEW r \in Runs, NEW i \in Ids, NEW n \in Names, AddImage(r, i, n), UNCHANGED index
      PROVE  run' \in [Runs -> RunType] /\ \A k \in Runs : RunMoves(k)
  <2>1. PICK at \in {"copying", "copied"} :
          run' = [run EXCEPT ![r] = [NotStarted EXCEPT !.at = at, !.id = i, !.file = n]]
    BY <1>1 DEF AddImage
  <2>2. run[r].at = "idle" /\ i \notin IdsIn(index)
    BY <1>1 DEF AddImage
  <2> QED
    BY <1>0, <1>1, <2>1, <2>2 DEF NotStarted
<1>2. ASSUME NEW r \in Runs, NEW i \in Ids, RemoveImage(r, i), UNCHANGED index
      PROVE  run' \in [Runs -> RunType] /\ \A k \in Runs : RunMoves(k)
  <2>1. FileOf(index, i) \in Names
    BY <1>0, <1>2, FileOfName DEF RemoveImage
  <2> DEFINE file == FileOf(index, i)
  <2> HIDE DEF file
  <2>2. /\ run' = [run EXCEPT ![r] = [NotStarted EXCEPT !.at = "found", !.op = "remove",
                                                        !.id = i, !.file = file]]
        /\ run[r].at = "idle" /\ UNCHANGED <<index, disk>> /\ file \in Names
    BY <1>2, <2>1 DEF RemoveImage, file
  <2> QED
    BY <1>0, <2>2 DEF NotStarted
<1>3. ASSUME NEW r \in Runs, Exits(r)
      PROVE  run' \in [Runs -> RunType] /\ \A k \in Runs : RunMoves(k)
  BY <1>0, <1>3 DEF Exits, NotStarted
<1>4. ASSUME NEW r \in Runs, run[r].at \in Working,
             \/ At(r, "copied") /\ run[r].op = "add"
             \/ At(r, "unlinking") /\ run[r].op = "remove"
      PROVE  run' \in [Runs -> RunType] /\ \A k \in Runs : RunMoves(k)
  <2>1. PICK place \in {"copied", "unlinking"} :
          run' = [run EXCEPT ![r] = [run[r] EXCEPT !.at = place]] /\ run[r].op \in {"add", "remove"}
          /\ (place = "copied" => run[r].op = "add") /\ (place = "unlinking" => run[r].op = "remove")
    BY <1>4 DEF At
  <2> DEFINE rec == [run[r] EXCEPT !.at = place]
  <2>2. /\ rec \in RunType /\ rec.at = place
        /\ rec.op = run[r].op /\ rec.id = run[r].id /\ rec.file = run[r].file
    BY <1>0
  <2>3. run' = [run EXCEPT ![r] = rec]
    BY <2>1
  <2> HIDE DEF rec
  <2>4. run' \in [Runs -> RunType] /\ run'[r] = rec /\ \A k \in Runs \ {r} : run'[k] = run[k]
    BY Zenon, <1>0, <2>2, <2>3, OneRun
  <2>5. RunMoves(r)
    BY <1>0, <1>4, <2>1, <2>2, <2>4
  <2> QED
    BY <2>4, <2>5
<1>5. ASSUME NEW r \in Runs, ScriptHash(r)
      PROVE  run' \in [Runs -> RunType] /\ \A k \in Runs : RunMoves(k)
  <2>1. CASE Exits(r)
    BY <1>3, <2>1
  <2>2. CASE run' = [run EXCEPT ![r].at = "hashed", ![r].digest = disk[run[r].file]]
    <3>1. run[r].at = "copied" /\ disk[run[r].file] \in Content /\ run[r].op = "add"
      BY <1>0, <1>5 DEF ScriptHash
    <3> DEFINE rec == [run[r] EXCEPT !.at = "hashed", !.digest = disk[run[r].file]]
    <3>2. /\ rec \in RunType /\ rec.at = "hashed"
          /\ rec.op = run[r].op /\ rec.id = run[r].id /\ rec.file = run[r].file
      BY <1>0, <3>1
    <3>3. run' = [run EXCEPT ![r] = rec]
      BY <2>2
    <3> HIDE DEF rec
    <3>4. run' \in [Runs -> RunType] /\ run'[r] = rec /\ \A k \in Runs \ {r} : run'[k] = run[k]
      BY Zenon, <1>0, <3>2, <3>3, OneRun
    <3>5. RunMoves(r)
      BY <1>0, <3>1, <3>2, <3>4
    <3> QED
      BY <3>4, <3>5
  <2> QED
    BY <1>5, <2>1, <2>2 DEF ScriptHash
<1>6. ASSUME NEW r \in Runs, Edit(r)
      PROVE  run' \in [Runs -> RunType] /\ \A k \in Runs : RunMoves(k)
  <2> DEFINE rec == [run[r] EXCEPT !.at = "moving", !.view = index]
  <2>1. run[r].at \in {"hashed", "found"} /\ run' = [run EXCEPT ![r] = rec]
    BY <1>6 DEF Edit
  <2>2. /\ rec \in RunType /\ rec.at = "moving"
        /\ rec.op = run[r].op /\ rec.id = run[r].id /\ rec.file = run[r].file
    BY <1>0
  <2> HIDE DEF rec
  <2>4. run' \in [Runs -> RunType] /\ run'[r] = rec /\ \A k \in Runs \ {r} : run'[k] = run[k]
    BY Zenon, <1>0, <2>1, <2>2, OneRun
  <2>5. RunMoves(r)
    BY <1>0, <2>1, <2>2, <2>4
  <2> QED
    BY <2>4, <2>5
<1> QED
  <2>1. ASSUME NEW r \in Runs, CopyEnds(r) \/ Unlink(r) \/ Interrupt(r) \/ Move(r)
        PROVE  run' \in [Runs -> RunType] /\ \A k \in Runs : RunMoves(k)
    <3>1. /\ run[r].at \in Working
          /\ \/ Exits(r)
             \/ At(r, "copied") /\ run[r].op = "add"
             \/ At(r, "unlinking") /\ run[r].op = "remove"
      BY <1>0, <2>1 DEF CopyEnds, Unlink, Interrupt, Move
    <3> QED
      BY <1>3, <1>4, <3>1
  <2> QED
    BY <1>1, <1>2, <1>5, <1>6, <2>1 DEF ScriptStep

\* The entry that job j registers.
JobEntry(j) == [id |-> job[j].id, file |-> job[j].id, digest |-> job[j].digest]

\* The entry that script r registers.
RunEntry(r) == [id |-> run[r].id, file |-> run[r].file, digest |-> run[r].digest]

\* index.json: it stays, or somebody writes back a changed snapshot and touches no
\* file.  In the service this ends the cycle under s.mu.
IndexMoves ==
  \/ index' = index
  \/ /\ UNCHANGED <<disk, run>> /\ mu' = Free
     /\ \E j \in Jobs : /\ job[j].stage = "registering" /\ job' = [job EXCEPT ![j] = Over("done")]
                        /\ index' = Append(mu.view, JobEntry(j))
  \/ /\ UNCHANGED <<disk, run, job>> /\ mu'.op = "removing"
     /\ mu.op = "delete" /\ index' = Without(mu.view, mu.id)
  \/ /\ UNCHANGED <<disk, run, job>> /\ mu' = Free
     /\ mu.op = "update" /\ index' = mu.view
  \/ /\ UNCHANGED <<disk, job, mu>>
     /\ \E r \in Runs : /\ run[r].at = "moving" /\ index' = Edited(r)
                        /\ run'[r].at \in {"ended", "unlinking"}
                        /\ \A k \in Runs \ {r} : run'[k] = run[k]

\* Every step changes index.json in one of these ways.
LEMMA StepMovesIndex ==
  ASSUME TypeOK, ServiceStep \/ ScriptStep
  PROVE  IndexMoves
<1>1. ASSUME NEW j \in Jobs, Register(j), UNCHANGED run
      PROVE  IndexMoves
  BY <1>1 DEF Register, Ends, JobEntry, IndexMoves
<1>2. ASSUME RequestStep, UNCHANGED run
      PROVE  IndexMoves
  <2>1. ASSUME DeleteWrite PROVE IndexMoves
    <3> DEFINE victim == DeletedFile(mu.view, mu.id)
    <3>1. mu.op = "delete" /\ UNCHANGED <<disk, job>>
      BY <2>1 DEF DeleteWrite
    <3>2. \/ /\ index' = Without(mu.view, mu.id)
             /\ mu' = [mu EXCEPT !.op = "removing", !.victim = victim]
          \/ UNCHANGED index
      BY <2>1 DEF DeleteWrite
    <3> HIDE DEF victim
    <3>3. mu \in MuType
      BY DEF TypeOK, ServiceTypeOK, MuType
    <3>4. ASSUME mu' = [mu EXCEPT !.op = "removing", !.victim = victim] PROVE mu'.op = "removing"
      BY <3>3, <3>4 DEF MuType
    <3> QED
      BY <1>2, <3>1, <3>2, <3>4 DEF IndexMoves
  <2> QED
    BY <1>2, <2>1 DEF RequestStep, DeleteRemove, UpdateWrite, IndexMoves
<1>3. ASSUME NEW r \in Runs, Move(r), UNCHANGED <<job, mu>>
      PROVE  IndexMoves
  <2>1. run[r].at = "moving" /\ index' = Edited(r) /\ UNCHANGED <<disk, job, mu>>
    BY <1>3 DEF Move
  <2>2. run \in [Runs -> RunType]
    BY DEF TypeOK, RunType
  <2>3. run'[r].at \in {"ended", "unlinking"} /\ \A k \in Runs \ {r} : run'[k] = run[k]
    <3>1. CASE Exits(r)
      BY <2>2, <3>1 DEF Exits, NotStarted
    <3>2. CASE At(r, "unlinking")
      BY <2>2, <3>2 DEF At, RunType
    <3> QED
      BY <1>3, <3>1, <3>2 DEF Move
  <2> QED
    BY <2>1, <2>3 DEF IndexMoves
<1>4. ASSUME UNCHANGED index
      PROVE  IndexMoves
  BY <1>4 DEF IndexMoves
<1>5. ASSUME NEW j \in Jobs, \/ Prepare(j) \/ BeginWrite(j, Busy) \/ EndWrite(j)
                             \/ Hash(j) \/ LockAndRead(j) \/ CleanUp(j)
      PROVE  UNCHANGED index
  BY <1>5 DEF Prepare, BeginWrite, EndWrite, Hash, LockAndRead, CleanUp
<1>6. CASE ServiceStep
  <2>1. ASSUME NEW j \in Jobs, NEW i \in Ids, NEW source \in Sources, StartAdd(j, i, source)
        PROVE  UNCHANGED index
    BY <2>1 DEF StartAdd
  <2>2. ASSUME NEW i \in Ids, DeleteRead(i) \/ UpdateRead(i)
        PROVE  UNCHANGED index
    BY <2>2 DEF DeleteRead, UpdateRead
  <2>3. ServerStops => UNCHANGED index
    BY DEF ServerStops
  <2> QED
    BY <1>1, <1>2, <1>4, <1>5, <1>6, <2>1, <2>2, <2>3 DEF ServiceStep, scriptVars
<1> QED
  BY <1>3, <1>4, <1>6 DEF ScriptStep

\* What is written back is a list of entries.
LEMMA IndexTyped ==
  ASSUME Base, IndexMoves
  PROVE  index' \in Seq(Entry)
<1>0. /\ index \in Seq(Entry) /\ mu.view \in Seq(Entry)
      /\ job \in [Jobs -> JobType] /\ run \in [Runs -> RunType] /\ Ids \subseteq Names
      /\ \A j \in LiveJobs : job[j].id \in Ids
      /\ \A r \in Runs : run[r].at \in Working => run[r].id \in Ids /\ run[r].file \in Names
  BY RepositoryAssumption DEF Base, TypeOK, ServiceTypeOK, JobType, RunType
<1>1. ASSUME NEW j \in Jobs, job[j].stage = "registering", index' = Append(mu.view, JobEntry(j))
      PROVE  index' \in Seq(Entry)
  <2>1. job[j].id \in Ids /\ job[j].digest \in Content
    BY <1>0, <1>1 DEF LiveJobs, Active, JobType
  <2>2. JobEntry(j) \in Entry
    BY <1>0, <2>1 DEF JobEntry, Entry
  <2> QED
    BY Zenon, <1>0, <1>1, <2>2, AppendProperties
<1>2. ASSUME NEW r \in Runs, run[r].at = "moving", index' = Edited(r)
      PROVE  index' \in Seq(Entry)
  <2>1. /\ run[r].id \in Ids /\ run[r].file \in Names /\ run[r].digest \in Content
        /\ run[r].view \in Seq(Entry)
    BY <1>0, <1>2 DEF Working, RunType
  <2>2. [id |-> run[r].id, file |-> run[r].file, digest |-> run[r].digest] \in Entry
    BY <2>1 DEF Entry
  <2>3. /\ Append(run[r].view, [id |-> run[r].id, file |-> run[r].file,
                                digest |-> run[r].digest]) \in Seq(Entry)
        /\ Without(run[r].view, run[r].id) \in Seq(Entry)
    BY Zenon, <2>1, <2>2, AppendProperties, WithoutProperties
  <2> QED
    BY <1>2, <2>3 DEF Edited
<1>3. Without(mu.view, mu.id) \in Seq(Entry)
  BY Zenon, <1>0, WithoutProperties
<1> QED
  BY <1>0, <1>1, <1>2, <1>3 DEF IndexMoves

\* Delete removes some file.
LEMMA DeletedFileName ==
  ASSUME NEW idx \in Seq(Entry), NEW i \in IdsIn(idx)
  PROVE  DeletedFile(idx, i) \in Names
<1> DEFINE kept == Without(idx, i)
           at == LastAt(idx, i)
<1>1. at \in DOMAIN idx /\ kept \in Seq(Entry) /\ FileOf(idx, i) \in Names
  BY LastAtProperties, WithoutProperties, FileOfName
<1>2. DeletedFile(idx, i) = IF at <= Len(kept) THEN kept[at].file ELSE FileOf(idx, i)
  BY Zenon DEF DeletedFile
<1> HIDE DEF kept, at
<1>3. ASSUME at <= Len(kept) PROVE kept[at].file \in Names
  <2>1. at \in 1..Len(kept)
    BY <1>1, <1>3
  <2>2. kept[at] \in Entry
    BY <1>1, <2>1
  <2> QED
    BY <2>2 DEF Entry
<1> QED
  BY <1>1, <1>2, <1>3

\* s.mu: it stays, is given back, is taken with a snapshot of the index, or its
\* holder, a request to delete, goes on to remove the file.
MuMoves ==
  \/ UNCHANGED mu
  \/ mu' = Free
  \/ /\ mu = Free /\ UNCHANGED <<index, run>>
     /\ \E op \in Cycle, i \in Ids : /\ mu' = Held(op, i)
                                     /\ op = "delete" => i \in IdsIn(index)
  \/ /\ mu.op = "delete" /\ UNCHANGED run
     /\ mu' = [mu EXCEPT !.op = "removing", !.victim = DeletedFile(mu.view, mu.id)]

\* Every step changes s.mu in one of these ways.
LEMMA StepMovesMu ==
  ASSUME TypeOK, ServiceStep \/ ScriptStep
  PROVE  MuMoves
<1>1. ASSUME NEW j \in Jobs, LockAndRead(j), UNCHANGED run
      PROVE  MuMoves
  <2>1. job[j].id \in Ids
    BY <1>1 DEF LockAndRead, TypeOK, ServiceTypeOK, LiveJobs, Active
  <2> QED
    BY <1>1, <2>1 DEF LockAndRead, Cycle, MuMoves
<1>2. ASSUME NEW i \in Ids, DeleteRead(i) \/ UpdateRead(i), UNCHANGED run
      PROVE  MuMoves
  BY <1>2 DEF DeleteRead, UpdateRead, Cycle, MuMoves
<1>3. ASSUME RequestStep, UNCHANGED run
      PROVE  MuMoves
  BY <1>3 DEF RequestStep, DeleteWrite, DeleteRemove, UpdateWrite, MuMoves
<1>4. ASSUME UNCHANGED mu \/ mu' = Free
      PROVE  MuMoves
  BY <1>4 DEF MuMoves
<1>5. ASSUME NEW j \in Jobs, \/ Prepare(j) \/ BeginWrite(j, Busy) \/ EndWrite(j)
                             \/ Hash(j) \/ Register(j) \/ CleanUp(j)
      PROVE  UNCHANGED mu \/ mu' = Free
  BY <1>5 DEF Prepare, BeginWrite, EndWrite, Hash, Register, CleanUp
<1>6. ASSUME NEW j \in Jobs, NEW i \in Ids, NEW source \in Sources, StartAdd(j, i, source)
      PROVE  UNCHANGED mu
  BY <1>6 DEF StartAdd
<1>7. ServerStops => mu' = Free
  BY DEF ServerStops
<1>8. CASE ServiceStep
  BY <1>1, <1>2, <1>3, <1>4, <1>5, <1>6, <1>7, <1>8 DEF ServiceStep, scriptVars
<1> QED
  BY <1>4, <1>8 DEF ScriptStep

\* Whoever holds s.mu has a snapshot, and knows what it is going to delete.
LEMMA MuTyped ==
  ASSUME Base, MuMoves
  PROVE  /\ mu' \in MuType
         /\ mu'.op = "free" => mu' = Free
         /\ mu'.op = "removing" => mu'.victim \in Names
         /\ mu'.op = "delete" => mu'.id \in IdsIn(mu'.view)
<1>0. /\ mu \in MuType /\ index \in Seq(Entry)
      /\ mu.op = "free" => mu = Free
      /\ mu.op = "removing" => mu.victim \in Names
      /\ mu.op = "delete" => mu.id \in IdsIn(mu.view)
  BY DEF Base, TypeOK, ServiceTypeOK, MuType
<1>1. CASE UNCHANGED mu
  BY <1>0, <1>1
<1>2. CASE mu' = Free
  BY <1>2, EmptySeq DEF Free, MuType, Cycle
<1>3. ASSUME NEW op \in Cycle, NEW i \in Ids, mu' = Held(op, i),
             op = "delete" => i \in IdsIn(index)
      PROVE  /\ mu' \in MuType
             /\ mu'.op = "free" => mu' = Free
             /\ mu'.op = "removing" => mu'.victim \in Names
             /\ mu'.op = "delete" => mu'.id \in IdsIn(mu'.view)
  BY <1>0, <1>3 DEF Held, MuType, Cycle
<1>4. CASE /\ mu.op = "delete"
           /\ mu' = [mu EXCEPT !.op = "removing", !.victim = DeletedFile(mu.view, mu.id)]
  <2>1. DeletedFile(mu.view, mu.id) \in Names
    BY <1>0, <1>4, DeletedFileName DEF MuType
  <2> QED
    BY <1>0, <1>4, <2>1 DEF MuType, Cycle
<1> QED
  BY <1>1, <1>2, <1>3, <1>4 DEF MuMoves

\* One file changes.
LEMMA OneFile ==
  ASSUME disk \in [Names -> Content], NEW n \in Names, NEW c \in Content,
         disk' = [disk EXCEPT ![n] = c]
  PROVE  disk' \in [Names -> Content]
<1> DEFINE C == Content
<1> HIDE DEF C
<1>1. disk \in [Names -> C] /\ c \in C
  BY DEF C
<1>2. disk' \in [Names -> C]
  BY <1>1
<1> QED
  BY <1>2 DEF C

\* Files keep their type.
LEMMA DiskTyped ==
  ASSUME Base, ServiceStep \/ ScriptStep
  PROVE  disk' \in [Names -> Content]
<1>0. /\ disk \in [Names -> Content] /\ Ids \subseteq Names
      /\ \A j \in LiveJobs : job[j].id \in Ids
      /\ mu.op = "removing" => mu.victim \in Names
      /\ \A r \in Runs : run[r].at \in Working => run[r].id \in Ids /\ run[r].file \in Names
  BY RepositoryAssumption DEF Base, TypeOK, ServiceTypeOK
<1>1. ASSUME NEW n \in Names, NEW w \in Writers, NEW c,
             c \in {NoFile, Created(w), Truncated(disk[n], w, Busy), Completed(disk[n], w)},
             disk' = [disk EXCEPT ![n] = c]
      PROVE  disk' \in [Names -> Content]
  <2>1. disk[n] \in Content
    BY <1>0
  <2>2. c \in Content
    BY <1>1, <2>1, ContentTypes, WhoWrites
  <2> QED
    BY Zenon, <1>0, <1>1, <2>2, OneFile
<1>2. ASSUME NEW j \in Jobs, \/ BeginWrite(j, Busy) \/ EndWrite(j) \/ CleanUp(j)
      PROVE  disk' \in [Names -> Content]
  <2>1. job[j].stage \in Active
    BY <1>2 DEF BeginWrite, EndWrite, CleanUp, Active
  <2>2. job[j].id \in Names /\ j \in Writers
    BY <1>0, <2>1, WhoWrites DEF LiveJobs
  <2>3. CASE BeginWrite(j, Busy)
    <3>1. \E c : /\ c \in {Created(j), Truncated(disk[job[j].id], j, Busy)}
                 /\ disk' = [disk EXCEPT ![job[j].id] = c]
      BY <2>3 DEF BeginWrite
    <3> QED
      BY <1>1, <2>2, <3>1
  <2>4. CASE EndWrite(j)
    <3>1. \/ UNCHANGED disk
          \/ \E c : /\ c \in {NoFile, Completed(disk[job[j].id], j)}
                    /\ disk' = [disk EXCEPT ![job[j].id] = c]
      BY <2>4 DEF EndWrite
    <3> QED
      BY <1>0, <1>1, <2>2, <3>1
  <2>5. CASE CleanUp(j)
    BY <1>1, <2>2, <2>5 DEF CleanUp
  <2> QED
    BY <1>2, <2>3, <2>4, <2>5
<1>3. ASSUME RequestStep
      PROVE  disk' \in [Names -> Content]
  <2>1. CASE mu.op = "removing" /\ disk' = [disk EXCEPT ![mu.victim] = NoFile]
    <3>1. NoFile \in Content /\ mu.victim \in Names
      BY <1>0, <2>1, ContentTypes
    <3> QED
      BY Zenon, <1>0, <2>1, <3>1, OneFile
  <2> QED
    BY <1>0, <1>3, <2>1 DEF RequestStep, DeleteWrite, DeleteRemove, UpdateWrite
<1>4. ASSUME UNCHANGED disk PROVE disk' \in [Names -> Content]
  BY <1>0, <1>4
<1>5. CASE ServiceStep
  <2>1. ASSUME NEW j \in Jobs, NEW i \in Ids, NEW source \in Sources, StartAdd(j, i, source)
        PROVE  UNCHANGED disk
    BY <2>1 DEF StartAdd
  <2>2. ASSUME NEW j \in Jobs, Prepare(j) \/ Hash(j) \/ LockAndRead(j) \/ Register(j)
        PROVE  UNCHANGED disk
    BY <2>2 DEF Prepare, Hash, LockAndRead, Register
  <2>3. ASSUME NEW i \in Ids, DeleteRead(i) \/ UpdateRead(i)
        PROVE  UNCHANGED disk
    BY <2>3 DEF DeleteRead, UpdateRead
  <2>4. ServerStops => UNCHANGED disk
    BY DEF ServerStops
  <2> QED
    BY <1>2, <1>3, <1>4, <1>5, <2>1, <2>2, <2>3, <2>4 DEF ServiceStep
<1>6. ASSUME NEW r \in Runs, NEW i \in Ids, NEW n \in Names, AddImage(r, i, n)
      PROVE  disk' \in [Names -> Content]
  <2>1. \/ UNCHANGED disk
        \/ disk' = [disk EXCEPT ![n] = Truncated(disk[n], r, Busy)]
    BY <1>6 DEF AddImage
  <2> QED
    BY <1>1, <1>4, <2>1, WhoWrites
<1>7. ASSUME NEW r \in Runs, CopyEnds(r) \/ Unlink(r)
      PROVE  disk' \in [Names -> Content]
  <2>1. run[r].file \in Names /\ r \in Writers
    BY <1>0, <1>7, WhoWrites DEF CopyEnds, Unlink, Working
  <2>2. \/ UNCHANGED disk
        \/ \E c : /\ c \in {NoFile, Completed(disk[run[r].file], r)}
                  /\ disk' = [disk EXCEPT ![run[r].file] = c]
    BY <1>7 DEF CopyEnds, Unlink
  <2> QED
    BY <1>1, <1>4, <2>1, <2>2
<1>8. CASE ScriptStep
  <2>1. ASSUME NEW r \in Runs, NEW i \in Ids, RemoveImage(r, i)
        PROVE  UNCHANGED disk
    BY <2>1 DEF RemoveImage
  <2>2. ASSUME NEW r \in Runs, ScriptHash(r) \/ Edit(r) \/ Interrupt(r) \/ Move(r)
        PROVE  UNCHANGED disk
    BY <2>2 DEF ScriptHash, Edit, Interrupt, Move
  <2> QED
    BY <1>4, <1>6, <1>7, <1>8, <2>1, <2>2 DEF ScriptStep
<1> QED
  BY <1>5, <1>8

-----------------------------------------------------------------------------
(* The types hold.                                                         *)

\* A step keeps the types and what goes with them.
LEMMA BaseStep ==
  ASSUME Base, Next
  PROVE  Base'
<1>1. TypeOK /\ (ServiceStep \/ ScriptStep) /\ Remember
  BY DEF Base, Next
<1>2. index' \in Seq(Entry)
  BY <1>1, StepMovesIndex, IndexTyped
<1>3. disk' \in [Names -> Content]
  BY <1>1, DiskTyped
<1>4. job' \in [Jobs -> JobType] /\ \A j \in LiveJobs' : job'[j].id \in Ids
  <2>1. job \in [Jobs -> JobType] /\ \A j \in LiveJobs : job[j].id \in Ids
    BY <1>1 DEF TypeOK, ServiceTypeOK, JobType
  <2>2. CASE ServiceStep
    <3>1. job' \in [Jobs -> JobType] /\ \A k \in Jobs : JobMoves(k)
      BY <1>1, <2>2, ServiceMovesJobs
    <3>2. ASSUME NEW j \in LiveJobs' PROVE job'[j].id \in Ids
      BY <2>1, <3>1 DEF JobMoves, LiveJobs, Active
    <3> QED
      BY <3>1, <3>2
  <2>3. CASE ScriptStep
    BY <2>1, <2>3 DEF ScriptStep, LiveJobs
  <2> QED
    BY <1>1, <2>2, <2>3
<1>5. /\ mu' \in MuType
      /\ mu'.op = "free" => mu' = Free
      /\ mu'.op = "removing" => mu'.victim \in Names
      /\ mu'.op = "delete" => mu'.id \in IdsIn(mu'.view)
  BY <1>1, StepMovesMu, MuTyped
<1>6. /\ run' \in [Runs -> RunType]
      /\ \A r \in Runs :
           /\ run'[r].at \in Working => run'[r].id \in Ids /\ run'[r].file \in Names
           /\ run'[r].at \in {"copying", "copied", "hashed"} => run'[r].op = "add"
           /\ run'[r].at \in {"found", "unlinking"} => run'[r].op = "remove"
  <2>1. /\ run \in [Runs -> RunType]
        /\ \A r \in Runs :
             /\ run[r].at \in Working => run[r].id \in Ids /\ run[r].file \in Names
             /\ run[r].at \in {"copying", "copied", "hashed"} => run[r].op = "add"
             /\ run[r].at \in {"found", "unlinking"} => run[r].op = "remove"
    BY DEF Base, TypeOK, RunType
  <2>2. CASE ServiceStep
    BY <2>1, <2>2 DEF ServiceStep, scriptVars
  <2>3. CASE ScriptStep
    <3>1. run' \in [Runs -> RunType] /\ \A k \in Runs : RunMoves(k)
      BY <2>3, ScriptMovesRuns
    <3>2. ASSUME NEW r \in Runs
          PROVE  /\ run'[r].at \in Working => run'[r].id \in Ids /\ run'[r].file \in Names
                 /\ run'[r].at \in {"copying", "copied", "hashed"} => run'[r].op = "add"
                 /\ run'[r].at \in {"found", "unlinking"} => run'[r].op = "remove"
      BY <2>1, <3>1 DEF RunMoves, WorkingRuns, Working
    <3> QED
      BY <3>1, <3>2
  <2> QED
    BY <1>1, <2>2, <2>3
<1>7. contestedIds' \subseteq Ids /\ contestedFiles' \subseteq Names /\ stale' \in BOOLEAN
  BY <1>1, RememberTyped
<1>8. TypeOK'
  <2>1. ServiceTypeOK'
    BY <1>2, <1>3, <1>4, <1>5 DEF ServiceTypeOK, JobType, MuType
  <2> QED
    BY <1>6, <1>7, <2>1 DEF TypeOK, RunType
<1> QED
  BY <1>5, <1>6, <1>8 DEF Base

\* The registered images of the installation.
Start == [k \in DOMAIN Installed |->
           [id |-> Installed[k], file |-> Installed[k], digest |-> Installation(Installed[k])]]

\* It is a list of entries.
LEMMA StartTyped ==
  /\ Start \in Seq(Entry) /\ DOMAIN Start = DOMAIN Installed
  /\ \A k \in DOMAIN Installed : Installed[k] \in Ids
<1>1. Installed \in Seq(Ids) /\ Ids \subseteq Names /\ Ids \subseteq Writers
  BY RepositoryAssumption
<1>2. Len(Installed) \in Nat /\ DOMAIN Installed = 1..Len(Installed)
      /\ \A k \in DOMAIN Installed : Installed[k] \in Ids
  BY <1>1
<1>3. ASSUME NEW k \in DOMAIN Installed PROVE Start[k] \in Entry
  BY <1>1, <1>2 DEF Start, Entry, Installation, Content
<1>4. Start = [k \in 1..Len(Installed) |-> Start[k]] /\ DOMAIN Start = DOMAIN Installed
  BY <1>2 DEF Start
<1>5. Start \in Seq(Entry)
  <2> DEFINE E == Entry  st == Start
  <2>1. \A k \in 1..Len(Installed) : st[k] \in E
    BY <1>2, <1>3
  <2>2. st = [k \in 1..Len(Installed) |-> st[k]]
    BY <1>4
  <2> HIDE DEF E, st
  <2>3. st \in [1..Len(Installed) -> E]
    BY <2>1, <2>2
  <2>4. st \in Seq(E)
    BY <1>2, <2>3
  <2> QED
    BY <2>4 DEF E, st
<1> QED
  BY <1>2, <1>4, <1>5

\* In the beginning, too.
LEMMA BaseInit == Init => Base
<1> SUFFICES ASSUME Init PROVE Base
  OBVIOUS
<1>1. /\ index = Start /\ mu = Free
      /\ disk = [n \in Names |-> IF n \in Range(Installed) THEN Installation(n) ELSE NoFile]
      /\ job = [j \in Jobs |-> IdleJob] /\ run = [r \in Runs |-> NotStarted]
      /\ contestedIds = {} /\ contestedFiles = {} /\ stale = FALSE
  BY DEF Init, ServiceInit, Start
<1>2. disk \in [Names -> Content]
  <2>1. Range(Installed) \subseteq Ids
    BY StartTyped DEF Range
  <2>2. \A n \in Range(Installed) : Installation(n) \in Content
    BY <2>1, RepositoryAssumption DEF Installation, Content
  <2> DEFINE C == Content
             in(n) == Installation(n)
             none == NoFile
  <2>3. none \in C /\ \A n \in Range(Installed) : in(n) \in C
    BY <2>2, ContentTypes
  <2>4. disk = [n \in Names |-> IF n \in Range(Installed) THEN in(n) ELSE none]
    BY <1>1
  <2> HIDE DEF C, in, none
  <2>5. disk \in [Names -> C]
    BY <2>3, <2>4
  <2> QED
    BY <2>5 DEF C
<1>3. job \in [Jobs -> JobType] /\ LiveJobs = {}
  BY <1>1, ContentTypes DEF IdleJob, JobType, LiveJobs, Active, Stages
<1>4. mu \in MuType /\ mu = Free /\ mu.op = "free"
  BY <1>1, EmptySeq DEF Free, MuType
<1>5. run \in [Runs -> RunType] /\ \A r \in Runs : run[r].at = "idle"
  BY <1>1, EmptySeq, ContentTypes DEF NotStarted, RunType
<1>6. ServiceTypeOK
  BY <1>1, <1>2, <1>3, <1>4, StartTyped DEF ServiceTypeOK, JobType, MuType
<1>7. TypeOK
  BY <1>1, <1>5, <1>6 DEF TypeOK, RunType
<1> QED
  BY <1>4, <1>5, <1>7 DEF Base, Working

\* A step that changes nothing.
LEMMA BaseStutter == Base /\ UNCHANGED vars => Base'
  BY DEF Base, TypeOK, ServiceTypeOK, LiveJobs, vars, serviceVars, scriptVars, history

\* The whole of it.
LEMMA BaseHolds == Spec => []Base
<1>1. Base /\ [Next]_vars => Base'
  BY BaseStep, BaseStutter
<1> QED
  BY <1>1, BaseInit, PTL DEF Spec

\* Every variable keeps its type (imagesvc.go, scripts/add-image.sh,
\* scripts/remove-image.sh): s.mu is free or its holder has a snapshot, and what
\* Delete is going to remove is a file, whatever position its pointer has.
THEOREM TypeCorrect == Spec => []TypeOK
<1>1. Base => TypeOK
  BY DEF Base
<1> QED
  BY <1>1, BaseHolds, PTL

-----------------------------------------------------------------------------
(* s.mu protects the index.                                                *)

\* The jobs that register an image.
Registering == {k \in Jobs : job[k].stage = "registering"}

\* The jobs that register stay as they are while s.mu stays.
Steady ==
  /\ UNCHANGED mu
  /\ \A k \in Jobs : /\ job'[k].stage = "registering" <=> job[k].stage = "registering"
                     /\ job[k].stage = "registering" => job'[k] = job[k]

\* Only a job that takes or gives back s.mu begins or ends to register.
LEMMA JobsAreSteady ==
  ASSUME TypeOK, NEW j \in Jobs,
         \/ \E i \in Ids, source \in Sources : StartAdd(j, i, source)
         \/ Prepare(j) \/ BeginWrite(j, Busy) \/ EndWrite(j) \/ Hash(j) \/ CleanUp(j)
  PROVE  Steady
<1>1. job \in [Jobs -> JobType]
  BY DEF TypeOK, ServiceTypeOK, JobType
<1> USE DEF JobType, Steady
<1>2. ASSUME NEW i \in Ids, NEW source \in Sources, StartAdd(j, i, source) PROVE Steady
  BY <1>1, <1>2 DEF StartAdd
<1>3. ASSUME job[j].stage # "registering", UNCHANGED mu,
             \/ Ends(j, "failed")
             \/ \E stage \in {"prepared", "writing", "written", "cleaning"} : To(j, stage)
      PROVE  Steady
  BY <1>1, <1>3 DEF Ends, To, Over, IdleJob
<1>4. ASSUME Prepare(j) \/ BeginWrite(j, Busy) \/ EndWrite(j) \/ CleanUp(j) PROVE Steady
  <2>1. /\ job[j].stage # "registering" /\ UNCHANGED mu
        /\ \/ Ends(j, "failed")
           \/ \E stage \in {"prepared", "writing", "written", "cleaning"} : To(j, stage)
    BY <1>4 DEF Prepare, BeginWrite, EndWrite, CleanUp
  <2> QED
    BY <1>3, <2>1
<1>5. ASSUME Hash(j) PROVE Steady
  <2>1. job[j].stage = "written" /\ UNCHANGED mu
    BY <1>5 DEF Hash
  <2>2. CASE To(j, "cleaning")
    BY <1>3, <2>1, <2>2
  <2>3. CASE job' = [job EXCEPT ![j].stage = "hashed", ![j].digest = disk[job[j].id]]
    BY <1>1, <2>1, <2>3
  <2> QED
    BY <1>5, <2>2, <2>3 DEF Hash
<1> QED
  BY <1>2, <1>4, <1>5

\* A step keeps Locked.
LEMMA LockedStep ==
  ASSUME TypeOK, Locked, ServiceStep \/ ScriptStep
  PROVE  Locked'
<1>0. /\ job \in [Jobs -> JobType] /\ mu \in MuType
      /\ \A j \in Jobs : job[j].stage = "registering" => mu.op = "register" /\ mu.id = job[j].id
      /\ mu.op = "register" => \E j \in Jobs : Registering = {j}
  BY DEF TypeOK, ServiceTypeOK, JobType, MuType, Locked, Registering
<1>1. ASSUME Steady PROVE Locked'
  <2>1. Registering' = Registering
    BY <1>1 DEF Steady, Registering
  <2>2. \A j \in Jobs : job'[j].stage = "registering" => mu'.op = "register" /\ mu'.id = job'[j].id
    BY <1>0, <1>1 DEF Steady
  <2>3. mu'.op = "register" => \E j \in Jobs : Registering' = {j}
    BY <1>0, <1>1, <2>1 DEF Steady
  <2> QED
    BY <2>2, <2>3 DEF Locked, Registering
<1>2. ASSUME mu.op # "register", mu'.op # "register", UNCHANGED job PROVE Locked'
  BY <1>0, <1>2 DEF Locked
<1>3. ASSUME NEW j \in Jobs, LockAndRead(j) PROVE Locked'
  <2>1. /\ mu.op = "free" /\ mu'.op = "register" /\ mu'.id = job[j].id
        /\ job' = [job EXCEPT ![j].stage = "registering"]
    BY <1>3 DEF LockAndRead, Held, Free, To
  <2>2. job'[j].stage = "registering" /\ job'[j].id = job[j].id
        /\ \A k \in Jobs \ {j} : job'[k].stage # "registering"
    BY <1>0, <2>1 DEF JobType
  <2>3. Registering' = {j}
    BY <2>2 DEF Registering
  <2>4. \A k \in Jobs : job'[k].stage = "registering" => mu'.op = "register" /\ mu'.id = job'[k].id
    BY <2>1, <2>2
  <2> QED
    BY <2>3, <2>4 DEF Locked, Registering
<1>4. ASSUME NEW j \in Jobs, Register(j) PROVE Locked'
  <2>1. Registering = {j} /\ mu' = Free
    BY <1>0, <1>4 DEF Register, Registering
  <2>2. \A k \in Jobs : job'[k].stage # "registering"
    <3>1. \A k \in Jobs \ {j} : job[k].stage # "registering"
      BY <2>1 DEF Registering
    <3>2. job'[j].stage # "registering" /\ \A k \in Jobs \ {j} : job'[k] = job[k]
      BY <1>0, <1>4 DEF Register, Ends, To, Over, IdleJob, JobType
    <3> QED
      BY <3>1, <3>2
  <2> QED
    BY <2>1, <2>2 DEF Locked, Free
<1>5. ASSUME ServerStops PROVE Locked'
  BY <1>0, <1>5 DEF ServerStops, Locked, Free, Over, IdleJob, LiveJobs, Active
<1>6. ASSUME NEW i \in Ids, DeleteRead(i) \/ UpdateRead(i) PROVE Locked'
  BY <1>2, <1>6 DEF DeleteRead, UpdateRead, Held, Free
<1>7. ASSUME RequestStep PROVE Locked'
  <2>1. UNCHANGED job /\ mu.op \in {"delete", "removing", "update"}
    BY <1>7 DEF RequestStep, DeleteWrite, DeleteRemove, UpdateWrite
  <2>2. \/ mu' = Free
        \/ mu' = [mu EXCEPT !.op = "removing", !.victim = DeletedFile(mu.view, mu.id)]
    BY <1>7 DEF RequestStep, DeleteWrite, DeleteRemove, UpdateWrite
  <2>3. mu'.op # "register"
    <3>1. mu \in MuType
      BY <1>0
    <3> DEFINE victim == DeletedFile(mu.view, mu.id)
    <3>2. mu' = Free \/ mu' = [mu EXCEPT !.op = "removing", !.victim = victim]
      BY <2>2
    <3> HIDE DEF victim
    <3>3. ASSUME mu' = Free PROVE mu'.op = "free"
      BY <3>3 DEF Free
    <3>4. ASSUME mu' = [mu EXCEPT !.op = "removing", !.victim = victim] PROVE mu'.op = "removing"
      BY <3>1, <3>4 DEF MuType
    <3> QED
      BY <3>2, <3>3, <3>4
  <2> QED
    BY <1>2, <2>1, <2>3
<1>8. CASE ServiceStep
  BY <1>1, <1>3, <1>4, <1>5, <1>6, <1>7, <1>8, JobsAreSteady DEF ServiceStep
<1>9. CASE ScriptStep
  BY <1>1, <1>9 DEF ScriptStep, Steady
<1> QED
  BY <1>8, <1>9

\* A script that has been started is never idle again.
LEMMA StartedStays ==
  ASSUME Base, ServiceStep \/ ScriptStep, \A r \in Runs : run'[r].at = "idle"
  PROVE  ServiceStep /\ \A r \in Runs : run[r].at = "idle"
<1>1. run \in [Runs -> RunType]
  BY DEF Base, TypeOK, RunType
<1>2. CASE ServiceStep
  BY <1>2 DEF ServiceStep, scriptVars
<1>3. CASE ScriptStep
  <2>1. \A k \in Runs : RunMoves(k)
    BY <1>3, ScriptMovesRuns
  <2>2. \A k \in Runs : run[k].at = "idle"
    BY <2>1 DEF RunMoves, Working
  <2>3. ASSUME NEW r \in Runs, NEW i \in Ids, NEW n \in Names, AddImage(r, i, n)
        PROVE  run'[r].at # "idle"
    BY <1>1, <2>3 DEF AddImage, NotStarted
  <2>4. ASSUME NEW r \in Runs, NEW i \in Ids, RemoveImage(r, i)
        PROVE  run'[r].at # "idle"
    BY <1>1, <2>4 DEF RemoveImage, NotStarted
  <2>5. ASSUME NEW r \in Runs
        PROVE  ~(Move(r) \/ CopyEnds(r) \/ ScriptHash(r) \/ Edit(r) \/ Unlink(r) \/ Interrupt(r))
    BY <2>2 DEF Move, CopyEnds, ScriptHash, Edit, Unlink, Interrupt, Working
  <2> QED
    BY <1>3, <2>3, <2>4, <2>5 DEF ScriptStep
<1> QED
  BY <1>2, <1>3

\* While no script is started, nobody overtakes the service.
LEMMA UndisturbedStep ==
  ASSUME Base, Undisturbed, ServiceStep \/ ScriptStep
  PROVE  Undisturbed'
<1>1. SUFFICES ASSUME \A r \in Runs : run'[r].at = "idle", mu'.op \in Cycle
               PROVE  mu'.view = index'
  BY DEF Undisturbed, ServiceOvertaken
<1>2. /\ ServiceStep /\ UNCHANGED run /\ \A r \in Runs : run[r].at = "idle"
  BY <1>1, StartedStays DEF ServiceStep, scriptVars
<1>3. mu.op \in Cycle => mu.view = index
  BY <1>2 DEF Undisturbed, ServiceOvertaken
<1>4. MuMoves /\ IndexMoves
  BY StepMovesMu, StepMovesIndex DEF Base
<1>5. CASE UNCHANGED mu
  <2>1. UNCHANGED index
    BY <1>1, <1>2, <1>4, <1>5 DEF IndexMoves, Cycle, Free
  <2> QED
    BY <1>1, <1>3, <1>5, <2>1
<1>6. CASE mu' = Free
  BY <1>1, <1>6 DEF Free, Cycle
<1>7. ASSUME NEW op \in Cycle, NEW i \in Ids, mu' = Held(op, i), UNCHANGED index
      PROVE  mu'.view = index'
  BY <1>7 DEF Held
<1>8. ASSUME mu' = [mu EXCEPT !.op = "removing", !.victim = DeletedFile(mu.view, mu.id)]
      PROVE  FALSE
  <2>1. mu \in MuType
    BY DEF Base, TypeOK, ServiceTypeOK, MuType
  <2> DEFINE victim == DeletedFile(mu.view, mu.id)
  <2>2. mu' = [mu EXCEPT !.op = "removing", !.victim = victim]
    BY <1>8
  <2> HIDE DEF victim
  <2>3. mu'.op = "removing"
    BY <2>1, <2>2 DEF MuType
  <2> QED
    BY <1>1, <2>3 DEF Cycle
<1> QED
  BY <1>4, <1>5, <1>6, <1>7, <1>8 DEF MuMoves

\* In the beginning s.mu is free.
LEMMA LockedInit == Init => Locked /\ Undisturbed
  BY DEF Init, ServiceInit, Free, IdleJob, Locked, Undisturbed, ServiceOvertaken, Cycle

\* Locked and Undisturbed hold.
LEMMA LockedHolds == Spec => [](Locked /\ Undisturbed)
<1>1. Base /\ Locked /\ Undisturbed /\ [Next]_vars => (Locked /\ Undisturbed)'
  <2>1. ASSUME Base, Locked, Undisturbed, Next PROVE (Locked /\ Undisturbed)'
    BY <2>1, LockedStep, UndisturbedStep DEF Base, Next
  <2>2. ASSUME Locked, Undisturbed, UNCHANGED vars PROVE (Locked /\ Undisturbed)'
    BY <2>2 DEF vars, serviceVars, scriptVars, Locked, Undisturbed, ServiceOvertaken
  <2> QED
    BY <2>1, <2>2
<1> QED
  BY <1>1, LockedInit, BaseHolds, PTL DEF Spec

\* s.mu (imagesvc.go) is held by one job or request at a time, is given back when its
\* holder is through or the server stops, and nobody but a script changes the index
\* under the holder.
THEOREM LockProtects == Spec => []LockProtectsIndex
<1>1. Locked /\ Undisturbed => LockProtectsIndex
  <2>1. ASSUME NEW j, Registering = {j} PROVE Cardinality(Registering) = 1
    BY <2>1, FS_Singleton
  <2> QED
    BY <2>1 DEF Locked, Undisturbed, LockProtectsIndex, Registering
<1> QED
  BY <1>1, LockedHolds, PTL

-----------------------------------------------------------------------------
(* Nothing is forgotten.                                                   *)

\* The ids of a list with one entry more.
LEMMA AppendIds ==
  ASSUME NEW idx \in Seq(Entry), NEW e \in Entry
  PROVE  IdsIn(Append(idx, e)) = IdsIn(idx) \cup {e.id}
<1>1. /\ Append(idx, e) \in Seq(Entry) /\ Len(Append(idx, e)) = Len(idx) + 1
      /\ \A k \in 1..Len(idx) : Append(idx, e)[k] = idx[k]
      /\ Append(idx, e)[Len(idx) + 1] = e
  BY AppendProperties
<1> DEFINE more == Append(idx, e)
<1>2. /\ DOMAIN idx = 1..Len(idx) /\ Len(idx) \in Nat /\ DOMAIN more = 1..(Len(idx) + 1)
  BY <1>1
<1> HIDE DEF more
<1>3. /\ Len(idx) + 1 \in DOMAIN more /\ more[Len(idx) + 1] = e
      /\ \A k \in DOMAIN idx : k \in DOMAIN more /\ more[k] = idx[k]
      /\ \A k \in DOMAIN more : k \in DOMAIN idx \/ k = Len(idx) + 1
  BY <1>1, <1>2 DEF more
<1>4. IdsIn(more) = IdsIn(idx) \cup {e.id}
  BY <1>3 DEF IdsIn
<1> QED
  BY <1>4 DEF more

\* The ids of a list without one of them.
LEMMA WithoutIds ==
  ASSUME NEW idx \in Seq(Entry), NEW i
  PROVE  IdsIn(Without(idx, i)) = IdsIn(idx) \ {i}
BY WithoutProperties

\* A step forgets no entry.
LEMMA ForgetsNothing ==
  ASSUME Base, Locked, Next, NEW i \in IdsIn(index) \ IdsIn(index')
  PROVE  Removes(i) \/ ServiceOvertaken \/ ScriptOvertaken
<1>0. /\ index \in Seq(Entry) /\ mu.view \in Seq(Entry) /\ Ids \subseteq Names
      /\ job \in [Jobs -> JobType] /\ run \in [Runs -> RunType]
      /\ \A j \in LiveJobs : job[j].id \in Ids
      /\ \A r \in Runs : run[r].at \in Working => run[r].id \in Ids /\ run[r].file \in Names
  BY RepositoryAssumption DEF Base, TypeOK, ServiceTypeOK, JobType, RunType
<1>1. IndexMoves
  BY StepMovesIndex DEF Base, Next
<1>2. SUFFICES ASSUME ~ServiceOvertaken, ~ScriptOvertaken
               PROVE  Removes(i)
  OBVIOUS
<1>3. mu.op \in Cycle => mu.view = index
  BY <1>2 DEF ServiceOvertaken
<1>4. ASSUME NEW j \in Jobs, job[j].stage = "registering", index' = Append(mu.view, JobEntry(j))
      PROVE  FALSE
  <2>1. mu.view = index
    BY <1>3, <1>4 DEF Locked, Cycle
  <2>2. JobEntry(j) \in Entry
    BY <1>0, <1>4 DEF LiveJobs, Active, JobType, JobEntry, Entry
  <2>3. IdsIn(index') = IdsIn(index) \cup {JobEntry(j).id}
    BY <1>0, <1>4, <2>1, <2>2, AppendIds
  <2> QED
    BY <2>3
<1>5. ASSUME mu.op = "delete", index' = Without(mu.view, mu.id)
      PROVE  Removes(i)
  <2>1. mu.view = index
    BY <1>3, <1>5 DEF Cycle
  <2>2. IdsIn(Without(index, mu.id)) = IdsIn(index) \ {mu.id}
    BY <1>0, WithoutIds
  <2> QED
    BY <1>5, <2>1, <2>2 DEF Removes
<1>6. ASSUME mu.op = "update", index' = mu.view PROVE FALSE
  BY <1>3, <1>6 DEF Cycle
<1>7. ASSUME NEW r \in Runs, run[r].at = "moving", index' = Edited(r)
      PROVE  Removes(i)
  <2>1. run[r].view = index
    BY <1>2, <1>7 DEF ScriptOvertaken
  <2>2. CASE run[r].op = "add"
    <3> DEFINE e == [id |-> run[r].id, file |-> run[r].file, digest |-> run[r].digest]
    <3>1. e \in Entry
      BY <1>0, <1>7 DEF Working, RunType, Entry
    <3>2. index' = Append(index, e)
      BY <1>7, <2>1, <2>2 DEF Edited
    <3> HIDE DEF e
    <3>3. IdsIn(index') = IdsIn(index) \cup {e.id}
      BY <1>0, <3>1, <3>2, AppendIds
    <3> QED
      BY <3>3
  <2>3. CASE run[r].op # "add"
    <3>1. run[r].op = "remove" /\ index' = Without(index, run[r].id)
      BY <1>0, <1>7, <2>1, <2>3 DEF Edited, RunType
    <3>2. IdsIn(Without(index, run[r].id)) = IdsIn(index) \ {run[r].id}
      BY <1>0, WithoutIds
    <3> QED
      BY <1>7, <3>1, <3>2 DEF Removes
  <2> QED
    BY <2>2, <2>3
<1> QED
  BY <1>1, <1>4, <1>5, <1>6, <1>7 DEF IndexMoves

\* An image leaves index.json when it is deleted or removed, and otherwise only when
\* a snapshot is written back that has been overtaken (imagesvc.go, the scripts).
THEOREM NothingIsForgotten == Spec => NothingForgotten
<1>1. ASSUME Base, Locked, [Next]_vars
      PROVE  [\A i \in IdsIn(index) \ IdsIn(index') :
                Removes(i) \/ ServiceOvertaken \/ ScriptOvertaken]_vars
  <2>1. CASE Next
    BY <1>1, <2>1, ForgetsNothing
  <2>2. CASE UNCHANGED vars
    BY <2>2
  <2> QED
    BY <1>1, <2>1, <2>2
<1> QED
  BY <1>1, BaseHolds, LockedHolds, PTL DEF Spec, NothingForgotten

-----------------------------------------------------------------------------
(* What is remembered.                                                     *)

\* A set that does not have more than one element.
LEMMA OneAtMost ==
  ASSUME NEW S, IsFiniteSet(S), ~(Cardinality(S) > 1)
  PROVE  \A x, y \in S : x = y
<1> SUFFICES ASSUME NEW x \in S, NEW y \in S, x # y PROVE FALSE
  OBVIOUS
<1>1. IsFiniteSet({x}) /\ Cardinality({x}) = 1
  BY FS_Singleton
<1>2. IsFiniteSet({x} \cup {y}) /\ Cardinality({x} \cup {y}) = 2
  <2> DEFINE X == {x}
  <2>1. y \notin X
    OBVIOUS
  <2>2. IsFiniteSet(X) /\ Cardinality(X) = 1
    BY <1>1
  <2> HIDE DEF X
  <2>3. /\ IsFiniteSet(X \cup {y})
        /\ Cardinality(X \cup {y}) = IF y \in X THEN Cardinality(X) ELSE Cardinality(X) + 1
    BY Zenon, <2>2, FS_AddElement
  <2>4. IsFiniteSet(X \cup {y}) /\ Cardinality(X \cup {y}) = 2
    BY <2>1, <2>2, <2>3
  <2> QED
    BY <2>4 DEF X
<1>3. Cardinality({x} \cup {y}) <= Cardinality(S)
  BY FS_Subset
<1>4. Cardinality(S) \in Nat
  BY FS_CardinalityType
<1> QED
  BY <1>2, <1>3, <1>4

\* Jobs and scripts are finite in number.
LEMMA AdditionsFinite ==
  \A i : IsFiniteSet(Additions(i)) /\ IsFiniteSet(Additions(i)')
<1>1. IsFiniteSet(Jobs \cup Runs)
  BY Zenon, FS_Union, RepositoryAssumption, RunsAssumption
<1>2. \A i : Additions(i) \subseteq Jobs \cup Runs /\ Additions(i)' \subseteq Jobs \cup Runs
  BY DEF Additions, LiveJobs, WorkingRuns
<1> QED
  BY <1>1, <1>2, FS_Subset

FewUsers == \A n : IsFiniteSet(Users(n))

\* Each of the four kinds of users is finite in number.
LEMMA UsersFinite == Base => FewUsers
<1> SUFFICES ASSUME index \in Seq(Entry), NEW n PROVE IsFiniteSet(Users(n))
  BY DEF Base, TypeOK, ServiceTypeOK, FewUsers
<1> DEFINE E == {"entry"} \X DOMAIN index
           J == {"job"} \X Jobs
           R == {"run"} \X Runs
           D == {<<"delete", mu>>}
<1>1. IsFiniteSet(DOMAIN index)
  <2>1. Len(index) \in Nat /\ DOMAIN index = 1..Len(index)
    OBVIOUS
  <2> QED
    BY <2>1, FS_Interval
<1>2. /\ IsFiniteSet({"entry"}) /\ IsFiniteSet({"job"}) /\ IsFiniteSet({"run"}) /\ IsFiniteSet(D)
      /\ IsFiniteSet(Jobs) /\ IsFiniteSet(Runs)
  BY Zenon, FS_Singleton, RepositoryAssumption, RunsAssumption
<1>3. IsFiniteSet(E) /\ IsFiniteSet(J) /\ IsFiniteSet(R)
  BY Zenon, <1>1, <1>2, FS_Product
<1>4. Users(n) \subseteq ((E \cup J) \cup R) \cup D
  BY DEF Users, LiveJobs, WorkingRuns
<1> HIDE DEF E, J, R, D
<1>5. IsFiniteSet(((E \cup J) \cup R) \cup D)
  BY Zenon, <1>2, <1>3, FS_Union
<1> QED
  BY <1>4, <1>5, FS_Subset

\* An id that is not marked as contested after a step has one addition at most.
LEMMA UncontestedId ==
  ASSUME Remember, NEW i \in Ids \ contestedIds'
  PROVE  i \notin contestedIds /\ \A x, y \in Additions(i)' : x = y
<1>1. i \notin contestedIds /\ ~(Cardinality(Additions(i)') > 1)
  BY DEF Remember, Contested
<1>2. IsFiniteSet(Additions(i)')
  BY AdditionsFinite
<1> QED
  BY <1>1, <1>2, OneAtMost

\* A file that is not marked as contested after a step has one user at most.
LEMMA UncontestedFile ==
  ASSUME Remember, Base', NEW n \in Names \ contestedFiles'
  PROVE  n \notin contestedFiles /\ \A x, y \in Users(n)' : x = y
<1>1. n \notin contestedFiles /\ ~(Cardinality(Users(n)') > 1)
  BY DEF Remember, Contested
<1>2. IsFiniteSet(Users(n)')
  <2>1. Base'
    OBVIOUS
  <2>2. FewUsers'
    BY <2>1, UsersFinite, PTL
  <2> QED
    BY <2>2 DEF FewUsers
<1> QED
  BY <1>1, <1>2, OneAtMost

\* Remember keeps a record of what the invariant says of it.
LEMMA RememberStep ==
  ASSUME Base, Next
  PROVE  Remembered' /\ UsedAlone'
<1>1. Remember /\ Base'
  BY BaseStep DEF Next
<1>2. Remembered'
  BY <1>1 DEF Remember, Remembered
<1>3. UsedAlone'
  BY <1>1, UncontestedFile DEF UsedAlone
<1> QED
  BY <1>2, <1>3

-----------------------------------------------------------------------------
(* An id is registered once.                                               *)

\* An addition of an image goes on, or has just begun, when the image is not
\* registered.
LEMMA AdditionsMove ==
  ASSUME Base, ServiceStep \/ ScriptStep, NEW i, NEW x \in Additions(i)'
  PROVE  x \in Additions(i) \/ (i \notin IdsIn(index) /\ UNCHANGED index)
<1>1. \/ x \in Jobs /\ job'[x].stage \in Active /\ job'[x].id = i
      \/ x \in Runs /\ run'[x].at \in Working /\ run'[x].op = "add" /\ run'[x].id = i
  BY DEF Additions, LiveJobs, WorkingRuns
<1>2. CASE ServiceStep
  <2>1. CASE x \in Jobs /\ job'[x].stage \in Active /\ job'[x].id = i
    <3>1. JobMoves(x)
      BY <1>2, <2>1, ServiceMovesJobs DEF Base
    <3>2. \/ x \in LiveJobs /\ job[x].id = i
          \/ i \notin IdsIn(index) /\ UNCHANGED index
      BY <2>1, <3>1 DEF JobMoves, LiveJobs, Active
    <3> QED
      BY <3>2 DEF Additions
  <2>2. CASE x \in Runs /\ run'[x].at \in Working /\ run'[x].op = "add" /\ run'[x].id = i
    BY <1>2, <2>2 DEF ServiceStep, scriptVars, Additions, WorkingRuns
  <2> QED
    BY <1>1, <2>1, <2>2
<1>3. CASE ScriptStep
  <2>1. CASE x \in Jobs /\ job'[x].stage \in Active /\ job'[x].id = i
    BY <1>3, <2>1 DEF ScriptStep, Additions, LiveJobs
  <2>2. CASE x \in Runs /\ run'[x].at \in Working /\ run'[x].op = "add" /\ run'[x].id = i
    <3>1. RunMoves(x)
      BY <1>3, <2>2, ScriptMovesRuns
    <3>2. \/ x \in WorkingRuns /\ run[x].op = "add" /\ run[x].id = i
          \/ i \notin IdsIn(index) /\ UNCHANGED index
      BY <2>2, <3>1 DEF RunMoves, WorkingRuns, Working
    <3> QED
      BY <3>2 DEF Additions
  <2> QED
    BY <1>1, <2>1, <2>2
<1> QED
  BY <1>2, <1>3

\* While no snapshot has been overtaken, a step leaves the index as it is, drops an
\* id, or adds what a job or a script has been adding.
IndexStays ==
  \/ index' = index
  \/ \E i \in Ids : UNCHANGED disk /\ index' = Without(index, i)
  \/ \E j \in Jobs : /\ UNCHANGED <<disk, run>> /\ job' = [job EXCEPT ![j] = Over("done")]
                     /\ job[j].stage = "registering" /\ JobEntry(j) \in Entry
                     /\ index' = Append(index, JobEntry(j))
  \/ \E r \in Runs : /\ UNCHANGED <<disk, job>>
                     /\ \A k \in Runs \ {r} : run'[k] = run[k]
                     /\ run[r].at = "moving" /\ run[r].op = "add"
                     /\ (run'[r].at = "ended" \/ run'[r].op = "remove")
                     /\ RunEntry(r) \in Entry
                     /\ index' = Append(index, RunEntry(r))

\* Every step does one of these.
LEMMA FreshSnapshots ==
  ASSUME Base, Locked, ~ServiceOvertaken, ~ScriptOvertaken, Next
  PROVE  IndexStays
<1>0. /\ index \in Seq(Entry) /\ mu \in MuType /\ Ids \subseteq Names
      /\ job \in [Jobs -> JobType] /\ run \in [Runs -> RunType]
      /\ \A j \in LiveJobs : job[j].id \in Ids
      /\ \A r \in Runs : run[r].at \in Working => run[r].id \in Ids /\ run[r].file \in Names
  BY RepositoryAssumption DEF Base, TypeOK, ServiceTypeOK, MuType, JobType, RunType
<1>1. IndexMoves /\ Base'
  BY StepMovesIndex, BaseStep DEF Base, Next
<1>2. mu.op \in Cycle => mu.view = index
  BY DEF ServiceOvertaken
<1>3. ASSUME NEW j \in Jobs, job[j].stage = "registering", UNCHANGED <<disk, run>>,
             job' = [job EXCEPT ![j] = Over("done")], index' = Append(mu.view, JobEntry(j))
      PROVE  IndexStays
  <2>1. mu.view = index
    BY <1>2, <1>3 DEF Locked, Cycle
  <2>2. JobEntry(j) \in Entry
    BY <1>0, <1>3 DEF LiveJobs, Active, JobType, JobEntry, Entry
  <2> QED
    BY <1>3, <2>1, <2>2 DEF IndexStays
<1>4. ASSUME mu.op = "delete", index' = Without(mu.view, mu.id), UNCHANGED disk
      PROVE  IndexStays
  <2>1. mu.view = index
    BY <1>2, <1>4 DEF Cycle
  <2>2. mu.id \in Ids
    <3>1. mu.id \in IdsIn(index)
      BY <1>4, <2>1 DEF Base
    <3>2. \A k \in DOMAIN index : index[k] \in Entry
      BY <1>0
    <3> QED
      BY <3>1, <3>2 DEF IdsIn, Entry
  <2> QED
    BY <1>4, <2>1, <2>2 DEF IndexStays
<1>5. ASSUME mu.op = "update", index' = mu.view PROVE IndexStays
  BY <1>2, <1>5 DEF Cycle, IndexStays
<1>6. ASSUME NEW r \in Runs, run[r].at = "moving", index' = Edited(r), UNCHANGED <<disk, job>>,
             run'[r].at \in {"ended", "unlinking"}, \A k \in Runs \ {r} : run'[k] = run[k]
      PROVE  IndexStays
  <2>1. run[r].view = index
    BY <1>6 DEF ScriptOvertaken
  <2>2. run[r].id \in Ids
    BY <1>0, <1>6 DEF Working
  <2>3. CASE run[r].op = "add"
    <3>1. RunEntry(r) \in Entry
      BY <1>0, <1>6 DEF Working, RunType, Entry, RunEntry
    <3>2. index' = Append(index, RunEntry(r))
      BY <1>6, <2>1, <2>3 DEF Edited, RunEntry
    <3>3. run'[r].at = "ended" \/ run'[r].op = "remove"
      BY <1>1, <1>6 DEF Base
    <3> QED
      BY <1>6, <2>3, <3>1, <3>2, <3>3 DEF IndexStays
  <2>4. CASE run[r].op # "add"
    BY <1>6, <2>1, <2>2, <2>4 DEF Edited, IndexStays
  <2> QED
    BY <2>3, <2>4
<1>7. index' = index => IndexStays
  BY DEF IndexStays
<1> QED
  BY <1>1, <1>3, <1>4, <1>5, <1>6, <1>7 DEF IndexMoves

\* A step keeps AddedOnce.
LEMMA AddedOnceStep ==
  ASSUME Base, Locked, Remembered, AddedOnce, Next
  PROVE  AddedOnce'
<1>0. Remember /\ (ServiceStep \/ ScriptStep) /\ (stale => stale') /\ index \in Seq(Entry)
      /\ job \in [Jobs -> JobType]
  BY RememberTyped DEF Next, Base, TypeOK, ServiceTypeOK, JobType
<1>1. ASSUME NEW i \in Ids \ contestedIds'
      PROVE  i \notin contestedIds /\ \A x, y \in Additions(i)' : x = y
  BY <1>0, <1>1, UncontestedId
<1>2. ASSUME NEW i \in Ids \ contestedIds', ~stale', NEW x \in Additions(i)', i \in IdsIn(index')
      PROVE  FALSE
  <2>1. i \notin contestedIds /\ ~stale /\ ~ServiceOvertaken /\ ~ScriptOvertaken
    BY <1>0, <1>1, <1>2 DEF Remembered
  <2>2. /\ \A y, z \in Additions(i) : y = z
        /\ Additions(i) = {} \/ i \notin IdsIn(index)
    BY <2>1 DEF AddedOnce
  <2>3. x \in Additions(i) /\ i \notin IdsIn(index)
    BY <1>0, <1>2, <2>2, AdditionsMove
  <2>4. IndexStays
    BY <2>1, FreshSnapshots
  <2>5. ASSUME NEW k \in Ids, index' = Without(index, k) PROVE FALSE
    <3>1. IdsIn(index') = IdsIn(index) \ {k}
      BY <1>0, <2>5, WithoutIds
    <3> QED
      BY <1>2, <2>3, <3>1
  <2>6. ASSUME NEW j \in Jobs, job' = [job EXCEPT ![j] = Over("done")],
               job[j].stage = "registering", JobEntry(j) \in Entry,
               index' = Append(index, JobEntry(j))
        PROVE  FALSE
    <3>1. IdsIn(index') = IdsIn(index) \cup {JobEntry(j).id}
      BY <1>0, <2>6, AppendIds
    <3>2. job[j].id = i
      BY <1>2, <2>3, <3>1 DEF JobEntry
    <3>3. j \in Additions(i)
      BY <2>6, <3>2 DEF Additions, LiveJobs, Active
    <3>4. x = j
      BY <2>2, <2>3, <3>3
    <3>5. job'[j].stage = "done" /\ j \notin Runs
      BY <1>0, <2>6, RunsAssumption DEF Over, IdleJob
    <3> QED
      BY <1>2, <3>4, <3>5 DEF Additions, LiveJobs, Active, WorkingRuns
  <2>7. ASSUME NEW r \in Runs, run[r].at = "moving", run[r].op = "add",
               run'[r].at = "ended" \/ run'[r].op = "remove", RunEntry(r) \in Entry,
               index' = Append(index, RunEntry(r))
        PROVE  FALSE
    <3>1. IdsIn(index') = IdsIn(index) \cup {RunEntry(r).id}
      BY <1>0, <2>7, AppendIds
    <3>2. run[r].id = i
      BY <1>2, <2>3, <3>1 DEF RunEntry
    <3>3. r \in Additions(i)
      BY <2>7, <3>2 DEF Additions, WorkingRuns, Working
    <3>4. x = r /\ r \notin Jobs
      BY <2>2, <2>3, <3>3, RunsAssumption
    <3> QED
      BY <1>2, <2>7, <3>4 DEF Additions, LiveJobs, WorkingRuns, Working
  <2>8. index' # index
    BY <1>2, <2>3
  <2> QED
    <3>1. CASE \E k \in Ids : index' = Without(index, k)
      BY <2>5, <3>1
    <3>2. CASE \E j \in Jobs : /\ job' = [job EXCEPT ![j] = Over("done")]
                              /\ job[j].stage = "registering" /\ JobEntry(j) \in Entry
                              /\ index' = Append(index, JobEntry(j))
      BY Zenon, <2>6, <3>2
    <3>3. CASE \E r \in Runs : /\ run[r].at = "moving" /\ run[r].op = "add"
                              /\ (run'[r].at = "ended" \/ run'[r].op = "remove")
                              /\ RunEntry(r) \in Entry
                              /\ index' = Append(index, RunEntry(r))
      BY Zenon, <2>7, <3>3
    <3> QED
      BY <2>4, <2>8, <3>1, <3>2, <3>3 DEF IndexStays
<1> QED
  BY <1>1, <1>2 DEF AddedOnce

\* No id outside S is twice in the list.
OnceBut(idx, S) ==
  \A k, l \in DOMAIN idx : k # l /\ idx[k].id = idx[l].id => idx[k].id \in S

\* An entry more.
LEMMA AppendOnce ==
  ASSUME NEW idx \in Seq(Entry), NEW e \in Entry, NEW S, OnceBut(idx, S),
         e.id \in IdsIn(idx) => e.id \in S
  PROVE  OnceBut(Append(idx, e), S)
<1> DEFINE more == Append(idx, e)
           last == Len(idx) + 1
<1>1. /\ more \in Seq(Entry) /\ Len(more) = Len(idx) + 1
      /\ \A k \in 1..Len(idx) : more[k] = idx[k]
      /\ more[Len(idx) + 1] = e
  BY AppendProperties
<1>2. /\ DOMAIN idx = 1..Len(idx) /\ Len(idx) \in Nat /\ DOMAIN more = 1..(Len(idx) + 1)
  BY <1>1
<1> HIDE DEF more
<1>3. /\ more[last] = e
      /\ \A k \in DOMAIN more : k = last \/ (k \in DOMAIN idx /\ more[k] = idx[k])
  BY <1>1, <1>2
<1> HIDE DEF last
<1>4. ASSUME NEW k \in DOMAIN more, NEW l \in DOMAIN more, k # l, more[k].id = more[l].id
      PROVE  more[k].id \in S
  <2>1. CASE k \in DOMAIN idx /\ l \in DOMAIN idx /\ more[k] = idx[k] /\ more[l] = idx[l]
    BY <1>4, <2>1 DEF OnceBut
  <2>2. CASE k = last /\ l \in DOMAIN idx /\ more[l] = idx[l]
    BY <1>3, <1>4, <2>2 DEF IdsIn
  <2>3. CASE l = last /\ k \in DOMAIN idx /\ more[k] = idx[k]
    BY <1>3, <1>4, <2>3 DEF IdsIn
  <2> QED
    BY <1>3, <1>4, <2>1, <2>2, <2>3
<1>5. OnceBut(more, S)
  BY <1>4 DEF OnceBut
<1> QED
  BY <1>5 DEF more

\* The entries with one id less.
LEMMA WithoutOnce ==
  ASSUME NEW idx \in Seq(Entry), NEW i, NEW S, OnceBut(idx, S)
  PROVE  OnceBut(Without(idx, i), S)
<1> DEFINE w == Without(idx, i)
<1>1. \A k, l \in DOMAIN w : k # l =>
        \E m, n \in DOMAIN idx : m # n /\ w[k] = idx[m] /\ w[l] = idx[n]
  BY WithoutProperties
<1> HIDE DEF w
<1>2. OnceBut(w, S)
  BY <1>1 DEF OnceBut
<1> QED
  BY <1>2 DEF w

\* What RegisteredOnce says.
LEMMA OnceMeans == RegisteredOnce <=> stale \/ OnceBut(index, contestedIds)
  BY DEF RegisteredOnce, OnceBut

\* A step keeps RegisteredOnce.
LEMMA RegisteredOnceStep ==
  ASSUME Base, Locked, Remembered, AddedOnce, RegisteredOnce, Next
  PROVE  RegisteredOnce'
<1>0. /\ (stale => stale') /\ contestedIds \subseteq contestedIds' /\ index \in Seq(Entry)
  BY RememberTyped DEF Next, Base, TypeOK, ServiceTypeOK
<1>1. SUFFICES ASSUME ~stale' PROVE OnceBut(index', contestedIds')
  BY DEF RegisteredOnce, OnceBut
<1>2. OnceBut(index, contestedIds) /\ ~ServiceOvertaken /\ ~ScriptOvertaken
  BY <1>0, <1>1, OnceMeans DEF Remembered
<1>3. SUFFICES OnceBut(index', contestedIds)
  BY <1>0 DEF OnceBut
<1>4. IndexStays
  BY <1>2, FreshSnapshots
<1>5. ASSUME NEW i \in Ids, Additions(i) # {} PROVE i \in IdsIn(index) => i \in contestedIds
  BY <1>0, <1>1, <1>5 DEF AddedOnce
<1>6. ASSUME NEW j \in Jobs, job[j].stage = "registering", JobEntry(j) \in Entry,
             index' = Append(index, JobEntry(j))
      PROVE  OnceBut(index', contestedIds)
  <2>1. JobEntry(j).id \in Ids /\ JobEntry(j).id = job[j].id
    BY <1>6 DEF JobEntry, Entry
  <2>2. j \in Additions(job[j].id)
    BY <1>6 DEF Additions, LiveJobs, Active
  <2>3. JobEntry(j).id \in IdsIn(index) => JobEntry(j).id \in contestedIds
    BY <1>5, <2>1, <2>2
  <2> QED
    BY <1>0, <1>2, <1>6, <2>3, AppendOnce
<1>7. ASSUME NEW r \in Runs, run[r].at = "moving", run[r].op = "add", RunEntry(r) \in Entry,
             index' = Append(index, RunEntry(r))
      PROVE  OnceBut(index', contestedIds)
  <2>1. RunEntry(r).id \in Ids /\ RunEntry(r).id = run[r].id
    BY <1>7 DEF RunEntry, Entry
  <2>2. r \in Additions(run[r].id)
    BY <1>7 DEF Additions, WorkingRuns, Working
  <2>3. RunEntry(r).id \in IdsIn(index) => RunEntry(r).id \in contestedIds
    BY <1>5, <2>1, <2>2
  <2> QED
    BY <1>0, <1>2, <1>7, <2>3, AppendOnce
<1>8. \A i : OnceBut(Without(index, i), contestedIds)
  BY <1>0, <1>2, WithoutOnce
<1> QED
  BY <1>2, <1>4, <1>6, <1>7, <1>8 DEF IndexStays

\* In the beginning nothing is under way and every image is registered once.
LEMMA OnceInit == Init => Remembered /\ AddedOnce /\ UsedAlone /\ RegisteredOnce
<1> SUFFICES ASSUME Init PROVE Remembered /\ AddedOnce /\ UsedAlone /\ RegisteredOnce
  OBVIOUS
<1>1. /\ index = Start /\ mu = Free /\ job = [j \in Jobs |-> IdleJob]
      /\ run = [r \in Runs |-> NotStarted] /\ stale = FALSE
  BY DEF Init, ServiceInit, Start
<1>2. LiveJobs = {} /\ WorkingRuns = {}
  BY <1>1 DEF LiveJobs, WorkingRuns, IdleJob, NotStarted, Active, Working
<1>3. /\ DOMAIN index = DOMAIN Installed
      /\ \A k \in DOMAIN index : index[k].id = Installed[k] /\ index[k].file = Installed[k]
      /\ \A k, l \in DOMAIN index : Installed[k] = Installed[l] => k = l
  <2>1. DOMAIN Start = DOMAIN Installed
    BY StartTyped
  <2>2. \A k \in DOMAIN Installed : Start[k].id = Installed[k] /\ Start[k].file = Installed[k]
    BY DEF Start
  <2> QED
    BY Zenon, <1>1, <2>1, <2>2, RepositoryAssumption
<1>4. Remembered
  BY <1>1 DEF Remembered, ServiceOvertaken, ScriptOvertaken, Free, Cycle, NotStarted
<1>5. AddedOnce
  BY <1>2 DEF AddedOnce, Additions
<1>6. UsedAlone
  <2>1. mu.op # "removing"
    BY <1>1 DEF Free
  <2>2. ASSUME NEW n, NEW x \in Users(n)
        PROVE  \E k \in DOMAIN index : index[k].file = n /\ x = <<"entry", k>>
    BY <1>2, <2>1, <2>2 DEF Users
  <2> QED
    BY <1>3, <2>2 DEF UsedAlone
<1>7. RegisteredOnce
  BY <1>3 DEF RegisteredOnce
<1> QED
  BY <1>4, <1>5, <1>6, <1>7

\* What the duplicate checks guarantee.
LEMMA AddedOnceHolds == Spec => [](Remembered /\ AddedOnce /\ UsedAlone /\ RegisteredOnce)
<1> DEFINE Once == Remembered /\ AddedOnce /\ UsedAlone /\ RegisteredOnce
<1>1. Init => Once
  BY OnceInit
<1>2. Base /\ Locked /\ Once /\ [Next]_vars => Once'
  <2>1. ASSUME Base, Locked, Once, Next PROVE Once'
    BY <2>1, RememberStep, AddedOnceStep, RegisteredOnceStep
  <2>2. ASSUME Once, UNCHANGED vars PROVE Once'
    BY <2>2 DEF vars, serviceVars, scriptVars, history, Remembered, AddedOnce, UsedAlone, RegisteredOnce,
                ServiceOvertaken, ScriptOvertaken, Additions, Users, LiveJobs, WorkingRuns
  <2> QED
    BY <2>1, <2>2
<1> HIDE DEF Once
<1>3. Spec => []Once
  BY <1>1, <1>2, BaseHolds, LockedHolds, PTL DEF Spec
<1> QED
  BY <1>3, PTL DEF Once

\* An id is registered once (imagesvc.go, scripts/add-image.sh), unless two additions
\* of it have overlapped or an overtaken snapshot was written back: the duplicate
\* check of either program comes long before its registration.
THEOREM OnceRegistered == Spec => []RegisteredOnce
<1>1. Remembered /\ AddedOnce /\ UsedAlone /\ RegisteredOnce => RegisteredOnce
  OBVIOUS
<1> QED
  BY <1>1, AddedOnceHolds, PTL

-----------------------------------------------------------------------------
(* What a step does to files.                                              *)

\* How a live job that moves stands to its file.
JobAdvances(j) ==
  \/ job'[j].stage \in {"queued", "prepared", "cleaning"}
  \/ /\ job[j].stage = "prepared" /\ job'[j].stage = "writing" /\ job'[j].id = job[j].id
     /\ disk'[job[j].id] \in {Created(j), Truncated(disk[job[j].id], j, Busy)}
  \/ /\ job[j].stage = "writing" /\ job'[j].stage = "written" /\ job'[j].id = job[j].id
     /\ disk'[job[j].id] = Completed(disk[job[j].id], j)
  \/ /\ job[j].stage = "written" /\ job'[j].stage = "hashed" /\ job'[j].id = job[j].id
     /\ UNCHANGED disk /\ job'[j].digest = disk[job[j].id]
  \/ /\ job[j].stage = "hashed" /\ job'[j].stage = "registering" /\ job'[j].id = job[j].id
     /\ UNCHANGED disk /\ job'[j].digest = job[j].digest

\* A live job that moves does it in one of these ways.
LEMMA JobsAdvance ==
  ASSUME Base, ServiceStep, NEW j \in LiveJobs', job'[j] # job[j]
  PROVE  JobAdvances(j)
<1>0. /\ job \in [Jobs -> JobType] /\ disk \in [Names -> Content] /\ Ids \subseteq Names
      /\ \A k \in LiveJobs : job[k].id \in Ids
      /\ j \in Jobs /\ job'[j].stage \in Active
  BY RepositoryAssumption DEF Base, TypeOK, ServiceTypeOK, JobType, LiveJobs
<1>1. ASSUME NEW k \in Jobs, \/ Ends(k, "failed") \/ Ends(k, "done") \/ To(k, "prepared") \/ To(k, "cleaning")
                             \/ \E i \in Ids, source \in Sources : StartAdd(k, i, source)
      PROVE  JobAdvances(j)
  <2>1. k = j
    BY <1>0, <1>1 DEF Ends, To, StartAdd
  <2> QED
    BY <1>0, <1>1, <2>1 DEF Ends, To, StartAdd, Over, IdleJob, JobType, Active, JobAdvances
<1>2. ASSUME NEW k \in Jobs, BeginWrite(k, Busy) PROVE JobAdvances(j)
  <2>1. job' = [job EXCEPT ![k].stage = "writing"] /\ job[k].stage = "prepared"
    BY <1>2 DEF BeginWrite, To
  <2>2. k = j /\ job[j].id \in Names
    BY <1>0, <2>1 DEF LiveJobs, Active
  <2>3. job'[j].stage = "writing" /\ job'[j].id = job[j].id
    BY <1>0, <2>1, <2>2 DEF JobType
  <2>4. disk'[job[j].id] \in {Created(j), Truncated(disk[job[j].id], j, Busy)}
    BY <1>0, <1>2, <2>2 DEF BeginWrite
  <2> QED
    BY <2>1, <2>2, <2>3, <2>4 DEF JobAdvances
<1>3. ASSUME NEW k \in Jobs, EndWrite(k) PROVE JobAdvances(j)
  <2>1. CASE job' = [job EXCEPT ![k].stage = "written"] /\ job[k].stage = "writing"
             /\ disk' = [disk EXCEPT ![job[k].id] = Completed(disk[job[k].id], k)]
    <3>1. k = j /\ job[j].id \in Names
      BY <1>0, <2>1 DEF LiveJobs, Active
    <3>2. job'[j].stage = "written" /\ job'[j].id = job[j].id
      BY <1>0, <2>1, <3>1 DEF JobType
    <3>3. disk'[job[j].id] = Completed(disk[job[j].id], j)
      BY <1>0, <2>1, <3>1
    <3> QED
      BY <2>1, <3>1, <3>2, <3>3 DEF JobAdvances
  <2> QED
    BY <1>1, <1>3, <2>1 DEF EndWrite, To
<1>4. ASSUME NEW k \in Jobs, Hash(k) PROVE JobAdvances(j)
  <2>1. CASE job' = [job EXCEPT ![k].stage = "hashed", ![k].digest = disk[job[k].id]]
    <3>1. k = j
      BY <1>0, <2>1
    <3>2. job'[j].stage = "hashed" /\ job'[j].id = job[j].id /\ job'[j].digest = disk[job[j].id]
      BY <1>0, <2>1, <3>1 DEF JobType
    <3> QED
      BY <1>4, <3>1, <3>2 DEF Hash, JobAdvances
  <2> QED
    BY <1>1, <1>4, <2>1 DEF Hash
<1>5. ASSUME NEW k \in Jobs, LockAndRead(k) PROVE JobAdvances(j)
  <2>1. job' = [job EXCEPT ![k].stage = "registering"] /\ job[k].stage = "hashed" /\ UNCHANGED disk
    BY <1>5 DEF LockAndRead, To
  <2>2. k = j
    BY <1>0, <2>1
  <2>3. job'[j].stage = "registering" /\ job'[j].id = job[j].id /\ job'[j].digest = job[j].digest
    BY <1>0, <2>1, <2>2 DEF JobType
  <2> QED
    BY <2>1, <2>2, <2>3 DEF JobAdvances
<1>6. ASSUME NEW k \in Jobs, Prepare(k) \/ Register(k) \/ CleanUp(k) PROVE JobAdvances(j)
  BY <1>1, <1>6 DEF Prepare, Register, CleanUp
<1>7. ~ServerStops
  BY <1>0 DEF ServerStops, Over, IdleJob, Active
<1>8. job' # job
  OBVIOUS
<1> QED
  BY <1>1, <1>2, <1>3, <1>4, <1>5, <1>6, <1>7, <1>8
  DEF ServiceStep, RequestStep, DeleteRead, UpdateRead, DeleteWrite, DeleteRemove, UpdateWrite

\* How a working script that moves stands to its file.
RunAdvances(r) ==
  \/ run'[r].at \in {"found", "unlinking"}
  \/ /\ run[r].at = "idle" /\ run'[r].at = "copying"
     /\ disk'[run'[r].file] = Truncated(disk[run'[r].file], r, Busy)
  \/ /\ run[r].at = "idle" /\ run'[r].at = "copied"
     /\ UNCHANGED disk /\ Whole(disk[run'[r].file])
  \/ /\ run[r].at = "copying" /\ run'[r].at = "copied" /\ run'[r].file = run[r].file
     /\ disk'[run[r].file] = Completed(disk[run[r].file], r)
  \/ /\ run[r].at = "copied" /\ run'[r].at = "hashed" /\ run'[r].file = run[r].file
     /\ UNCHANGED disk /\ run'[r].digest = disk[run[r].file]
  \/ /\ run[r].at \in {"hashed", "found"} /\ run'[r].at = "moving" /\ run'[r].file = run[r].file
     /\ UNCHANGED disk /\ run'[r].digest = run[r].digest /\ run'[r].op = run[r].op

\* A working script that moves does it in one of these ways.
LEMMA RunsAdvance ==
  ASSUME Base, ScriptStep, NEW r \in WorkingRuns', run'[r] # run[r]
  PROVE  RunAdvances(r)
<1>0. /\ run \in [Runs -> RunType] /\ disk \in [Names -> Content]
      /\ \A k \in Runs : run[k].at \in Working => run[k].id \in Ids /\ run[k].file \in Names
      /\ r \in Runs /\ run'[r].at \in Working
  BY DEF Base, TypeOK, ServiceTypeOK, RunType, WorkingRuns
<1>1. ASSUME NEW k \in Runs, Exits(k) PROVE FALSE
  BY <1>0, <1>1 DEF Exits, NotStarted, Working
<1>2. ASSUME NEW k \in Runs, NEW i \in Ids, NEW n \in Names, AddImage(k, i, n) PROVE RunAdvances(r)
  <2>1. PICK inPlace \in BOOLEAN :
          /\ inPlace => Whole(disk[n])
          /\ run' = [run EXCEPT ![k] =
                       [NotStarted EXCEPT !.at = IF inPlace THEN "copied" ELSE "copying",
                                          !.id = i, !.file = n]]
          /\ disk' = IF inPlace THEN disk ELSE [disk EXCEPT ![n] = Truncated(disk[n], k, Busy)]
    BY <1>2 DEF AddImage
  <2>2. k = r /\ run[r].at = "idle"
    BY <1>0, <1>2, <2>1 DEF AddImage
  <2>3. run'[r].at = (IF inPlace THEN "copied" ELSE "copying") /\ run'[r].file = n
    BY <1>0, <2>1, <2>2 DEF NotStarted
  <2>4. CASE inPlace
    BY <2>1, <2>2, <2>3, <2>4 DEF RunAdvances
  <2>5. CASE ~inPlace
    <3>1. disk'[n] = Truncated(disk[n], r, Busy)
      BY <1>0, <2>1, <2>2, <2>5
    <3> QED
      BY <2>2, <2>3, <2>5, <3>1 DEF RunAdvances
  <2> QED
    BY <2>4, <2>5
<1>3. ASSUME NEW k \in Runs, NEW i \in Ids, RemoveImage(k, i) PROVE RunAdvances(r)
  <2>1. k = r
    BY <1>0, <1>3 DEF RemoveImage
  <2>2. run'[r].at = "found"
    BY <1>0, <1>3, <2>1 DEF RemoveImage, NotStarted
  <2> QED
    BY <2>2 DEF RunAdvances
<1>4. ASSUME NEW k \in Runs, CopyEnds(k) PROVE RunAdvances(r)
  <2>1. /\ run' = [run EXCEPT ![k].at = "copied"] /\ run[k].at = "copying"
        /\ disk' = [disk EXCEPT ![run[k].file] = Completed(disk[run[k].file], k)]
    BY <1>1, <1>4 DEF CopyEnds, At
  <2>2. k = r /\ run[r].file \in Names
    BY <1>0, <2>1 DEF Working
  <2>3. run'[r].at = "copied" /\ run'[r].file = run[r].file
    BY <1>0, <2>1, <2>2 DEF RunType
  <2>4. disk'[run[r].file] = Completed(disk[run[r].file], r)
    BY <1>0, <2>1, <2>2
  <2> QED
    BY <2>1, <2>2, <2>3, <2>4 DEF RunAdvances
<1>5. ASSUME NEW k \in Runs, ScriptHash(k) PROVE RunAdvances(r)
  <2>1. /\ run' = [run EXCEPT ![k].at = "hashed", ![k].digest = disk[run[k].file]]
        /\ run[k].at = "copied" /\ UNCHANGED disk
    BY <1>1, <1>5 DEF ScriptHash
  <2>2. k = r
    BY <1>0, <2>1
  <2>3. run'[r].at = "hashed" /\ run'[r].file = run[r].file /\ run'[r].digest = disk[run[r].file]
    BY <1>0, <2>1, <2>2 DEF RunType
  <2> QED
    BY <2>1, <2>2, <2>3 DEF RunAdvances
<1>6. ASSUME NEW k \in Runs, Edit(k) PROVE RunAdvances(r)
  <2>1. /\ run' = [run EXCEPT ![k].at = "moving", ![k].view = index]
        /\ run[k].at \in {"hashed", "found"} /\ UNCHANGED disk
    BY <1>6 DEF Edit
  <2>2. k = r
    BY <1>0, <2>1
  <2>3. /\ run'[r].at = "moving" /\ run'[r].file = run[r].file
        /\ run'[r].digest = run[r].digest /\ run'[r].op = run[r].op
    BY <1>0, <2>1, <2>2 DEF RunType
  <2> QED
    BY <2>1, <2>2, <2>3 DEF RunAdvances
<1>7. ASSUME NEW k \in Runs, Move(k) PROVE RunAdvances(r)
  <2>1. run' = [run EXCEPT ![k].at = "unlinking"]
    BY <1>1, <1>7 DEF Move, At
  <2>2. k = r
    BY <1>0, <2>1
  <2>3. run'[r].at = "unlinking"
    BY <1>0, <2>1, <2>2 DEF RunType
  <2> QED
    BY <2>3 DEF RunAdvances
<1>8. ASSUME NEW k \in Runs, Unlink(k) \/ Interrupt(k) PROVE FALSE
  BY <1>1, <1>8 DEF Unlink, Interrupt
<1> QED
  BY <1>2, <1>3, <1>4, <1>5, <1>6, <1>7, <1>8 DEF ScriptStep

\* Nothing but file n changes, and there is c in it afterwards.
Only(n, c) == disk'[n] = c /\ \A m \in Names \ {n} : disk'[m] = disk[m]

\* Files: they stay, or one of them is changed by somebody who uses it before the
\* step or afterwards.  index.json stays.
JobWrites(j) ==
  /\ UNCHANGED <<index, mu, run>>
  /\ j \in LiveJobs /\ job'[j] # job[j]
  /\ \A k \in Jobs \ {j} : job'[k] = job[k]
  /\ \E c : /\ Only(job[j].id, c)
           /\ \/ c = NoFile
              \/ /\ c \in {Created(j), Truncated(disk[job[j].id], j, Busy)}
                 /\ job'[j].stage = "writing" /\ job'[j].id = job[j].id
              \/ c = Completed(disk[job[j].id], j)

RunWrites(r) ==
  /\ UNCHANGED <<index, mu, job>>
  /\ run'[r] # run[r]
  /\ \A k \in Runs \ {r} : run'[k] = run[k]
  /\ \E n \in Names : \E c :
       /\ Only(n, c)
       /\ \/ /\ c = Truncated(disk[n], r, Busy) /\ run'[r].at = "copying"
             /\ run'[r].op = "add" /\ run'[r].file = n
          \/ /\ run[r].file = n /\ run[r].at \in {"copying", "unlinking"}
             /\ c \in {NoFile, Completed(disk[n], r)}

DiskMoves ==
  \/ UNCHANGED disk
  \/ \E j \in Jobs : JobWrites(j)
  \/ /\ UNCHANGED <<index, job, run>>
     /\ mu.op = "removing" /\ mu' # mu /\ Only(mu.victim, NoFile)
  \/ \E r \in Runs : RunWrites(r)

\* One file is written.
LEMMA OnlyOne ==
  ASSUME disk \in [Names -> Content], NEW n \in Names, NEW c, disk' = [disk EXCEPT ![n] = c]
  PROVE  Only(n, c)
<1> DEFINE C == Content
<1>1. disk \in [Names -> C]
  OBVIOUS
<1> HIDE DEF C
<1> QED
  BY <1>1 DEF Only

\* Every step changes files in one of these ways.
LEMMA StepMovesDisk ==
  ASSUME Base, ServiceStep \/ ScriptStep
  PROVE  DiskMoves
<1>0. /\ job \in [Jobs -> JobType] /\ run \in [Runs -> RunType]
      /\ disk \in [Names -> Content] /\ Ids \subseteq Names
      /\ \A k \in LiveJobs : job[k].id \in Ids
      /\ \A k \in Runs : run[k].at \in Working => run[k].id \in Ids /\ run[k].file \in Names
      /\ mu.op = "removing" => mu.victim \in Names
  BY RepositoryAssumption DEF Base, TypeOK, ServiceTypeOK, JobType, RunType
<1>1. ASSUME NEW j \in LiveJobs, UNCHANGED <<index, mu, run>>, NEW c,
             disk' = [disk EXCEPT ![job[j].id] = c],
             \/ c = NoFile /\ Ends(j, "failed")
             \/ /\ c \in {Created(j), Truncated(disk[job[j].id], j, Busy)}
                /\ To(j, "writing") /\ job[j].stage = "prepared"
             \/ c = Completed(disk[job[j].id], j) /\ To(j, "written") /\ job[j].stage = "writing"
      PROVE  DiskMoves
  <2>1. j \in Jobs /\ job[j].stage \in Active /\ job[j].id \in Names
    BY <1>0 DEF LiveJobs
  <2>2. Only(job[j].id, c)
    BY <1>0, <1>1, <2>1, OnlyOne
  <2>3. \A k \in Jobs \ {j} : job'[k] = job[k]
    BY <1>0, <1>1, <2>1 DEF Ends, To
  <2>4. job'[j].stage # job[j].stage
    BY <1>0, <1>1, <2>1 DEF Ends, To, Over, IdleJob, JobType, Active
  <2>5. To(j, "writing") => job'[j].stage = "writing" /\ job'[j].id = job[j].id
    BY <1>0, <2>1 DEF To, JobType
  <2>6. JobWrites(j)
    BY <1>1, <2>2, <2>3, <2>4, <2>5 DEF JobWrites
  <2> QED
    BY <2>1, <2>6 DEF DiskMoves
<1>2. ASSUME NEW j \in Jobs, BeginWrite(j, Busy) \/ EndWrite(j) \/ CleanUp(j), UNCHANGED run
      PROVE  DiskMoves
  <2>1. j \in LiveJobs /\ UNCHANGED <<index, mu>>
    BY <1>2 DEF BeginWrite, EndWrite, CleanUp, LiveJobs, Active
  <2>2. ASSUME BeginWrite(j, Busy) PROVE DiskMoves
    <3>1. PICK c \in {Created(j), Truncated(disk[job[j].id], j, Busy)} :
                    disk' = [disk EXCEPT ![job[j].id] = c]
      BY <2>2 DEF BeginWrite
    <3> QED
      BY <1>1, <1>2, <2>1, <2>2, <3>1 DEF BeginWrite
  <2>3. ASSUME EndWrite(j) PROVE DiskMoves
    BY <1>1, <1>2, <2>1, <2>3 DEF EndWrite, DiskMoves
  <2>4. ASSUME CleanUp(j) PROVE DiskMoves
    BY <1>1, <1>2, <2>1, <2>4 DEF CleanUp
  <2> QED
    BY <1>2, <2>2, <2>3, <2>4
<1>3. ASSUME DeleteRemove, UNCHANGED run PROVE DiskMoves
  <2>1. CASE disk' = [disk EXCEPT ![mu.victim] = NoFile]
    <3>1. mu.op = "removing" /\ mu' = Free /\ UNCHANGED <<index, job>> /\ mu.victim \in Names
      BY <1>0, <1>3 DEF DeleteRemove
    <3>2. Only(mu.victim, NoFile)
      BY <1>0, <2>1, <3>1, OnlyOne
    <3>3. mu' # mu
      BY <3>1 DEF Free
    <3> QED
      BY <1>3, <3>1, <3>2, <3>3 DEF DiskMoves
  <2> QED
    BY <1>3, <2>1 DEF DeleteRemove, DiskMoves
<1>4. UNCHANGED disk => DiskMoves
  BY DEF DiskMoves
<1>5. CASE ServiceStep
  <2>1. ASSUME NEW j \in Jobs, NEW i \in Ids, NEW source \in Sources, StartAdd(j, i, source)
        PROVE  UNCHANGED disk
    BY <2>1 DEF StartAdd
  <2>2. ASSUME NEW j \in Jobs, Prepare(j) \/ Hash(j) \/ LockAndRead(j) \/ Register(j)
        PROVE  UNCHANGED disk
    BY <2>2 DEF Prepare, Hash, LockAndRead, Register
  <2>3. ASSUME NEW i \in Ids, DeleteRead(i) \/ UpdateRead(i)
        PROVE  UNCHANGED disk
    BY <2>3 DEF DeleteRead, UpdateRead
  <2>4. ServerStops \/ DeleteWrite \/ UpdateWrite => UNCHANGED disk
    BY DEF ServerStops, DeleteWrite, UpdateWrite
  <2> QED
    BY <1>2, <1>3, <1>4, <1>5, <2>1, <2>2, <2>3, <2>4 DEF ServiceStep, scriptVars, RequestStep
<1>6. ASSUME NEW r \in Runs, UNCHANGED <<index, mu, job>>, NEW rec, rec.at # run[r].at,
             run' = [run EXCEPT ![r] = rec], NEW n \in Names, NEW c, disk' = [disk EXCEPT ![n] = c],
             \/ /\ c = Truncated(disk[n], r, Busy) /\ rec.at = "copying"
                /\ rec.op = "add" /\ rec.file = n
             \/ /\ run[r].file = n /\ run[r].at \in {"copying", "unlinking"}
                /\ c \in {NoFile, Completed(disk[n], r)}
      PROVE  DiskMoves
  <2>1. Only(n, c)
    BY <1>0, <1>6, OnlyOne
  <2>2. run'[r] = rec /\ \A k \in Runs \ {r} : run'[k] = run[k]
    BY <1>0, <1>6
  <2>3. RunWrites(r)
    BY <1>6, <2>1, <2>2 DEF RunWrites
  <2> QED
    BY <2>3 DEF DiskMoves
<1>7. ASSUME NEW r \in Runs, NEW i \in Ids, NEW n \in Names, AddImage(r, i, n), UNCHANGED <<index, mu, job>>
      PROVE  DiskMoves
  <2>1. CASE UNCHANGED disk
    BY <1>4, <2>1
  <2>2. CASE disk' # disk
    <3> DEFINE rec == [NotStarted EXCEPT !.at = "copying", !.id = i, !.file = n]
               c == Truncated(disk[n], r, Busy)
    <3>1. run' = [run EXCEPT ![r] = rec] /\ disk' = [disk EXCEPT ![n] = c] /\ run[r].at = "idle"
      BY <1>7, <2>2 DEF AddImage
    <3>2. rec.at = "copying" /\ rec.op = "add" /\ rec.file = n
      BY DEF NotStarted
    <3> HIDE DEF rec
    <3> QED
      BY <1>6, <1>7, <3>1, <3>2
  <2> QED
    BY <2>1, <2>2
<1>8. ASSUME NEW r \in Runs, CopyEnds(r) \/ Unlink(r), UNCHANGED <<index, mu, job>>
      PROVE  DiskMoves
  <2>1. run[r].file \in Names /\ run[r].at \in {"copying", "unlinking"}
    BY <1>0, <1>8 DEF CopyEnds, Unlink, Working
  <2>2. CASE CopyEnds(r) /\ disk' # disk
    <3> DEFINE rec == [run[r] EXCEPT !.at = "copied"]
    <3>1. /\ run' = [run EXCEPT ![r] = rec] /\ run[r].at = "copying"
          /\ disk' = [disk EXCEPT ![run[r].file] = Completed(disk[run[r].file], r)]
      BY <2>2 DEF CopyEnds, At
    <3>2. rec.at = "copied"
      BY <1>0 DEF RunType
    <3> HIDE DEF rec
    <3> QED
      BY <1>6, <1>8, <2>1, <3>1, <3>2
  <2>3. CASE Unlink(r)
    <3> DEFINE rec == [NotStarted EXCEPT !.at = "ended"]
    <3>1. /\ run' = [run EXCEPT ![r] = rec] /\ run[r].at = "unlinking"
          /\ disk' = [disk EXCEPT ![run[r].file] = NoFile]
      BY <2>3 DEF Unlink, Exits
    <3>2. rec.at = "ended"
      BY DEF NotStarted
    <3> HIDE DEF rec
    <3> QED
      BY <1>6, <1>8, <2>1, <3>1, <3>2
  <2> QED
    BY <1>4, <1>8, <2>2, <2>3
<1>9. CASE ScriptStep
  <2>1. ASSUME NEW r \in Runs, NEW i \in Ids, RemoveImage(r, i)
        PROVE  UNCHANGED disk
    BY <2>1 DEF RemoveImage
  <2>2. ASSUME NEW r \in Runs, ScriptHash(r) \/ Edit(r) \/ Interrupt(r) \/ Move(r)
        PROVE  UNCHANGED disk
    BY <2>2 DEF ScriptHash, Edit, Interrupt, Move
  <2> QED
    BY <1>4, <1>7, <1>8, <1>9, <2>1, <2>2 DEF ScriptStep
<1> QED
  BY <1>5, <1>9

-----------------------------------------------------------------------------
(* Who writes a file is known.                                             *)

\* A step that adds an unfinished writer to a file is the beginning of its write.
LEMMA UnfinishedBegin ==
  ASSUME Base, DiskMoves, NEW n \in Names, NEW w \in disk'[n].unfinished
  PROVE  \/ w \in disk[n].unfinished
         \/ w \in Jobs /\ job'[w].stage = "writing" /\ job'[w].id = n
         \/ w \in Runs /\ run'[w].at = "copying" /\ run'[w].file = n
<1>0. disk \in [Names -> Content] /\ disk[n] \in Content
  BY DEF Base, TypeOK, ServiceTypeOK
<1>1. ASSUME NEW v, w \in Truncated(disk[n], v, Busy).unfinished
      PROVE  w = v \/ w \in disk[n].unfinished
  BY <1>1 DEF Truncated
<1>2. ASSUME NEW v, w \in Completed(disk[n], v).unfinished PROVE w \in disk[n].unfinished
  BY <1>0, <1>2 DEF Completed, Content
<1>3. w \notin NoFile.unfinished
  BY DEF NoFile
<1>4. ASSUME NEW v, w \in Created(v).unfinished PROVE w = v
  BY <1>4 DEF Created
<1>5. ASSUME NEW j \in Jobs, JobWrites(j)
      PROVE  \/ w \in disk[n].unfinished
             \/ w \in Jobs /\ job'[w].stage = "writing" /\ job'[w].id = n
  BY <1>1, <1>2, <1>3, <1>4, <1>5 DEF JobWrites, Only
<1>6. ASSUME NEW r \in Runs, RunWrites(r)
      PROVE  \/ w \in disk[n].unfinished
             \/ w \in Runs /\ run'[w].at = "copying" /\ run'[w].file = n
  BY <1>1, <1>2, <1>3, <1>6 DEF RunWrites, Only
<1>7. ASSUME Only(mu.victim, NoFile) PROVE w \in disk[n].unfinished
  BY <1>3, <1>7 DEF Only
<1> QED
  BY <1>5, <1>6, <1>7 DEF DiskMoves

\* A step keeps WritersKnown.
LEMMA WritersKnownStep ==
  ASSUME Base, WritersKnown, ServiceStep \/ ScriptStep
  PROVE  WritersKnown'
<1>1. DiskMoves
  BY StepMovesDisk
<1>2. ASSUME NEW n \in Names, NEW w \in disk'[n].unfinished PROVE WriterKnown(w, n)'
  <2>1. Jobs \cap Runs = {}
    BY RunsAssumption
  <2>2. CASE w \in Jobs /\ job'[w].stage = "writing" /\ job'[w].id = n
    BY <2>1, <2>2 DEF WriterKnown
  <2>3. CASE w \in Runs /\ run'[w].at = "copying" /\ run'[w].file = n
    BY <2>1, <2>3 DEF WriterKnown
  <2>4. CASE w \in disk[n].unfinished
    <3>1. WriterKnown(w, n)
      BY <2>4 DEF WritersKnown
    <3>2. ASSUME w \in Jobs
          PROVE  /\ job'[w].stage \notin {"idle", "queued", "prepared"}
                 /\ job'[w].stage = "writing" => job'[w].id = n
      <4>1. JobMoves(w)
        <5>1. CASE ServiceStep
          BY <3>2, <5>1, ServiceMovesJobs DEF Base
        <5>2. CASE ScriptStep
          BY <5>2 DEF ScriptStep, JobMoves
        <5> QED
          BY <5>1, <5>2
      <4> QED
        BY <3>1, <3>2, <4>1 DEF WriterKnown, JobMoves, Active
    <3>3. ASSUME w \in Runs
          PROVE  /\ run'[w].at # "idle"
                 /\ run'[w].at = "copying" => run'[w].file = n
      <4>1. RunMoves(w)
        <5>1. CASE ScriptStep
          BY <3>3, <5>1, ScriptMovesRuns
        <5>2. CASE ServiceStep
          BY <5>2 DEF ServiceStep, scriptVars, RunMoves
        <5> QED
          BY <5>1, <5>2
      <4> QED
        BY <3>1, <3>3, <4>1 DEF WriterKnown, RunMoves, Working
    <3> QED
      BY <3>2, <3>3 DEF WriterKnown
  <2> QED
    BY <1>1, <1>2, <2>2, <2>3, <2>4, UnfinishedBegin
<1> QED
  BY <1>2 DEF WritersKnown

-----------------------------------------------------------------------------
(* A file that is used alone.                                              *)

\* The users of a file, one by one.
LEMMA UsersAre ==
  \A n : /\ \A k \in DOMAIN index : index[k].file = n => <<"entry", k>> \in Users(n)
         /\ \A j \in LiveJobs : job[j].id = n => <<"job", j>> \in Users(n)
         /\ \A r \in WorkingRuns :
              run[r].file = n /\ (run[r].op = "add" \/ run[r].at = "unlinking") =>
                <<"run", r>> \in Users(n)
         /\ mu.op = "removing" /\ mu.victim = n => <<"delete", mu>> \in Users(n)
  BY DEF Users

\* Nobody but its only user changes a file.
LEMMA FileStays ==
  ASSUME Base, DiskMoves, UsedAlone, UsedAlone', contestedFiles \subseteq contestedFiles',
         NEW n \in Names \ contestedFiles', NEW u \in Users(n), u \in Users(n)',
         \A m : u # <<"delete", m>>,
         \A j \in Jobs : u = <<"job", j>> => job'[j] = job[j],
         \A r \in Runs : u = <<"run", r>> => run'[r] = run[r]
  PROVE  disk'[n] = disk[n]
<1>1. (\A x, y \in Users(n) : x = y) /\ (\A x, y \in Users(n)' : x = y)
  BY DEF UsedAlone
<1>2. ASSUME NEW j \in Jobs, JobWrites(j), job[j].id = n PROVE FALSE
  <2>1. <<"job", j>> \in Users(n)
    BY <1>2, UsersAre DEF JobWrites
  <2>2. u = <<"job", j>>
    BY <1>1, <2>1
  <2> QED
    BY <1>2, <2>2 DEF JobWrites
<1>3. ASSUME mu.op = "removing", mu.victim = n PROVE FALSE
  <2>1. <<"delete", mu>> \in Users(n)
    BY <1>3, UsersAre
  <2> QED
    BY <1>1, <2>1
<1>4. ASSUME NEW r \in Runs, run'[r] # run[r],
             \/ run'[r].at = "copying" /\ run'[r].op = "add" /\ run'[r].file = n
             \/ run[r].at \in {"copying", "unlinking"} /\ run[r].file = n
      PROVE  FALSE
  <2>1. CASE run[r].at \in {"copying", "unlinking"} /\ run[r].file = n
    <3>1. run[r].op = "add" \/ run[r].at = "unlinking"
      BY <2>1 DEF Base
    <3>2. <<"run", r>> \in Users(n)
      BY <2>1, <3>1, UsersAre DEF WorkingRuns, Working
    <3> QED
      BY <1>1, <1>4, <3>2
  <2>2. CASE run'[r].at = "copying" /\ run'[r].op = "add" /\ run'[r].file = n
    <3>1. <<"run", r>> \in Users(n)'
      BY <2>2 DEF Users, WorkingRuns, Working
    <3> QED
      BY <1>1, <1>4, <3>1
  <2> QED
    BY <1>4, <2>1, <2>2
<1>5. ASSUME NEW j \in Jobs, JobWrites(j) PROVE disk'[n] = disk[n]
  BY <1>2, <1>5 DEF JobWrites, Only
<1>6. ASSUME NEW r \in Runs, RunWrites(r) PROVE disk'[n] = disk[n]
  BY <1>4, <1>6 DEF RunWrites, Only
<1>7. ASSUME mu.op = "removing", Only(mu.victim, NoFile) PROVE disk'[n] = disk[n]
  BY <1>3, <1>7 DEF Only
<1> QED
  BY <1>5, <1>6, <1>7 DEF DiskMoves

-----------------------------------------------------------------------------
(* An image is what its entry says.                                        *)

\* Nobody else is writing the file of its only user.
LEMMA WritesAlone ==
  ASSUME Base, WritersKnown, NEW n \in Names,
         \A j \in WritingJobs : job[j].id # n,
         \A r \in Runs : run[r].at = "copying" => run[r].file # n,
         NEW w
  PROVE  Truncated(disk[n], w, Busy) = Created(w)
<1>1. ASSUME NEW v \in disk[n].unfinished, v \in Busy PROVE FALSE
  <2>1. WriterKnown(v, n)
    BY DEF WritersKnown
  <2> QED
    BY <1>1, <2>1 DEF WriterKnown, Busy, WritingJobs
<1>2. disk[n].unfinished \cap Busy = {}
  BY <1>1
<1> QED
  BY <1>2 DEF Truncated, Created

\* The output of one writer, when it is done.
LEMMA CompletedIsWhole ==
  \A w : Whole(Completed(Created(w), w))
  BY FS_Singleton DEF Whole, Completed, Created

\* A step keeps what jobs know of their files.
LEMMA JobsRightStep ==
  ASSUME Base, UsedAlone, UsedAlone', WritersKnown, FilesRight,
         contestedFiles \subseteq contestedFiles', ServiceStep \/ ScriptStep,
         NEW j \in LiveJobs', job'[j].id \notin contestedFiles'
  PROVE  JobRight(j)'
<1>0. /\ j \in Jobs /\ Ids \subseteq Names
      /\ \A k \in LiveJobs : job[k].id \in Ids
      /\ disk \in [Names -> Content]
  BY RepositoryAssumption DEF Base, TypeOK, ServiceTypeOK, LiveJobs
<1>1. CASE job'[j] = job[j]
  <2>1. j \in LiveJobs /\ job[j].id \in Names \ contestedFiles'
    BY <1>0, <1>1 DEF LiveJobs
  <2>2. JobRight(j)
    BY <2>1 DEF FilesRight
  <2> DEFINE u == <<"job", j>>
  <2>3. u \in Users(job[j].id) /\ u \in Users(job[j].id)'
    BY <1>1, <2>1 DEF Users
  <2>4. disk'[job[j].id] = disk[job[j].id]
    <3>1. (\A m : u # <<"delete", m>>) /\ (\A r : u # <<"run", r>>) /\ (\A k : u = <<"job", k>> => k = j)
      OBVIOUS
    <3>2. DiskMoves
      BY StepMovesDisk
    <3> HIDE DEF u
    <3> QED
      BY <1>1, <2>1, <2>3, <3>1, <3>2, FileStays
  <2> QED
    BY <1>1, <2>2, <2>4 DEF JobRight
<1>2. CASE job'[j] # job[j]
  <2>1. ServiceStep
    BY <1>2 DEF ScriptStep
  <2>2. JobAdvances(j) /\ JobMoves(j)
    BY <1>0, <1>2, <2>1, JobsAdvance, ServiceMovesJobs DEF Base
  <2>3. CASE job'[j].stage \in {"queued", "prepared", "cleaning"}
    BY <2>3 DEF JobRight
  <2>4. ASSUME job[j].stage \in Active, job'[j].id = job[j].id
        PROVE  j \in LiveJobs /\ JobRight(j) /\ job[j].id \in Names /\ job[j].id \notin contestedFiles
    BY <1>0, <2>4 DEF FilesRight, LiveJobs
  <2>5. CASE /\ job[j].stage = "prepared" /\ job'[j].stage = "writing" /\ job'[j].id = job[j].id
             /\ disk'[job[j].id] \in {Created(j), Truncated(disk[job[j].id], j, Busy)}
    <3> DEFINE n == job[j].id
    <3>1. j \in LiveJobs /\ n \in Names \ contestedFiles
      BY <2>4, <2>5 DEF Active
    <3>2. <<"job", j>> \in Users(n) /\ \A x \in Users(n) : x = <<"job", j>>
      BY <3>1, UsersAre DEF UsedAlone
    <3>3. ASSUME NEW k \in WritingJobs PROVE job[k].id # n
      <4>1. k \in LiveJobs /\ k # j
        BY <2>5 DEF WritingJobs, LiveJobs, Active
      <4> QED
        BY <3>2, <4>1, UsersAre
    <3>4. ASSUME NEW r \in Runs, run[r].at = "copying" PROVE run[r].file # n
      <4>1. r \in WorkingRuns /\ run[r].op = "add"
        BY <3>4 DEF WorkingRuns, Working, Base
      <4> QED
        BY <3>2, <4>1, UsersAre
    <3>5. Truncated(disk[n], j, Busy) = Created(j)
      BY <3>1, <3>3, <3>4, WritesAlone
    <3> QED
      BY <2>5, <3>5 DEF JobRight
  <2>6. CASE /\ job[j].stage = "writing" /\ job'[j].stage = "written" /\ job'[j].id = job[j].id
             /\ disk'[job[j].id] = Completed(disk[job[j].id], j)
    <3>1. disk[job[j].id] = Created(j)
      BY <2>4, <2>6 DEF JobRight, Active
    <3>2. Whole(disk'[job[j].id])
      BY <2>6, <3>1, CompletedIsWhole
    <3> QED
      BY <2>6, <3>2 DEF JobRight
  <2>7. CASE /\ job[j].stage = "written" /\ job'[j].stage = "hashed" /\ job'[j].id = job[j].id
             /\ UNCHANGED disk /\ job'[j].digest = disk[job[j].id]
    BY <2>4, <2>7 DEF JobRight, Active
  <2>8. CASE /\ job[j].stage = "hashed" /\ job'[j].stage = "registering" /\ job'[j].id = job[j].id
             /\ UNCHANGED disk /\ job'[j].digest = job[j].digest
    BY <2>4, <2>8 DEF JobRight, Active
  <2> QED
    BY <2>2, <2>3, <2>5, <2>6, <2>7, <2>8 DEF JobAdvances
<1> QED
  BY <1>1, <1>2

\* A step keeps what scripts know of their files.
LEMMA RunsRightStep ==
  ASSUME Base, Base', UsedAlone, UsedAlone', WritersKnown, FilesRight,
         contestedFiles \subseteq contestedFiles', ServiceStep \/ ScriptStep,
         NEW r \in WorkingRuns', run'[r].file \notin contestedFiles'
  PROVE  RunRight(r)'
<1>0. /\ r \in Runs /\ disk \in [Names -> Content]
      /\ run[r].at \in Working => run[r].file \in Names
      /\ run[r].at \in {"copying", "copied", "hashed"} => run[r].op = "add"
      /\ run'[r].at \in {"copying", "copied", "hashed"} => run'[r].op = "add"
      /\ run'[r].at \in Working /\ run'[r].file \in Names
  BY DEF Base, TypeOK, ServiceTypeOK, WorkingRuns
<1>1. CASE run'[r] = run[r]
  <2>1. r \in WorkingRuns /\ run[r].file \in Names \ contestedFiles'
    BY <1>0, <1>1 DEF WorkingRuns
  <2>2. RunRight(r)
    BY <2>1 DEF FilesRight
  <2>3. CASE run[r].op = "add"
    <3> DEFINE u == <<"run", r>>
    <3>1. u \in Users(run[r].file) /\ u \in Users(run[r].file)'
      BY <1>1, <2>1, <2>3 DEF Users, WorkingRuns
    <3>2. disk'[run[r].file] = disk[run[r].file]
      <4>1. (\A m : u # <<"delete", m>>) /\ (\A j : u # <<"job", j>>) /\ (\A k : u = <<"run", k>> => k = r)
        OBVIOUS
      <4>2. DiskMoves
        BY StepMovesDisk
      <4> HIDE DEF u
      <4> QED
        BY <1>1, <2>1, <3>1, <4>1, <4>2, FileStays
    <3> QED
      BY <1>1, <2>2, <3>2 DEF RunRight
  <2>4. CASE run[r].op # "add"
    BY <1>0, <1>1, <2>4 DEF RunRight
  <2> QED
    BY <2>3, <2>4
<1>2. CASE run'[r] # run[r]
  <2>1. ScriptStep
    BY <1>2 DEF ServiceStep, scriptVars
  <2>2. RunAdvances(r)
    BY <1>2, <2>1, RunsAdvance
  <2>3. ASSUME run[r].at \in Working, run'[r].file = run[r].file
        PROVE  r \in WorkingRuns /\ RunRight(r) /\ run[r].file \in Names /\ run[r].file \notin contestedFiles
    BY <1>0, <2>3 DEF FilesRight, WorkingRuns
  <2>4. CASE run'[r].at \in {"found", "unlinking"}
    BY <2>4 DEF RunRight
  <2>5. CASE /\ run[r].at = "idle" /\ run'[r].at = "copying"
             /\ disk'[run'[r].file] = Truncated(disk[run'[r].file], r, Busy)
    <3>0. PICK n \in Names : n = run'[r].file
      BY <1>0
    <3>1. run'[r].op = "add" /\ n \in Names \ contestedFiles'
      BY <1>0, <2>5, <3>0
    <3>2. <<"run", r>> \in Users(n)' /\ \A x \in Users(n)' : x = <<"run", r>>
      <4>1. <<"run", r>> \in Users(n)'
        BY <3>0, <3>1 DEF Users
      <4> QED
        BY <3>1, <4>1 DEF UsedAlone
    <3>3. ASSUME NEW j \in WritingJobs PROVE job[j].id # n
      <4>1. j \in LiveJobs' /\ job'[j] = job[j]
        BY <2>1 DEF ScriptStep, WritingJobs, LiveJobs, Active
      <4>2. job'[j].id = n => <<"job", j>> \in Users(n)'
        BY <4>1 DEF Users
      <4> QED
        BY <3>2, <4>1, <4>2
    <3>4. ASSUME NEW k \in Runs, run[k].at = "copying" PROVE run[k].file # n
      <4>1. k # r /\ run[k].op = "add"
        BY <2>5, <3>4 DEF Base
      <4>2. <<"run", k>> \in Users(run[k].file)
        BY <3>4, <4>1, UsersAre DEF WorkingRuns, Working
      <4>3. run'[k] = run[k]
        <5>1. PICK q \in Runs : \A p \in Runs \ {q} : run'[p] = run[p]
          BY <2>1, OneScript DEF Base, TypeOK, RunType
        <5> QED
          BY <1>0, <1>2, <4>1, <5>1
      <4>4. run'[k].file = n => <<"run", k>> \in Users(n)'
        BY <3>4, <4>1, <4>3 DEF Users, WorkingRuns, Working
      <4> QED
        BY <3>2, <4>1, <4>3, <4>4
    <3>5. Truncated(disk[n], r, Busy) = Created(r)
      BY <3>1, <3>3, <3>4, WritesAlone
    <3> QED
      BY <2>5, <3>0, <3>5 DEF RunRight
  <2>6. CASE /\ run[r].at = "idle" /\ run'[r].at = "copied"
             /\ UNCHANGED disk /\ Whole(disk[run'[r].file])
    BY <2>6 DEF RunRight
  <2>7. CASE /\ run[r].at = "copying" /\ run'[r].at = "copied" /\ run'[r].file = run[r].file
             /\ disk'[run[r].file] = Completed(disk[run[r].file], r)
    <3>1. disk[run[r].file] = Created(r)
      BY <2>3, <2>7 DEF RunRight, Working
    <3>2. Whole(disk'[run[r].file])
      BY <2>7, <3>1, CompletedIsWhole
    <3> QED
      BY <2>7, <3>2 DEF RunRight
  <2>8. CASE /\ run[r].at = "copied" /\ run'[r].at = "hashed" /\ run'[r].file = run[r].file
             /\ UNCHANGED disk /\ run'[r].digest = disk[run[r].file]
    BY <2>3, <2>8 DEF RunRight, Working
  <2>9. CASE /\ run[r].at \in {"hashed", "found"} /\ run'[r].at = "moving" /\ run'[r].file = run[r].file
             /\ UNCHANGED disk /\ run'[r].digest = run[r].digest /\ run'[r].op = run[r].op
    <3>1. run[r].at = "found" => run[r].op = "remove"
      BY <1>0 DEF Base
    <3> QED
      BY <2>3, <2>9, <3>1 DEF RunRight, Working
  <2> QED
    BY <2>2, <2>4, <2>5, <2>6, <2>7, <2>8, <2>9 DEF RunAdvances
<1> QED
  BY <1>1, <1>2

\* The entries of a list have the checksums of their files.
EntriesRight(idx) ==
  \A k \in DOMAIN idx : idx[k].file \notin contestedFiles => EntryRight(idx[k])

\* A step keeps what the entries say.
LEMMA EntriesRightStep ==
  ASSUME Base, Locked, Remembered, UsedAlone, UsedAlone', FilesRight, ~stale, ~stale',
         contestedFiles \subseteq contestedFiles', Next,
         NEW k \in DOMAIN index', index'[k].file \notin contestedFiles'
  PROVE  EntryRight(index[k])'
<1>0. index \in Seq(Entry) /\ (ServiceStep \/ ScriptStep) /\ EntriesRight(index)
  BY DEF Base, TypeOK, ServiceTypeOK, Next, FilesRight, EntriesRight
<1>1. IndexStays
  BY FreshSnapshots DEF Remembered
<1>2. CASE index' = index
  <2>1. k \in DOMAIN index /\ EntryRight(index[k]) /\ index[k].file \in Names \ contestedFiles'
    <3>1. index[k] \in Entry
      BY <1>0, <1>2
    <3> QED
      BY <1>0, <1>2, <3>1 DEF EntriesRight, Entry
  <2>2. PICK n \in Names \ contestedFiles' : n = index[k].file
    BY <2>1
  <2> DEFINE u == <<"entry", k>>
  <2>3. u \in Users(n) /\ u \in Users(n)'
    BY <1>2, <2>1, <2>2 DEF Users
  <2>4. (\A m : u # <<"delete", m>>) /\ (\A j : u # <<"job", j>>) /\ (\A r : u # <<"run", r>>)
    OBVIOUS
  <2>5. DiskMoves
    BY <1>0, StepMovesDisk
  <2> HIDE DEF u
  <2>6. disk'[n] = disk[n]
    BY <2>3, <2>4, <2>5, FileStays
  <2> QED
    BY <1>2, <2>1, <2>2, <2>6 DEF EntryRight
<1>3. ASSUME UNCHANGED disk, NEW e, index'[k] = e, e.file \notin contestedFiles => EntryRight(e)
      PROVE  EntryRight(index[k])'
  BY <1>3 DEF EntryRight
<1>4. ASSUME NEW i \in Ids, UNCHANGED disk, index' = Without(index, i)
      PROVE  EntryRight(index[k])'
  <2>1. PICK m \in DOMAIN index : Without(index, i)[k] = index[m]
    BY <1>0, <1>4, WithoutProperties
  <2> QED
    BY <1>0, <1>3, <1>4, <2>1 DEF EntriesRight
<1>5. ASSUME NEW e \in Entry, UNCHANGED disk, index' = Append(index, e),
             e.file \notin contestedFiles => EntryRight(e)
      PROVE  EntryRight(index[k])'
  <2>1. /\ Append(index, e) \in Seq(Entry) /\ Len(Append(index, e)) = Len(index) + 1
        /\ \A l \in 1..Len(index) : Append(index, e)[l] = index[l]
        /\ Append(index, e)[Len(index) + 1] = e
    BY <1>0, AppendProperties
  <2>2. k = Len(index) + 1 \/ k \in DOMAIN index
    BY <1>0, <1>5, <2>1
  <2>3. index'[k] = e \/ (k \in DOMAIN index /\ index'[k] = index[k])
    BY <1>0, <1>5, <2>1, <2>2
  <2> QED
    BY <1>0, <1>3, <1>5, <2>3 DEF EntriesRight
<1>6. ASSUME NEW j \in Jobs, UNCHANGED disk, job[j].stage = "registering", JobEntry(j) \in Entry,
             index' = Append(index, JobEntry(j))
      PROVE  EntryRight(index[k])'
  <2>1. JobEntry(j).file \notin contestedFiles => EntryRight(JobEntry(j))
    BY <1>6 DEF FilesRight, JobRight, JobEntry, EntryRight, LiveJobs, Active
  <2> QED
    BY <1>5, <1>6, <2>1
<1>7. ASSUME NEW r \in Runs, UNCHANGED disk, run[r].at = "moving", run[r].op = "add",
             RunEntry(r) \in Entry, index' = Append(index, RunEntry(r))
      PROVE  EntryRight(index[k])'
  <2>1. RunEntry(r).file \notin contestedFiles => EntryRight(RunEntry(r))
    BY <1>7 DEF FilesRight, RunRight, RunEntry, EntryRight, WorkingRuns, Working
  <2> QED
    BY <1>5, <1>7, <2>1
<1> QED
  BY <1>1, <1>2, <1>4, <1>6, <1>7 DEF IndexStays

\* A step keeps FilesRight and WritersKnown.
LEMMA FilesRightStep ==
  ASSUME Base, Locked, Remembered, UsedAlone, WritersKnown, FilesRight, Next
  PROVE  FilesRight' /\ WritersKnown'
<1>1. Base' /\ UsedAlone' /\ (ServiceStep \/ ScriptStep)
  BY BaseStep, RememberStep DEF Next
<1>2. contestedFiles \subseteq contestedFiles' /\ (stale => stale')
  BY RememberTyped DEF Next, Base
<1>3. WritersKnown'
  BY <1>1, WritersKnownStep
<1>4. \A j \in LiveJobs' : job'[j].id \notin contestedFiles' => JobRight(j)'
  BY <1>1, <1>2, JobsRightStep
<1>5. \A r \in WorkingRuns' : run'[r].file \notin contestedFiles' => RunRight(r)'
  BY <1>1, <1>2, RunsRightStep
<1>6. ~stale' => \A k \in DOMAIN index' :
                   index'[k].file \notin contestedFiles' => EntryRight(index[k])'
  BY <1>1, <1>2, EntriesRightStep
<1> QED
  BY <1>3, <1>4, <1>5, <1>6 DEF FilesRight

\* In the beginning every file of the installation is whole.
LEMMA FilesInit == Init => FilesRight /\ WritersKnown
<1> SUFFICES ASSUME Init PROVE FilesRight /\ WritersKnown
  OBVIOUS
<1>1. /\ index = Start /\ job = [j \in Jobs |-> IdleJob] /\ run = [r \in Runs |-> NotStarted]
      /\ disk = [n \in Names |-> IF n \in Range(Installed) THEN Installation(n) ELSE NoFile]
  BY DEF Init, ServiceInit, Start
<1>2. LiveJobs = {} /\ WorkingRuns = {}
  BY <1>1 DEF LiveJobs, WorkingRuns, IdleJob, NotStarted, Active, Working
<1>3. \A n \in Names : disk[n].unfinished = {}
  BY <1>1 DEF Installation, NoFile
<1>4. ASSUME NEW k \in DOMAIN index PROVE EntryRight(index[k])
  <2>1. k \in DOMAIN Installed /\ Installed[k] \in Names /\ Installed[k] \in Range(Installed)
    BY <1>1, StartTyped, RepositoryAssumption DEF Range
  <2>2. index[k].file = Installed[k] /\ index[k].digest = Installation(Installed[k])
    BY <1>1, <2>1 DEF Start
  <2>3. disk[Installed[k]] = Installation(Installed[k])
    BY <1>1, <2>1
  <2>4. Whole(Installation(Installed[k]))
    BY FS_Singleton DEF Whole, Installation
  <2> QED
    BY <2>2, <2>3, <2>4 DEF EntryRight
<1> QED
  BY <1>2, <1>3, <1>4 DEF FilesRight, WritersKnown

\* What jobs, scripts and entries say of files holds.
LEMMA FilesRightHolds == Spec => [](FilesRight /\ WritersKnown)
<1> DEFINE Once == Remembered /\ AddedOnce /\ UsedAlone /\ RegisteredOnce
           Right == FilesRight /\ WritersKnown
<1>1. Base /\ Locked /\ Once /\ Right /\ [Next]_vars => Right'
  <2>1. ASSUME Base, Locked, Once, Right, Next PROVE Right'
    BY <2>1, FilesRightStep
  <2>2. ASSUME Right, UNCHANGED vars PROVE Right'
    <3>1. /\ UNCHANGED <<index, disk, job, run, contestedFiles, stale>>
      BY <2>2 DEF vars, serviceVars, scriptVars, history
    <3>2. LiveJobs' = LiveJobs /\ WorkingRuns' = WorkingRuns
      BY <3>1 DEF LiveJobs, WorkingRuns
    <3>3. /\ \A j : JobRight(j)' <=> JobRight(j)
          /\ \A r : RunRight(r)' <=> RunRight(r)
          /\ \A k : EntryRight(index[k])' <=> EntryRight(index[k])
          /\ \A w, n : WriterKnown(w, n)' <=> WriterKnown(w, n)
      BY <3>1 DEF JobRight, RunRight, EntryRight, WriterKnown
    <3>4. FilesRight'
      BY <2>2, <3>1, <3>2, <3>3 DEF FilesRight
    <3>5. WritersKnown'
      BY <2>2, <3>1, <3>3 DEF WritersKnown
    <3> QED
      BY <3>4, <3>5
  <2> QED
    BY <2>1, <2>2
<1>2. Init => Right
  BY FilesInit
<1>3. Spec => []Once
  BY AddedOnceHolds
<1> HIDE DEF Once, Right
<1>4. Spec => []Right
  BY <1>1, <1>2, <1>3, BaseHolds, LockedHolds, PTL DEF Spec
<1> QED
  BY <1>4 DEF Right

\* An image that is registered is there, whole, and has the registered checksum
\* (imagesvc.go, the scripts), through failed and interrupted additions, deletions of
\* others and restarts of the server - unless its file has had two users at once or
\* an overtaken snapshot has been written back.
THEOREM IntactRegistered == Spec => []RegisteredIntact
<1>1. FilesRight /\ WritersKnown => RegisteredIntact
  <2> SUFFICES ASSUME FilesRight, ~stale, NEW e \in Range(index), e.file \notin contestedFiles
               PROVE  Whole(disk[e.file]) /\ disk[e.file] = e.digest
    BY DEF RegisteredIntact
  <2>1. PICK k \in DOMAIN index : e = index[k]
    BY DEF Range
  <2> QED
    BY <2>1 DEF FilesRight, EntryRight
<1> QED
  BY <1>1, FilesRightHolds, PTL

\* The whole invariant holds.
THEOREM InvariantHolds == Spec => []IInv
<1> DEFINE Once == Remembered /\ AddedOnce /\ UsedAlone /\ RegisteredOnce
           Right == FilesRight /\ WritersKnown
           Lock == Locked /\ Undisturbed
<1>1. Spec => []Once
  BY AddedOnceHolds
<1>2. Spec => []Right
  BY FilesRightHolds
<1>3. Spec => []Lock
  BY LockedHolds
<1>4. Base /\ Once /\ Right /\ Lock => IInv
  BY DEF IInv
<1> HIDE DEF Once, Right, Lock
<1> QED
  BY <1>1, <1>2, <1>3, <1>4, BaseHolds, PTL

=============================================================================
