---------------------------- MODULE ImageService ----------------------------
(***************************************************************************)
(* The image repository and the service that edits it                      *)
(* (server/internal/imagesvc/imagesvc.go): a directory of image files, the *)
(* list index.json of registered images, jobs that add an image in the     *)
(* background, and the requests that update or delete one.                 *)
(*                                                                         *)
(* s.mu serialises the service's read-modify-write cycles of index.json.   *)
(* Others may replace the file between the two (see ImageRepository), so a *)
(* cycle is two steps with a snapshot in between.  The list itself is      *)
(* replaced by a rename and is never seen half written.                    *)
(*                                                                         *)
(* The file a job writes is named after the image id.  A name of a file is *)
(* an id (for "<id>.raw.zst") or another member of Names.  An entry has    *)
(* what ties it to its file; sizes and metadata are left out, so Update    *)
(* writes back what it has read.                                           *)
(***************************************************************************)
EXTENDS ImageIndex, FiniteSets, Functions

CONSTANTS
  Ids,          \* image ids
  Names,        \* base names of files in the image directory
  Jobs,         \* add requests, each a job with its goroutine
  Writers,      \* whoever may write an image file: the jobs and others
  Installed,    \* the ids registered when the service starts, in index order
  None

ASSUME RepositoryAssumption ==
  /\ Ids \subseteq Names
  /\ Jobs \subseteq Writers /\ IsFiniteSet(Jobs)
  /\ Ids \subseteq Writers /\ Ids \cap Jobs = {}
  /\ Installed \in Seq(Ids)
  /\ \A k, l \in DOMAIN Installed : Installed[k] = Installed[l] => k = l
  /\ None \notin Names

VARIABLES
  index,        \* index.json: a sequence of entries
  disk,         \* the image directory: for each name, what the file holds
  job,          \* the goroutine of each add job
  mu            \* s.mu: free, or what its holder is doing

serviceVars == <<index, disk, job, mu>>

-----------------------------------------------------------------------------
(* Files.  What a file holds is told by those whose bytes are in it and    *)
(* those among them that have not finished.  A writer that dies stays      *)
(* unfinished.  A checksum tells two contents apart.                       *)

Content == [writers : SUBSET Writers, unfinished : SUBSET Writers]

NoFile == [writers |-> {}, unfinished |-> {}]

\* The complete output of one writer and nothing else.
Whole(c) == Cardinality(c.writers) = 1 /\ c.unfinished = {}

\* zstd -f unlinks what is there and creates a file of its own; an earlier
\* writer goes on in the unlinked one.
Created(w) == [writers |-> {w}, unfinished |-> {w}]

\* os.Create and cp truncate the file that is there; a writer that still has it
\* open (busy) goes on in the same file.
Truncated(c, w, busy) ==
  LET both == {w} \cup (c.unfinished \cap busy)
  IN  [writers |-> both, unfinished |-> both]

\* w is done.  If its file was unlinked, the name is not affected.
Completed(c, w) == [c EXCEPT !.unfinished = @ \ {w}]

-----------------------------------------------------------------------------
(* The index.                                                              *)

Entry == [id : Ids, file : Names, digest : Content]

\* The file of the last entry with id i.
FileOf(idx, i) == idx[LastAt(idx, i)].file

\* Delete filters the slice in place (out := idx.Images[:0]) and remembers a
\* pointer to the position of the entry it drops, which by the end of the loop
\* holds whatever has been moved there.
DeletedFile(idx, i) ==
  LET kept == Without(idx, i)
  IN  IF LastAt(idx, i) <= Len(kept) THEN kept[LastAt(idx, i)].file
                                     ELSE FileOf(idx, i)

-----------------------------------------------------------------------------
(* s.mu and the request or job that holds it.                              *)

Free == [op |-> "free", id |-> None, view |-> <<>>, victim |-> None]

Held(op, i) == [op |-> op, id |-> i, view |-> index, victim |-> None]

\* A holder that has read the index and not yet written it.
Cycle == {"register", "delete", "update"}

-----------------------------------------------------------------------------
(* Jobs.                                                                   *)

\* Where runAdd has got to:
\*   queued      started, source not there yet
\*   prepared    the source is there and has been converted
\*   writing     zstd or copyFile is writing the image file
\*   written     the image file is complete
\*   hashed      its checksum is known
\*   registering it holds s.mu
\*   cleaning    declared failed, its image file not yet removed
Active == {"queued", "prepared", "writing", "written", "hashed",
           "registering", "cleaning"}
Stages == Active \cup {"idle", "done", "failed", "lost"}

\* What is added, by what runAdd makes of it: a disk image, which is converted
\* and compressed, or a compressed file, which is only copied.
Sources == {"image", "packed"}

IdleJob == [stage |-> "idle", id |-> None, source |-> None, digest |-> NoFile]

LiveJobs == {j \in Jobs : job[j].stage \in Active}

WritingJobs == {j \in Jobs : job[j].stage = "writing"}

To(j, stage) == job' = [job EXCEPT ![j].stage = stage]

\* runAdd returns: its locals are gone, Job shows the outcome.
Over(outcome) == [IdleJob EXCEPT !.stage = outcome]
Ends(j, outcome) == job' = [job EXCEPT ![j] = Over(outcome)]

ServiceTypeOK ==
  /\ index \in Seq(Entry)
  /\ disk \in [Names -> Content]
  /\ job \in [Jobs -> [stage : Stages, id : Ids \cup {None},
                       source : Sources \cup {None}, digest : Content]]
  /\ mu \in [op : Cycle \cup {"free", "removing"}, id : Ids \cup {None},
            view : Seq(Entry), victim : Names \cup {None}]
  /\ mu.op = "free" => mu = Free
  /\ mu.op = "removing" => mu.victim \in Names
  /\ \A j \in LiveJobs : job[j].id \in Ids

Installation(i) == [writers |-> {i}, unfinished |-> {}]

ServiceInit ==
  /\ index = [k \in DOMAIN Installed |->
               [id |-> Installed[k], file |-> Installed[k],
                digest |-> Installation(Installed[k])]]
  /\ disk = [n \in Names |-> IF n \in Range(Installed) THEN Installation(n)
                                                       ELSE NoFile]
  /\ job = [j \in Jobs |-> IdleJob]
  /\ mu = Free

\* (no duplicate check)
FaultStartAdd(j, i, source) ==
  /\ job[j].stage = "idle"
  /\ mu = Free
  /\ job' = [job EXCEPT ![j] = [stage |-> "queued", id |-> i, source |-> source,
                                digest |-> NoFile]]
  /\ UNCHANGED <<index, disk, mu>>

\* POST /api/images, POST /api/images/upload: the duplicate check takes s.mu for
\* the time of a List, the job is started without it.
StartAdd(j, i, source) ==
  /\ job[j].stage = "idle"
  /\ mu = Free
  /\ i \notin IdsIn(index)
  /\ job' = [job EXCEPT ![j] = [stage |-> "queued", id |-> i, source |-> source,
                                digest |-> NoFile]]
  /\ UNCHANGED <<index, disk, mu>>

\* Download or stat of the source, and qemu-img convert for a disk image.
Prepare(j) ==
  /\ job[j].stage = "queued"
  /\ To(j, "prepared") \/ Ends(j, "failed")
  /\ UNCHANGED <<index, disk, mu>>

\* zstd, or copyFile for what is compressed already, opens the image file.  busy
\* is who else has image files open.
BeginWrite(j, busy) ==
  /\ job[j].stage = "prepared"
  /\ disk' = [disk EXCEPT ![job[j].id] =
                IF job[j].source = "packed" THEN Truncated(@, j, busy)
                                            ELSE Created(j)]
  /\ To(j, "writing")
  /\ UNCHANGED <<index, mu>>

\* It ends.  When it fails, what it has written stays, unless zstd removes it.
EndWrite(j) ==
  /\ job[j].stage = "writing"
  /\ \/ /\ disk' = [disk EXCEPT ![job[j].id] = Completed(@, j)]
        /\ To(j, "written")
     \/ /\ Ends(j, "failed")
        /\ \/ UNCHANGED disk
           \/ job[j].source = "image" /\ disk' = [disk EXCEPT ![job[j].id] = NoFile]
  /\ UNCHANGED <<index, mu>>

\* (zstd is started and not waited for)
FaultHash(j) ==
  /\ job[j].stage \in {"writing", "written"}
  /\ disk[job[j].id] # NoFile
  /\ job' = [job EXCEPT ![j].stage = "hashed", ![j].digest = disk[job[j].id]]
  /\ UNCHANGED <<index, disk, mu>>

\* sha256File on whatever the name holds by now.
Hash(j) ==
  /\ job[j].stage = "written"
  /\ \/ /\ disk[job[j].id] # NoFile
        /\ job' = [job EXCEPT ![j].stage = "hashed", ![j].digest = disk[job[j].id]]
     \/ To(j, "cleaning")
  /\ UNCHANGED <<index, disk, mu>>

LockAndRead(j) ==
  /\ job[j].stage = "hashed"
  /\ mu = Free
  /\ mu' = Held("register", job[j].id)
  /\ To(j, "registering")
  /\ UNCHANGED <<index, disk>>

\* (s.mu is not given back when the index cannot be written)
FaultRegister(j) ==
  /\ job[j].stage = "registering"
  /\ \/ /\ index' = Append(mu.view, [id |-> job[j].id, file |-> job[j].id,
                                     digest |-> job[j].digest])
        /\ Ends(j, "done")
        /\ mu' = Free
     \/ To(j, "cleaning") /\ UNCHANGED <<index, mu>>
  /\ UNCHANGED disk

\* The entry is appended.  Reading or writing the index may fail.
Register(j) ==
  /\ job[j].stage = "registering"
  /\ \/ /\ index' = Append(mu.view, [id |-> job[j].id, file |-> job[j].id,
                                     digest |-> job[j].digest])
        /\ Ends(j, "done")
     \/ To(j, "cleaning") /\ UNCHANGED index
  /\ mu' = Free
  /\ UNCHANGED disk

\* os.Remove(finalZst), after the job has been declared failed.
CleanUp(j) ==
  /\ job[j].stage = "cleaning"
  /\ disk' = [disk EXCEPT ![job[j].id] = NoFile]
  /\ Ends(j, "failed")
  /\ UNCHANGED <<index, mu>>

-----------------------------------------------------------------------------
(* Requests.                                                               *)

\* DELETE /api/images/{id}.
DeleteRead(i) ==
  /\ mu = Free
  /\ i \in IdsIn(index)
  /\ mu' = Held("delete", i)
  /\ UNCHANGED <<index, disk, job>>

\* (the entry to delete is not remembered)
FaultDeleteWrite ==
  /\ mu.op = "delete"
  /\ \/ /\ index' = Without(mu.view, mu.id)
        /\ mu' = [mu EXCEPT !.op = "removing"]
     \/ mu' = Free /\ UNCHANGED index
  /\ UNCHANGED <<disk, job>>

DeleteWrite ==
  /\ mu.op = "delete"
  /\ \/ /\ index' = Without(mu.view, mu.id)
        /\ mu' = [mu EXCEPT !.op = "removing", !.victim = DeletedFile(mu.view, mu.id)]
     \/ mu' = Free /\ UNCHANGED index
  /\ UNCHANGED <<disk, job>>

\* The file goes, s.mu is given back.  That the file cannot be removed is ignored.
DeleteRemove ==
  /\ mu.op = "removing"
  /\ \/ disk' = [disk EXCEPT ![mu.victim] = NoFile]
     \/ UNCHANGED disk
  /\ mu' = Free
  /\ UNCHANGED <<index, job>>

\* PUT /api/images/{id}.
UpdateRead(i) ==
  /\ mu = Free
  /\ i \in IdsIn(index)
  /\ mu' = Held("update", i)
  /\ UNCHANGED <<index, disk, job>>

UpdateWrite ==
  /\ mu.op = "update"
  /\ index' = mu.view \/ UNCHANGED index
  /\ mu' = Free
  /\ UNCHANGED <<disk, job>>

\* The server process stops.  Its goroutines and the list of jobs are gone; what
\* they have written stays as it is.  It comes back with nothing but the index.
ServerStops ==
  /\ LiveJobs # {} \/ mu # Free
  /\ job' = [j \in Jobs |-> IF j \in LiveJobs THEN Over("lost") ELSE job[j]]
  /\ mu' = Free
  /\ UNCHANGED <<index, disk>>

-----------------------------------------------------------------------------

RequestStep == DeleteWrite \/ DeleteRemove \/ UpdateWrite

=============================================================================
