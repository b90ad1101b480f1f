# A TLA+ model of BootSeed

BootSeed boots a machine into an Alpine system that runs from memory (PXE, or `bootseed-enter` from an
installed system), where an *agent* offers a web API to write a disk image to a local disk. A *server* keeps
the image repository, a list of nodes and their deploy history. This directory models the parts where that
can go wrong, checks the models with TLC and proves the main results with TLAPS.

All paths below are relative to `src/`.

## 1. Inventory

| Component | State | Operations | Status |
|---|---|---|---|
| **Deploy manager** `agent/internal/deploy/state.go` | current task, its state, the cancel function of its context | Acquire, SetState, Cancel, Finish, IsRunning; each under `m.mu` | modelled |
| **Deploy handlers** `agent/internal/api/deploy.go`, `handlers.go` | tracker and last result under `s.mu`; one `runDeploy` goroutine and one sync goroutine per deployment | POST deploy, cancel, reboot, poweroff; automatic reboot, catalog reload, event stream | modelled, except handlers that only read |
| **Write pipeline** `agent/internal/deploy/pipeline.go` | two digests, the open target, a child process with two pipes, a feeder goroutine | Run | modelled |
| **Progress tracker** `agent/internal/progress/progress.go` | stage, counters, listener channels | SetStage, Fail, Subscribe, Unsubscribe, Broadcast | modelled |
| **Reporting** `agent/internal/report/report.go` | none; posts with an 8 s timeout, never repeated | Register, Heartbeat, DeployStart, DeployEnd | modelled |
| **Catalog** `agent/internal/images/images.go` | the image index, replaced as a whole | LoadFromHTTP, ValidateIndex, Get, IsCompatible | modelled |
| **Disk policy** `agent/internal/disks/disks.go` | none | Enumerate, decideAllow, resolveStablePath, resolveTargetDisk | modelled |
| **Boot context, configuration** `agent/internal/bootcontext`, `config` | none after start | Build, VerifyArchitectures, ValidateImageURL | architecture check, options |
| **Node store** `server/internal/store/store.go`, `model` | per node: what it registered, last_seen, deploy records | Register, Heartbeat, DeployStart, DeployEnd, views | modelled |
| **Node API, proxy** `server/internal/api/nodes.go`, `nodes_proxy.go` | none | checks in front of the store, forwarding to a node's agent | reports and deletion |
| **Image service** `server/internal/imagesvc/imagesvc.go`, `server/internal/api/images.go` | `index.json`, image files, add jobs | StartAdd/runAdd, Update, Delete | modelled |
| **Image scripts** `scripts/add-image.sh`, `remove-image.sh` | the same files, under a lock of their own | add, remove | modelled from their lock on |
| **bootseed-enter** `scripts/bootseed-enter.sh` | boot-loader entry, kernel and initramfs under /boot | install, one-shot enter, cleanup | not modelled |
| **initramfs /init** `alpine/build-initramfs.sh` | interfaces, imported network settings | network decision, agent start | not modelled |
| Hardware listing, start-up, PXE and build scripts, web pages | none that others rely on | | not modelled |

How they interact. A request to `/api/deploy` passes `handleDeploy`, which asks the catalog and the disk
policy, takes the manager with `Acquire`, publishes a new tracker and starts `runDeploy`. `runDeploy` reports
to the server, starts a sync goroutine and calls `Pipeline.Run`. The pipeline announces its stages on the
tracker; the sync goroutine copies them into the manager. Cancel and shutdown requests act on the manager at
any moment. The server learns about all of this only from reports it may miss. The image service and the
scripts write the index that every agent validates as a whole.

What is hard here:

* the manager has *one* current task and every operation acts on whatever that is, while several goroutines,
  of more than one deployment, hold results they computed earlier (§3.1);
* a context is cancelled in one place, noticed in another, and a read that was under way may still succeed;
* the download has no timeout, so whether anything ends at all depends on a server that may be silent;
* loop, feeder and decompressor child wait for each other through bounded pipes, and the child may die (§3.2);
* reports are lost, late or overtaken, and do not say which deployment they are about (§3.3);
* the image index is edited by programs that do not know of each other's lock, and an image file has its name
  long before it has an entry (§3.4);
* a broadcast sends to listeners that may be leaving, and a client may come too late for the last one (§3.5);
* a request relies on an index, a catalog, a list of disks and a device that others change between its looks at
  them (§3.6).

`PROJECT.json` lists the hazards line by line.

## 2. Plan

1. `DeployManager`, `DeployAgent` — the core: who may write to the disk, and when. **Done**, with proofs.
2. `VerifiedWrite`, `Pipeline` — what one run of the pipeline promises its caller, and that the code keeps it.
   **Done**, with proofs.
3. `NodeStore`, `NodeHistory` — the server's record of a node against what the node did. **Done**, with proofs.
4. `ImageService`, `ImageRepository` — add jobs, update, delete and the two scripts over one index and one
   directory, with a server that stops between two steps. **Done**, with proofs.
5. `Tracker` — the listeners of a deployment, who leave while it broadcasts. **Done**, with proofs.
6. `Catalog`, `DiskPolicy`, `Admission` — what the writers of an index register and its readers refuse, which disk
   may be written, and `handleDeploy` from the request to the open device over both. **Done**, with proofs.

Every safety invariant, action property and refinement that a passing run checks is a theorem (§5). The modules have
no recursive operators, so that they can be proved about; the one loop over a list is a recursive function. Still to
do: the hazards that `PROJECT.json` lists without a property, where a model of the missing part is worth its size.

## 3. Modules

### 3.1 `DeployManager`, `DeployAgent`

`DeployManager` has the operations of `state.go` as actions on `current`, `state`, `cancelFn` and `ctxDone`.
`cancelFn` names the task whose context `m.cancel` cancels; `ctxDone` is the set of cancelled contexts. Each
operation holds `m.mu` throughout, so each is one step of whoever calls it.

`DeployAgent` adds the callers. For each request `t`, `pc[t]` is where `handleDeploy` and then `runDeploy`
have got to; a label is a point between two critical sections or two calls of the pipeline:

| `pc` | code |
|---|---|
| `new` → `acquired` → `spawned` | `deploy.go:121`, `:129-132`, `:138` |
| → `preparing` → `launching` | `SetState(preparing)` `:153`; start report, sync goroutine `:154-184` |
| → `requesting` → `copying` → `syncing` | `Pipeline.Run`: GET, target opened, end of copy |
| → `closing` → `returned` → `concluding` | deferred close; Run returns, `close(stopSync)`, result `:186-190` |
| → `completing` → `finishing` → `ended` | `:214`, `:215-216`, `Finish` `:198/:206/:217` |
| → `rebooting` → `done` | end report; `autoReboot` `:222` |

`syncPc`, `inbox`, `held` are the sync goroutine: the channel it subscribed, and the stage it has taken from
the channel and not yet written to the manager. `sdPc` is a reboot or poweroff request. `interrupted` is the
only variable that is not in the code: it remembers that a context was cancelled by something other than its
own deployment's `Finish`, and no guard reads it.

What the pipeline does with data is left to `Pipeline`; here it opens the target, copies, succeeds or fails. Stages
are announced here without the panic that §3.5 finds in a broadcast, which ends the agent and everything in it. It
matters for liveness: `SyncStops` and `ShutdownTakesEffect` are about an agent that has not crashed.

Properties (`DeploySafety.cfg`, `DeployLiveness.cfg`):

* `ExclusiveUntilInterrupted` — what the manager's "one deployment at a time" amounts to. It holds as long as
  no cancel, shutdown or foreign `Finish` has cancelled a context. The first cancel ends it: see §4.
* `CurrentStoppable`, `AbandonedIsStopped` — the manager can always stop the task it calls current, and a task
  shown as failed or cancelled has had its context cancelled.
* `OrphanNeedsLateCompletion` — a deployment that is live, not current and not cancelled cannot be stopped by
  anyone. That takes an earlier deployment that completed although it had been cancelled; nothing else does it.
* `StatusCoherent` — tracker and last result, which are changed under another lock than the manager, belong to
  the live deployment until something is interrupted.
* `CancelDrains`, `SyncStops`, `ShutdownTakesEffect` — liveness.

Fairness. Every goroutine that can move is scheduled (weak fairness of `RunLocally`, `SyncStep`,
`ShutdownStep` for each). Steps that wait for the image server are fair only once the context is cancelled:
`http.Client{Timeout: 0}` (`pipeline.go:51`) waits for ever, and `NewRequestWithContext` ends the wait on a
cancel. Requests need not arrive.

Bounds. Three requests, because the worst interleavings take three: one that is interrupted and completes, one
it takes the manager from, one admitted instead. A constraint follows the third only while no sync goroutine
has been scheduled (2.2 million states; without it the run does not end in five minutes). It has no shutdown
requests: to the manager a shutdown is a cancel. Liveness has one deployment, followed completely, and two
shutdown requests. The proofs need none of these bounds. `CHECK_DEADLOCK FALSE`: the machine may be off, and
requests run out.

### 3.2 `VerifiedWrite`, `Pipeline`

`VerifiedWrite` is what a caller may rely on: blocks are appended to the target, then there is one verdict and
the target is not touched again; a success that a checksum *vouches* for means that the target holds the
published image.

`Pipeline` is `Run` with everything it starts. The published file is `N` units, unit `i` decodes to block `i`;
anything else the server may deliver is `Wrong`, and a body may end or break anywhere. Plain and gzip images
are read by the loop of `copyWithProgress`; xz and zst images go through a feeder goroutine, the child's stdin
pipe, the child and its stdout pipe. The child may find fault with its input, or be killed at any moment.
Two digests are equal exactly when what was hashed is. A digest read while the feeder may still add to it
(`pipeline.go:132`) may come out as anything.

`ImplementsVerifiedWrite` is the refinement, with `Vouched` for "the raw checksum is published, or the
compressed one is and the child was not killed". `NothingLostInTransit` relates the two digests across
the three processes; `HashedIsWritten` relates the digest to the disk. `CancelReturns`, `FeederEnds` and
`ServedRunReturns` are about hanging: a cancelled Run returns, the feeder does not outlive it, and with a
server that keeps answering nobody waits in a circle. Fairness is as above: Run, feeder and child are
scheduled, the server is not obliged to anything, a read of a closed body or under a cancelled context ends.

Bounds: three units and pipes of one, so that the child and the feeder block on full pipes and a unit can be
in each place at once; all twelve kinds of catalog entry.

One unit per read and one block per unit is an abstraction: the code reads up to 4 MB at a time and a
decompressor has buffers of its own. Nothing in the properties depends on where the boundaries are.

### 3.3 `NodeStore`, `NodeHistory`

`NodeStore` is what `store.go` keeps of one node: whether it has a record (`known`), whether `last_seen` is
recent (`seen`, cleared by `OnlineTimeout`), and the list `deploys`. Each operation is one bbolt transaction and
so one step. The field `of` of a record says which deployment its start report came from; reports do not carry
it, and no operation reads it.

`NodeHistory` adds the agent, reduced to its reports, to what orders them, and to what the manager says when the
shutdown handler asks. `Boot` posts the registration and `Serve` follows its answer (`main.go:83-104`); `dpc[d]` follows
`runDeploy` from admission over its start report, the pipeline and `Finish` to its end report. `net` holds the requests
under way. A sender goes on when its report was handled or given up (8 s, `report.go:28`), and a request that was given
up may still arrive. `GoDown` is a reboot or a power failure at any moment.

Of the manager there is its task (`current`), whether that is shown as running (`shown`) and whose context is done
(`cancelled`). A sync goroutine (`syncs`) makes the task of the moment running, also after the end of its own
deployment: `SyncApplies` is the stale `SetState` of §4. `Conclude` is the return of the pipeline, `SetState(completed)`
and `Finish` in one step; what may come between the last two is the subject of `DeployAgent`, and here a deployment
admitted there would be admitted after them.

`sd` is a shutdown request, step by step: it reads `IsRunning` (`ShutdownBegin`, `handlers.go:205`), cancels whatever
task there is by then and drops the result (`ShutdownCancel`, `:207`), waits at most 3 s and posts an end of its own
(`ShutdownPost`, `:208-219`), has its answer (`ShutdownReported`) and takes the node down (`GoDown`), or does not, when
the command for it fails. Between any two of these the deployment may finish and report. There is one shutdown request
at a time.

Ghosts: `trouble` and `overlapped` remember that a report was lost or late, and that two deployments, or a shutdown
request and another deployment or a start, were reporting at once; `shut` which deployments a shutdown request has found
running.

* Always: `HistoryIsGenuine` — the history lists only deployments that took place, none twice;
  `SuccessesNotInflated` — not more successes than there were, although any result may end up in another record.
* Without trouble and overlap: `HistoryIsAccurate` — no record has a success or failure that was not one, and a record
  has the result its deployment reported, and none before that, unless the deployment is in `shut`;
  `RunningIsLive` — a record is *running* only while the deployment is, or until the node it died with registers again;
  `PortalIsRight` — what the portal derives from the records, with the same exception.

The exception is needed even when nothing is lost: a deployment may complete and report between `:205` and `:207`, and
one that was over long ago may be shown as running by a stage applied late. In both cases the handler's report turns
*completed* into *cancelled*.

Bounds (`NodeHistory.cfg`): two deployments and two boots, so that a record can be met by the end of another
deployment, of the shutdown handler and by a second registration; deployments are symmetric. `HistoryView` merges states
with the same future as far as the invariants can tell: once there was trouble or overlap, no invariant asks any more for
the difference between failed and cancelled, whether the node is online or what is in `shut`, and no step depends on
them; a cancelled context matters only to a pipeline that is yet to return (1.65 million states). `net` is a set: two
heartbeats are one, and every other report is sent once per sender. `CHECK_DEADLOCK FALSE`: boots run out.

### 3.4 `ImageService`, `ImageRepository`

`ImageIndex` has what writers and readers of `index.json` do with it as a list: the ids in it, the first and the last
entry with an id, and the list without an id (`Without`), which the code makes in a loop. `MCAdmission` compares
`Without` with the library's `SelectSeq` on all short lists.

`ImageService` is `imagesvc.go`: `index` (the entries of `index.json`), `disk` (what each file of the directory
holds), `job[j]` (where `runAdd` has got to) and `mu` (the holder of `s.mu`, with the snapshot it has read). A content
is told by whose bytes are in it and which of those writers have not finished. `copyFile` and `cp` truncate the
file that is there, so that another writer's bytes mix in; `zstd -f` unlinks it and starts a new one. Reading and
replacing the index are two steps of the holder. `ServerStops` ends everything at once and leaves what is on disk.

| `job[j].stage` | code |
|---|---|
| `queued` → `prepared` → `writing` → `written` | `imagesvc.go:244-268`, `:283-296`, `:277` or `:298` |
| → `hashed` → `registering` → `done` | `:306`, `:314-315`, `:316-326` |
| `cleaning` → `failed` | `:308` or `:328` has reported the failure, `os.Remove` follows |

`ImageRepository` adds the scripts, which exclude each other (`LockFree`) but not the service, from the point where
they take their lock. `stale` remembers that a snapshot was overtaken before it was written back; `contestedIds` and
`contestedFiles` that an id was being added twice, or a file had two users, at once.

* `RegisteredIntact` — a registered image is on disk, whole and with the registered checksum, through failures,
  retries and server stops, unless its file was contested.
* `RegisteredOnce` — an id is registered twice only if two additions of it overlapped. Two overlapping ones of the
  service are enough: the duplicate check (`:226-230`) is minutes before the registration. Agents refuse an index
  with a duplicate id altogether.
* `LockProtectsIndex` — `s.mu` has one holder, which gives it back on every path, and without scripts nothing
  changes under it.
* `NothingForgotten` — an image leaves the index only by its own removal or by an overtaken snapshot.

Bounds (`ImageRepository.cfg`): two ids, whose files are also what a script may write; one image installed; two jobs;
one script execution, since scripts exclude each other. The constraint `NotStale` stops where a snapshot has been
overtaken: the two invariants promise nothing from there on, and `NothingForgotten` is still checked on the step that
writes it back (1.3 million states). Assumed: a source given as a path is not in the image directory itself.
`CHECK_DEADLOCK FALSE`: jobs and scripts run out.

### 3.5 `Tracker`

`stage`, `written` and `listeners` are the fields of `progress.go`; `queue[l]` is the channel of a listener,
`closed` the channels that are closed. The broadcaster is `runDeploy` alone: `Start`, `SetStage`, `AddWritten` (the
pipeline), `Return` (`close(stopSync)`), `Conclude` (`Fail`, or `SetStage(completed)`) and `Repeat` (the extra
`Broadcast`). Each announcement is three kinds of step: the change under `t.mu`, `CopyListeners` under `t.mu` again,
and one `Send` for each copied listener, without it. `run = "crashed"` is a send on a closed channel.

| `pc[l]` | code |
|---|---|
| `away` → `subscribed` | `Subscribe`, `deploy.go:266` (the sync goroutine, `:169`, goes to `listening` at once) |
| → `listening` | `FirstFrame` `:270`; `Tick` `:281-283` and `Receive` `:287-291` stay here |
| → `ending` → `ended` | a frame was the last (`:284`, `:292`); deferred `Unsubscribe` |
| → `leaving` → `gone` | the client is gone `:279`, or `stopSync` is closed `:174`; deferred `Unsubscribe` |

* `NothingSkipped` — the channel of a listener holds exactly what was broadcast since it subscribed and not yet
  received. A deployment broadcasts at most five times and a channel holds sixteen, so the non-blocking send never drops.
  `DeployAgent` relies on it.
* `EndsWithOutcome` — a stream that the agent ends has shown the final state last. In between frames may go
  backwards: a tick shows a newer snapshot than what waits in the channel.
* `CrashNeedsLeaver` — only a listener that leaves between the copy and the send makes the agent panic; see §4.
* `OutcomeShown` — a client that stays is told the outcome, also if it subscribed after the last broadcast.

Fairness: the goroutine of a stream is scheduled, its ticker fires, its client reads. The deployment may stand
still and clients may stay away. Bounds (`Tracker.cfg`): one client, who may come at any moment and leave at any other,
and the sync goroutine; three blocks (44 thousand states). Clients do not act on each other: the one thing they share
is the list, and a broadcast treats its members one by one. With two clients the run takes more than five minutes.
`AddDownloaded` is left out, since the feeder may go on with it after the end and no property speaks of it.
`CHECK_DEADLOCK FALSE`: a deployment ends.

### 3.6 `Catalog`, `DiskPolicy`, `Admission`

`Catalog` has both sides of `index.json`. The writers: what `StartAdd` and `Update` take and what `runAdd` registers
(`ServiceTakes`, `ServiceEntry`, `Amended`), and the same of `add-image.sh`. The readers: `ValidateImage`,
`ValidateIndex`, `Get`, `IsCompatible`. An entry is the fields one side decides and the other checks.

`DiskPolicy` is `disks.go` over a map from kernel names to physical disks that changes when disks are plugged.
A path is a link that udev keeps (`byid`), a name made of a WWN (`guess`, which no device has, because
`guessByIDFromWWN` drops the `0x` that the link has), or a kernel name. `Opens` is what a path leads to. Assumed of udev:
a link is its disk's at all times.

`Admission` is `handleDeploy`, `handleImagesReload` and the `open` of the pipeline, for several requests:

| `pc[r]` | code |
|---|---|
| `idle` → `submitted` | the client's choice, from what `GET /api/disks` shows it |
| → `fetching` | architecture check and choice of the server, `deploy.go:51-74` |
| → `fetched` → `loaded` | `LoadFromHTTP`, `images.go:76-97`; `LoadFromReader` `:54-74`, which replaces the catalog of all requests |
| → `found` | `Get`, architecture, firmware, format, `deploy.go:81-105` |
| → `listing` | `lsblk` says which disk is under each name, `disks.go:56` |
| `listing` | `udevadm` is asked for the link of one name after the other, and may fail for each, `disks.go:186` |
| → `resolved` | match, policy, size, `deploy.go:239-246`, `:114-119` |
| → `admitted` → `writing`, `failed` | `Acquire` `:123`, which may refuse; the device is opened, `pipeline.go:106` |

`rejected` is any error, and the end of a reload. The load at start-up (`main.go:69`) is a reload that comes first.
Four ghosts: `versions` (what each server has published), `seen[r]` (the same since `r` came in), `overtaken`
(requests whose catalog was replaced between their load and their look), `renamed` (requests in whose listing the names
changed after `lsblk` and before the last `udevadm`).

* `CatalogIsWhole` — the catalog is one published index, all of it, and all of it valid.
* `MetadataIsCurrent` — the entry a deployment uses was published by the server it names and not before the request,
  unless the request was overtaken: `Load` and `Get` are two critical sections, and between them the catalog may have
  become that of another server.
* `FitsTheNode` — an admitted image is for the architecture the node runs on and its boot mode, whatever the
  kernel arguments say.
* `OpenedIsChecked` — a request for a link opens that disk or none, whatever the names do. The disk that is opened is
  the one whose kind and size were looked at, through any renaming but one *during* the listing: `lsblk` gives kind and
  size, `udevadm` later the link of whatever has the name by then, so that one disk is judged and another written
  (`renamed`). With `ALLOW_UNSTABLE_DISK_NAME` and a kernel name the promise does not hold either.
* `OpenedIsAllowed` — with the same two exceptions, what is opened is allowed and large enough.
* `RefusedForAReason` — the tools' own indexes are refused only for a duplicate id, a missing name, `..`, an item of
  firmware that is none (an empty one, or one with a blank: `--firmware bios,`, `"bios, uefi"`, `"bios uefi"`) or
  `raw_size` 0. One such entry makes every agent of the server refuse all its images.

Bounds (`Admission.cfg`): two requests and a reload, two servers, one change of an index, one renaming, six disks (a
good one; a small, a removable, a read-only and a SAN one; one without link and WWN) of which two are plugged, three
nodes (as declared; declared wrongly; aarch64 with an unknown boot mode), three configurations. The constraint
`OneThingAtATime` lets requests meet up to the catalog, where they share something, and follows one at a time behind it;
`DeployAgent` has what they share from `Acquire` on. Edits of an index, other nodes and second servers are combined with
the plain pair of disks, other disks with one image (127 thousand states). No disk of the run is a multipath device,
since `lsblk -J` lists none at the top level (§4); that clause of the policy is only proved. `MaxSize` 2 tells "too
small" from "large enough" and 0 from both.
`CHECK_DEADLOCK FALSE`: requests run out.

## 4. Where the code departs from what the repository says

Each is a run of its own, in which TLC finds the behaviour.

* `FindOverlap` — `Cancel` makes the task terminal at once, so a second deployment is admitted while the first
  still has its target open (`state.go:122`, against `state.go:3` and `docs/IMPLEMENTATION.md:148`). For the
  same reason `waitCancelled` (`handlers.go:228`) has nothing to wait for before the machine goes down.
* `FindStaleStatus` — a stage applied late leaves a finished task running for ever; every later deployment is
  refused until someone cancels (`deploy.go:180`, against `:165-166`).
* `FindShortSuccess` — the child's exit status is dropped and `written` is not compared with `raw_size`: an
  image with only a compressed checksum, which is all that BootSeed's own tools register, is reported as
  completed when its decompressor is killed after reading it (`pipeline.go:227`, against `docs/DEPLOY.md:418-421`).
* `FindWrongFileDeleted` — `Delete` filters the slice in place and keeps a pointer into it: unless the image is the
  last of the index, the file of the *next* image is removed, which stays registered (`imagesvc.go:123`, against
  `:112` and `docs/SERVER-PORTAL.md:100`).
* `FindSendOnClosed` — a broadcast sends to channels it has copied before it released `t.mu`; a listener that
  unsubscribes in between has closed its channel, and the send panics. No client is needed: `close(stopSync)` sends the
  sync goroutine away at the very moment `runDeploy` broadcasts the end (`progress.go:179`, `deploy.go:187`, against
  `server.go:131`: a deployment does not depend on the requests around it).

Others are the named exceptions of properties that hold, or follow from the models without a run:

* Service and scripts lock the index against their own kind only, and one of two concurrent changes is lost
  (`imagesvc.go:114`, against `docs/SERVER-PORTAL.md:146`): `ServiceOvertaken` and `ScriptOvertaken` in
  `NothingForgotten`.
* An end report replaces a result that was already final (`store.go:162`, against `handlers.go:202`, which takes it
  to update a running record only): `overlapped` and `trouble` in `HistoryIsAccurate`. Without either, the shutdown
  handler does so: it reports *cancelled* for a deployment that completed after it had looked, or that a late stage made
  look running (`handlers.go:205-219`): `shut`.
* The disks are listed again before a deployment against changes in between (`deploy.go:107`, "TOCTOU"), but a listing
  is several looks itself, and kind and size may be of one disk and the by-id link of another (`disks.go:56`, `:186`):
  `renamed` in `OpenedIsChecked` and `OpenedIsAllowed`.
* The automatic reboot and the shutdown handler do not look at the manager again and cut off a deployment admitted
  meanwhile (`deploy.go:222`, against `docs/IMPLEMENTATION.md:153`): `AutoReboot` and `PowerDown` have no such guard.
* A compressed image added through the service is registered with `raw_size` 0 (`imagesvc.go:442`, against
  `docs/SERVER-PORTAL.md:104`), which agents refuse: an exception of `RefusedForAReason`.
* The paths of a multipath device are disks to `lsblk -J`, which lists the device itself only as their child:
  `Enumerate` offers the paths and never the device (`disks.go:67`, against `disks.go:7` and
  `docs/IMPLEMENTATION.md:147`).

## 5. Proofs

`DeployAgentProofs` proves, for any set of requests and shutdown requests, every safety property of
`DeploySafety.cfg`: `TypeCorrect`, `CurrentIsStoppable`, `AbandonedTasksAreStopped`,
`OrphansNeedLateCompletion`, `ExclusionUntilInterrupted`, `StatusIsCoherent`. The only assumption is
`TaskAssumption`, that nil is not a task.

`OrphanNeedsLateCompletion` is not inductive: a step of `Admit` replaces a current task that is shown as
over, and one has to know that it is either cancelled or shown as *completed* by somebody else's success. `IInv`
adds what is needed: `m.cancel` belongs to the current task or is nil (`OwnCancel`), requests that were not
admitted have left no trace (`Fresh`), a cancelled context of an unfinished deployment is accounted for
(`Noted`), a live current task shown as completed is cancelled or the victim of a late completion
(`LateCurrent`), and the sync goroutine only writes running states (`HeldOK`). Most actions are `Quiet`: they
cannot disturb any of it; `AdmitStep`, `ConcludeOkStep` and `StopStep` are the three that can.
`ExclusionUntilInterrupted` follows from `IInv` without another induction, and `StatusIsCoherent` is then
inductive relative to it.

`TrackerProofs` proves every safety property of `Tracker.cfg`, for any number of clients and any length of image
(the run has one client): `TypeCorrect`, `StreamsEndWithOutcome`, `CrashesNeedLeavers`, `NothingIsSkipped`. The only
assumption is `TrackerAssumption`: the sync goroutine is not a client, and the image has a length.

None of the three is inductive. A stream ends when a terminal frame is taken out of a channel, which says nothing of
the present unless terminal frames still in a channel tell of the end there is (`Faithful`), and that needs that
nothing which a snapshot shows changes after a terminal stage (`Final`). A crash needs a leaver because the channels in
the list are open and those that are closed and still to be sent to have been closed since the copy (`Open`).
`NothingSkipped` depends on how often `runDeploy` broadcasts: every stage once and "completed" twice, five times in all
(`Bounded`), so that the non-blocking send always finds room; and on the snapshot under way being the last of the
history for everybody who is yet to be sent it (`Copied`). It is inductive relative to the invariant of the other two.

`PipelineProofs` proves, for an image and pipes of any length, `TypeCorrect`, `NothingIsLost`, `WhatIsHashedIsWritten`
and the refinement, `RunImplementsVerifiedWrite`. Assumed are `PipelineAssumption` (an image has a unit, a pipe has
room for one) and `ImagesAssumption` (the catalog entries are entries). Every step but the last maps to an append or
stutters. The last is allowed because a success is `Justified`: what the target has is what the raw digest was fed
(`Written`), so a raw checksum settles it; a compressed one is about what came *in*, and for it one has to know that a
child which exits of itself, while its output is read, has put out everything its feeder gave it (`Conveyed`). That
rests on `NothingLostInTransit`: what was hashed on the way in is what has come out and what is in the pipes and in
the child, in order. A child that was killed has no `Conveyed`, and `Vouched` excludes it.

`NodeHistoryProofs` and `NodeHistoryCalmProofs` prove all of §3.3 for any number of deployments and boots, from
`HistoryAssumption` (no deployment and no result is nil; `MaxBoots` is a number). The first has what holds whatever
becomes of the reports: `TypeCorrect`, `HistoryStaysGenuine`, `NoMoreSuccesses`. A start is sent once and only by a
deployment that has no record (`Sent`); and the records that say *completed* are at most as many as the successes whose
end report was handled or lost (`Counted`): each of them takes such a report, whichever record it hits. The second has
what holds without trouble and overlap: `CalmHistoryIsAccurate`, `CalmRunningIsLive`, `CalmPortalIsRight`. Calm is
never regained (`CalmBefore`), so one may assume it of the past. Then a report is in the network just while its sender
waits for it (`Timely`), a deployment that lives is the manager's task and so the only one (`OneLive`), and the last
record is the one a report means (`LastIsMeant`, and `ShutdownFinds` for the end that the shutdown handler reports):
`Recorded` is what an end report, which names no deployment, then leaves in each record, with *cancelled* allowed for
those in `shut`.

`ImageIndexProofs` has the lemmas about lists on which the next two rest. `Without` is a loop over a list of any
length. The induction theorems of the library cannot be used, because they take the formula as a parameter;
`NatInductionSet` takes a set instead and is proved from the well-foundedness of `<`. `LoopExists` shows that
the recursive function exists, `WithoutSelects` that it keeps exactly the entries with another id, in order and none
twice.

`ImageRepositoryProofs` proves all of §3.4 for any number of images, jobs and scripts (finitely many of the latter two:
`RepositoryAssumption`, `RunsAssumption`): `TypeCorrect`, `LockProtects`, `NothingIsForgotten`, `OnceRegistered`,
`IntactRegistered`. The parts of `IInv` are proved in order, each from those before it:

* `Base` is the types, `Locked` who holds `s.mu`, `Undisturbed` and `Remembered` which snapshots are overtaken. From
  these follow `LockProtectsIndex` and the action property `NothingForgotten`.
* `AddedOnce`: an id that was never contested has one addition at most, and is not registered while it has. From it,
  `RegisteredOnce`.
* `RegisteredIntact` says nothing of a file before it is registered, and an entry is only as good as what its job knew
  when it computed the checksum. `FilesRight` says what each job and script knows of its file at each stage. Others do
  not take it back because a file that was never contested has one user at most (`UsedAlone`). A job that starts over
  after a failure finds what the failed one left: whoever is unfinished in a file has begun it and has no other file
  open (`WritersKnown`), so that nobody writes into the file of an addition that begins alone.

None of this needs the run's constraint `NotStale`: the theorems are about all behaviours.

`AdmissionProofs` proves all of §3.6 for any requests, servers, disks, nodes and edits: `TypeCorrect`,
`CatalogStaysWhole`, `MetadataStaysCurrent`, `OnlyFittingImages`, `OnlyCheckedDisks`, `OnlyAllowedDisks`,
`OnlyFiveReasons`. A request carries what it learns from one step to the next: the index it was sent, the entry it
found, the disks that were listed and the one it chose. The invariant says what each was worth when it was learnt and that others do not take it
back: what was fetched is a published index (`Sourced`), an image found is for this node (`Suited`) and not older than
the request (`Current`), what `udevadm` answered belongs to the listed disk as long as the names have not changed since
`lsblk` (`Looked`), and a path belongs to the disk that was looked at and is the target, if that is a link (`Secured`). `AdmissionAssumption` gives the
constants their types and one thing more: an agent runs on one of the two architectures it is built for.
`OnlyFiveReasons` is about indexes that only the service and the scripts have written, and has that as its hypothesis
on `Published`; the invariant it needs is that every edit keeps it so (`ToolsOnly`). The constraint `OneThingAtATime`
is not needed.

Only model-checked: liveness — `CancelDrains`, `SyncStops`, `ShutdownTakesEffect`, `CancelReturns`, `FeederEnds`,
`ServedRunReturns`, `OutcomeShown` — since TLAPS does not reason about fairness. The properties violated in §4 are
claims of the repository that the code does not keep; no theorem states them, and where a theorem's property has one as
its exception it names it.

## 6. Operators named `Fault...`

Before some definitions stands an operator `Fault...`: what a plausible slip would have made of the definition.
No action uses them. `PROJECT.json` ("mutants") pairs each with a property that TLC finds violated when it takes
the definition's place, which shows that the property depends on that line of the code.

## 7. Not modelled

* *bootseed-enter*: one sequential script. A run that fails after an earlier one succeeded leaves `next_entry` set
  (`bootseed-enter.sh:207`) over files of both runs (`:176-185`), and a cleanup that fails in `grub-mkconfig` leaves it
  set over no files (`:104-110`). Both are plain from the text of the script; what the machine then does is GRUB's and
  the kernel's business, of which the repository has no code to translate.
* *initramfs /init*: runs from top to bottom once per boot. Its choice between imported network settings and DHCP rests
  on links and servers outside the repository.
* *Hardware, drivers, node information*: parsers of sysfs and of command output, without state.
* *Parsing of kernel arguments and environment*: strings; their results are constants of `Admission`.
* *Sessions, static files, forwarding to a node's agent* (`server.go`, `nodes_proxy.go`): no state that the other
  parts read. A forwarded request is to the agent a request like any other.
* *PXE, build and configuration scripts, web pages*: nothing runs concurrently, and nothing is kept that the modelled
  parts rely on.
