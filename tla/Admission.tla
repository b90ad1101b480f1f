----------------------------- MODULE Admission -----------------------------
(***************************************************************************)
(* From POST /api/deploy to the open disk: handleDeploy                    *)
(* (agent/internal/api/deploy.go) with the catalog all requests share, the *)
(* disks as they are plugged, and image servers whose index is edited      *)
(* meanwhile.                                                              *)
(*                                                                         *)
(* A request looks at things that others change, each at a time of its     *)
(* own: the index of its server, the catalog it has just replaced, the     *)
(* list of disks, then the links of each disk in that list, and much       *)
(* later, in runDeploy, the device behind a path.  A step lasts from one   *)
(* of these to the next.  Who is admitted when several requests come that  *)
(* far is the subject of DeployAgent.                                      *)
(***************************************************************************)
EXTENDS Catalog, DiskPolicy, FiniteSets

CONSTANTS
  Request,        \* the POST /api/deploy requests
  Reload,         \* the POST /api/images/reload requests
  Server,         \* image servers
  DeployServer,   \* the one the node was started with
  Published,      \* what each server has published when the node comes up
  Additions,      \* what operators add to an index, or change an entry to
  Boot,           \* how a node may have come up
  Config,         \* how its agent may be configured
  Plugged,        \* where its disks may be plugged
  None,
  MaxLen,         \* bound: entries of an index
  MaxEdits,       \* bound: changes of an index
  MaxReplugs      \* bound: changes of the kernel names

Index == {idx \in Seq(Entry) : Len(idx) <= MaxLen}

ASSUME AdmissionAssumption ==
  /\ DeployServer \in Server /\ None \notin Server \cup Entry
  /\ Request \cap Reload = {}
  /\ Published \in [Server -> Index]
  /\ Additions \subseteq AddSpec
  /\ Boot \subseteq [declared : ArchName, runtime : Arch, uname : Arch \cup {""},
                     mode : Firmware \cup {""}]
  /\ Config \subseteq [allowCustom : BOOLEAN, allowMultipath : BOOLEAN, allowUnstable : BOOLEAN]
  /\ Plugged \subseteq [Name -> Disk \cup {NoDisk}]
  /\ MaxLen \in Nat /\ MaxEdits \in Nat /\ MaxReplugs \in Nat

VARIABLES
  boot, cfg,      \* the boot context and the configuration: fixed
  index,          \* what each server publishes
  versions,       \* everything it has published
  catalog,        \* s.catalog
  name,           \* which disk each kernel name is
  pc,             \* where a request is
  ask,            \* image id, server and target of a request
  body,           \* the index it was sent
  img,            \* the entry it found
  list,           \* the disks lsblk has listed for it
  stable,         \* the stable path of each, once udevadm was asked
  renamed,        \* the names changed between these looks
  checked, path,  \* the disk it looked at, and the path it will write
  opened,         \* the disk the deployment opened
  seen,           \* what its server has published since it came in
  overtaken,      \* the catalog was replaced before the request looked into it
  edits, replugs

world  == <<boot, cfg>>
server == <<index, versions, edits>>
plugs  == <<name, replugs>>
looks  == <<list, stable, renamed>>
vars == <<world, server, catalog, plugs, pc, ask, body, img, looks, checked, path, opened,
          seen, overtaken>>

Ask     == [id : Id \cup {None}, server : Server \cup {None}, target : Path \cup {NoPath}]
NoAsk   == [id |-> None, server |-> None, target |-> NoPath]
Loader  == Request \cup Reload

\* A disk list that does not exist, and a disk that udevadm was not asked for.
Unlisted == [n \in Name |-> NoDisk]
Unasked  == [kind |-> "unasked"]

PC == {"idle", "submitted", "fetching", "fetched", "loaded", "found", "listing",
       "resolved", "admitted", "writing", "rejected", "failed"}

\* Once a request has an entry, and once it has a disk.
HasImage(r) == pc[r] \in {"found", "listing", "resolved", "admitted", "writing"}
HasDisk(r)  == pc[r] \in {"resolved", "admitted", "writing"}

\* Every disk that was listed has been asked for.
AllAsked(r) == \A n \in Name : list[r][n] # NoDisk => stable[r][n] # Unasked

\* The entries of an index as an agent would keep them.
EntriesOf(idx) == LET kept == Normalized(idx) IN {kept[k] : k \in DOMAIN idx}

TypeOK ==
  /\ boot \in Boot /\ cfg \in Config
  /\ index \in [Server -> Index] /\ versions \in [Server -> SUBSET Index]
  /\ \A s \in Server : index[s] \in versions[s]
  /\ catalog \in [images : Index, source : Server \cup {None}]
  /\ name \in Plugged
  /\ pc \in [Loader -> PC]
  /\ ask \in [Loader -> Ask]
  /\ body \in [Loader -> Index]
  /\ img \in [Loader -> Entry \cup {None}]
  /\ list \in [Loader -> [Name -> Disk \cup {NoDisk}]]
  /\ stable \in [Loader -> [Name -> StablePath \cup {NoPath, Unasked}]]
  /\ renamed \subseteq Request
  /\ checked \in [Loader -> Disk \cup {NoDisk}] /\ path \in [Loader -> Path \cup {NoPath}]
  /\ opened \in [Loader -> Disk \cup {NoDisk}]
  /\ seen \in [Loader -> SUBSET Entry]
  /\ \A r \in Loader : /\ HasImage(r) => img[r] # None
                       /\ HasDisk(r)  => checked[r] # NoDisk /\ path[r] # NoPath
  /\ overtaken \subseteq Request
  /\ edits \in 0..MaxEdits /\ replugs \in 0..MaxReplugs

\* The node of the boot context, as the kernel arguments name it.
NodeArchitecture == NormalizeArchitecture(boot.declared)

\* (the architecture of the running system is not compared)
FaultArchError == NodeArchitecture = ""

\* VerifyArchitectures fails, and archError is set.
ArchError ==
  \/ NodeArchitecture = ""
  \/ boot.runtime # "" /\ boot.runtime # NodeArchitecture
  \/ boot.uname # ""   /\ boot.uname # NodeArchitecture

Init ==
  /\ boot \in Boot /\ cfg \in Config
  /\ index = Published /\ versions = [s \in Server |-> {Published[s]}]
  /\ catalog = [images |-> <<>>, source |-> None]
  /\ name \in Plugged
  /\ pc = [r \in Loader |-> "idle"]
  /\ ask = [r \in Loader |-> NoAsk]
  /\ body = [r \in Loader |-> <<>>]
  /\ img = [r \in Loader |-> None]
  /\ list = [r \in Loader |-> Unlisted]
  /\ stable = [r \in Loader |-> [n \in Name |-> Unasked]]
  /\ renamed = {}
  /\ checked = [r \in Loader |-> NoDisk] /\ path = [r \in Loader |-> NoPath]
  /\ opened = [r \in Loader |-> NoDisk]
  /\ seen = [r \in Loader |-> {}]
  /\ overtaken = {}
  /\ edits = 0 /\ replugs = 0

-----------------------------------------------------------------------------
(***************************************************************************)
(* The world.                                                              *)
(***************************************************************************)

\* An operator adds, changes or removes an image of a server.  An id may be
\* added twice: the duplicate check of the service comes long before.
Edited(idx) ==
     {Append(idx, ServiceEntry(a)) : a \in {b \in Additions : ServiceTakes(b)}}
  \cup (UNION {{Append(idx, ScriptEntry(a, comma, dots, "raw", raw)) :
                  dots \in BOOLEAN, raw \in {0, a.size},
                  comma \in {c \in BOOLEAN : ScriptTakes(a, c)}} :
               a \in {b \in Additions : b.id \notin IdsIn(idx)}})
  \cup {[idx EXCEPT ![k] = Amended(@, a)] :
          k \in DOMAIN idx, a \in {b \in Additions : ServiceTakes(b)}}
  \cup {Without(idx, i) : i \in IdsIn(idx)}

Edit(s) ==
  /\ edits < MaxEdits
  /\ \E idx \in Edited(index[s]) :
       /\ Len(idx) <= MaxLen
       /\ index' = [index EXCEPT ![s] = idx]
       /\ versions' = [versions EXCEPT ![s] = @ \cup {idx}]
       /\ seen' = [r \in Loader |-> IF ask[r].server = s
                                    THEN seen[r] \cup EntriesOf(idx)
                                    ELSE seen[r]]
  /\ edits' = edits + 1
  /\ UNCHANGED <<world, catalog, plugs, pc, ask, body, img, looks, checked, path, opened, overtaken>>

\* Disks are pulled and plugged: the kernel gives out names anew.
Replug ==
  /\ replugs < MaxReplugs
  /\ name' \in Plugged \ {name}
  /\ replugs' = replugs + 1
  /\ renamed' = renamed \cup {r \in Request : pc[r] = "listing" /\ ~AllAsked(r)}
  /\ UNCHANGED <<world, server, catalog, pc, ask, body, img, list, stable, checked, path,
                 opened, seen, overtaken>>

-----------------------------------------------------------------------------
(***************************************************************************)
(* handleDeploy and handleImagesReload.                                    *)
(***************************************************************************)

\* The request is answered with an error; what it knew is gone.
Refuse(r) ==
  /\ pc' = [pc EXCEPT ![r] = "rejected"]
  /\ ask' = [ask EXCEPT ![r] = NoAsk]
  /\ body' = [body EXCEPT ![r] = <<>>]
  /\ img' = [img EXCEPT ![r] = None]
  /\ seen' = [seen EXCEPT ![r] = {}]
  /\ overtaken' = overtaken \ {r}
  /\ list' = [list EXCEPT ![r] = Unlisted]
  /\ stable' = [stable EXCEPT ![r] = [n \in Name |-> Unasked]]
  /\ renamed' = renamed \ {r}
  /\ checked' = [checked EXCEPT ![r] = NoDisk] /\ path' = [path EXCEPT ![r] = NoPath]
  /\ UNCHANGED <<world, server, catalog, plugs, opened>>

\* The client makes its request of what GET /api/disks shows it now: a disk, by
\* one of the paths it has there.
Submit(r) ==
  /\ r \in Request /\ pc[r] = "idle"
  /\ \E target \in Offered(name), i \in Id, s \in Server :
       ask' = [ask EXCEPT ![r] = [id |-> i, server |-> s, target |-> target]]
  /\ pc' = [pc EXCEPT ![r] = "submitted"]
  /\ UNCHANGED <<world, server, catalog, plugs, body, img, looks, checked, path, opened,
                 seen, overtaken>>

\* The architecture check, and the choice of the image server.
Receive(r) ==
  /\ pc[r] = "submitted"
  /\ IF ArchError \/ (ask[r].server # DeployServer /\ ~cfg.allowCustom)
     THEN Refuse(r)
     ELSE /\ pc' = [pc EXCEPT ![r] = "fetching"]
          /\ seen' = [seen EXCEPT ![r] = EntriesOf(index[ask[r].server])]
          /\ UNCHANGED <<world, server, catalog, plugs, ask, body, img, looks, checked, path, opened,
                         overtaken>>

ReceiveReload(r) ==
  /\ r \in Reload /\ pc[r] = "idle"
  /\ pc' = [pc EXCEPT ![r] = "fetching"]
  /\ ask' = [ask EXCEPT ![r] = [NoAsk EXCEPT !.server = DeployServer]]
  /\ UNCHANGED <<world, server, catalog, plugs, body, img, looks, checked, path, opened,
                 seen, overtaken>>

\* (when the index cannot be had, the catalog there is will do)
FaultFetch(r) ==
  /\ pc[r] = "fetching"
  /\ \/ pc' = [pc EXCEPT ![r] = "loaded"] /\ UNCHANGED body
     \/ /\ body' = [body EXCEPT ![r] = index[ask[r].server]]
        /\ pc' = [pc EXCEPT ![r] = "fetched"]
  /\ UNCHANGED <<world, server, catalog, plugs, ask, img, looks, checked, path, opened,
                 seen, overtaken>>

\* LoadFromHTTP: the server answers with its index, or fails, or the 30 s pass.
Fetch(r) ==
  /\ pc[r] = "fetching"
  /\ \/ Refuse(r)
     \/ /\ body' = [body EXCEPT ![r] = index[ask[r].server]]
        /\ pc' = [pc EXCEPT ![r] = "fetched"]
        /\ UNCHANGED <<world, server, catalog, plugs, ask, img, looks, checked, path, opened,
                       seen, overtaken>>

\* LoadFromReader: a valid index replaces the catalog, for everybody.
Load(r) ==
  /\ pc[r] = "fetched"
  /\ IF ~ValidateIndex(body[r])
     THEN Refuse(r)
     ELSE /\ catalog' = [images |-> Normalized(body[r]), source |-> ask[r].server]
          /\ overtaken' = overtaken \cup {q \in Request : q # r /\ pc[q] = "loaded"}
          /\ pc' = [pc EXCEPT ![r] = IF r \in Reload THEN "rejected" ELSE "loaded"]
          /\ ask' = [ask EXCEPT ![r] = IF r \in Reload THEN NoAsk ELSE @]
          /\ body' = [body EXCEPT ![r] = <<>>]
          /\ UNCHANGED <<world, server, plugs, img, looks, checked, path, opened, seen>>

\* Get, and the checks of what it returns.  ValidateImage has refused every
\* format that is not supported and every raw_size that is not positive.
Find(r) ==
  /\ pc[r] = "loaded"
  /\ IF \/ ask[r].id \notin IdsIn(catalog.images)
        \/ LET e == Get(catalog.images, ask[r].id)
           IN  e.arch # NodeArchitecture \/ ~IsCompatible(e, NodeArchitecture, boot.mode)
     THEN Refuse(r)
     ELSE /\ img' = [img EXCEPT ![r] = Get(catalog.images, ask[r].id)]
          /\ pc' = [pc EXCEPT ![r] = "found"]
          /\ UNCHANGED <<world, server, catalog, plugs, ask, body, looks, checked, path, opened,
                         seen, overtaken>>

LargeEnough(d, e) == Attr[d].size >= e.raw

\* resolveTargetDisk, up to lsblk, which may fail.
ListDisks(r) ==
  /\ pc[r] = "found"
  /\ \/ Refuse(r)
     \/ /\ list' = [list EXCEPT ![r] = Shown(name)]
        /\ pc' = [pc EXCEPT ![r] = "listing"]
        /\ UNCHANGED <<world, server, catalog, plugs, ask, body, img, stable, renamed, checked,
                       path, opened, seen, overtaken>>

\* One call of udevadm, for the name of a listed disk.
AskUdev(r) ==
  /\ pc[r] = "listing"
  /\ \E n \in Name, udevWorks \in BOOLEAN :
       /\ list[r][n] # NoDisk /\ stable[r][n] = Unasked
       /\ stable' = [stable EXCEPT ![r][n] = ResolveStablePath(list[r][n], name[n], udevWorks)]
  /\ UNCHANGED <<world, server, catalog, plugs, pc, ask, body, img, list, renamed, checked,
                 path, opened, seen, overtaken>>

Listed(r) == {[kname |-> n, disk |-> list[r][n], stable |-> stable[r][n]] :
                n \in {m \in Name : list[r][m] # NoDisk}}

\* The rest of resolveTargetDisk, and the comparison of the sizes.  Two disks match
\* if the names have changed meanwhile: either may be the first.
Resolve(r) ==
  /\ pc[r] = "listing" /\ AllAsked(r)
  /\ \/ (\A l \in Listed(r) : ~Matches(l, ask[r].target)) /\ Refuse(r)
     \/ \E l \in Listed(r) :
          /\ Matches(l, ask[r].target)
          /\ IF ~DecideAllow(l.disk, l.stable, cfg) \/ ~LargeEnough(l.disk, img[r])
             THEN Refuse(r)
             ELSE /\ checked' = [checked EXCEPT ![r] = l.disk]
                  /\ path' = [path EXCEPT ![r] = WritePath(l)]
                  /\ pc' = [pc EXCEPT ![r] = "resolved"]
                  /\ list' = [list EXCEPT ![r] = Unlisted]
                  /\ stable' = [stable EXCEPT ![r] = [n \in Name |-> Unasked]]
                  /\ UNCHANGED <<world, server, catalog, plugs, ask, body, img, renamed, opened,
                                 seen, overtaken>>

\* Acquire, and the answer.
Admit(r) ==
  /\ pc[r] = "resolved"
  /\ \/ Refuse(r)
     \/ /\ pc' = [pc EXCEPT ![r] = "admitted"]
        /\ UNCHANGED <<world, server, catalog, plugs, ask, body, img, looks, checked, path, opened,
                       seen, overtaken>>

\* runDeploy, after its start report and the answer to the GET of the image: the
\* device is opened, without O_CREATE.
Open(r) ==
  /\ pc[r] = "admitted"
  /\ opened' = [opened EXCEPT ![r] = Opens(name, path[r])]
  /\ pc' = [pc EXCEPT ![r] = IF Opens(name, path[r]) = NoDisk THEN "failed" ELSE "writing"]
  /\ UNCHANGED <<world, server, catalog, plugs, ask, body, img, looks, checked, path, seen, overtaken>>

-----------------------------------------------------------------------------
Next ==
  \/ \E s \in Server : Edit(s)
  \/ Replug
  \/ \E r \in Loader : \/ Submit(r) \/ Receive(r) \/ ReceiveReload(r) \/ Fetch(r) \/ Load(r)
                       \/ Find(r) \/ ListDisks(r) \/ AskUdev(r) \/ Resolve(r) \/ Admit(r) \/ Open(r)

Spec == Init /\ [][Next]_vars

-----------------------------------------------------------------------------
(***************************************************************************)
(* Safety.                                                                 *)
(***************************************************************************)

\* Whatever is loaded, refused or fails, in whatever order: the catalog is one
\* index that its source has published, as a whole, and every image in it can be
\* deployed somewhere (images.go:55-74).
CatalogIsWhole ==
  catalog.source # None =>
    /\ NoDuplicate(catalog.images)
    /\ \A k \in DOMAIN catalog.images : ValidateImage(catalog.images[k])
    /\ \E idx \in versions[catalog.source] : catalog.images = Normalized(idx)

\* The metadata of a deployment was published by the server the image comes from,
\* at a time after the request came in, unless another load came between the load
\* of this request and its look at the catalog: then it may be another server's,
\* or older than the request (deploy.go:76-82, 136).
MetadataIsCurrent ==
  \A r \in Request : HasImage(r) /\ r \notin overtaken => img[r] \in seen[r]

\* Whatever the kernel arguments claim and whatever the index holds: a deployment
\* that is admitted is for the architecture this node really runs, and for its
\* boot mode if that is known (deploy.go:54-103, bootcontext.go:132-150).
FitsTheNode ==
  \A r \in Request : HasImage(r) =>
    /\ img[r].arch = boot.runtime
    /\ boot.mode # "" => boot.mode \in img[r].firmware

\* A request that names a disk by its link opens that disk or none, whatever the
\* names do.  And the disk that is opened is the one whose size and kind were looked
\* at, through any change of names but one: lsblk says what is under a name, udevadm
\* is asked for the link of that name later, and if the name has passed to another
\* disk meanwhile, the link is that disk's.  A node may also allow kernel names, for
\* a disk that has no other (deploy.go:107, 227-248, disks.go:56, 186, 233).
OpenedIsChecked ==
  \A r \in Request : opened[r] # NoDisk =>
    /\ ask[r].target.kind = "byid" => opened[r] = ask[r].target.of
    /\ \/ opened[r] = checked[r]
       \/ r \in renamed
       \/ cfg.allowUnstable /\ path[r].kind = "kernel"

\* A disk that is read-only, removable, remote, a multipath device that is not
\* allowed, or too small for the image is not opened, with the same two exceptions
\* (disks.go:211-238, deploy.go:114).
OpenedIsAllowed ==
  \A r \in Request : opened[r] # NoDisk =>
    \/ /\ ~Attr[opened[r]].readonly /\ ~Attr[opened[r]].removable /\ ~Attr[opened[r]].san
       /\ Attr[opened[r]].type = "mpath" => cfg.allowMultipath
       /\ Attr[opened[r]].size >= img[r].raw
    \/ r \in renamed
    \/ cfg.allowUnstable /\ path[r].kind = "kernel"

\* An index that only the tools have edited is refused by the agents for nothing
\* else than: an id registered twice, an image without a name, ".." in an id or a
\* file name, an item of the firmware that is no firmware (empty, or with a blank),
\* and a raw_size of 0, which is what an addition of a compressed raw image
\* registers (imagesvc.go:202-217, 281, 442,
\* add-image.sh:72-78, 130, 236-240, images.go:150-209).
RefusedForAReason ==
  \A s \in Server : ~ValidateIndex(index[s]) =>
    \/ ~NoDuplicate(index[s])
    \/ \E e \in EntriesOf(index[s]) :
         ~e.named \/ e.dots \/ e.raw = 0 \/ "other" \in e.firmware

=============================================================================
