----------------------------- MODULE DiskPolicy -----------------------------
(***************************************************************************)
(* Which disks of a node may be written, and under which path              *)
(* (agent/internal/disks).  A disk is a physical thing; the kernel gives   *)
(* it a name that may be another one after the next hotplug, and udev a    *)
(* link in /dev/disk/by-id that is always its own.                         *)
(***************************************************************************)
EXTENDS Naturals

CONSTANTS
  Disk,         \* physical disks
  Name,         \* kernel names
  Attr,         \* what lsblk and udev know of each disk
  NoDisk        \* a name that is not in use

AttrType == [type : {"disk", "mpath", "rom"}, size : Nat, readonly : BOOLEAN,
             removable : BOOLEAN, san : BOOLEAN, link : BOOLEAN, wwn : BOOLEAN]

ASSUME DiskAssumption == Attr \in [Disk -> AttrType] /\ NoDisk \notin Disk

\* Paths under /dev.  A "guess" is what guessByIDFromWWN makes of a WWN.
StablePath == [kind : {"byid", "guess"}, of : Disk]
Path == StablePath \cup [kind : {"kernel"}, of : Name]
NoPath == [kind |-> "none"]

ById(d)   == [kind |-> "byid", of |-> d]
Guess(d)  == [kind |-> "guess", of |-> d]
Kernel(n) == [kind |-> "kernel", of |-> n]

-----------------------------------------------------------------------------
\* shouldShow: whole disks and multipath devices.
ShouldShow(d) == Attr[d].type \in {"disk", "mpath"}

\* resolveStablePath of disk d, which lsblk saw under some name.  udevadm is asked
\* for that name later, and may find another disk: the first link it prints in the
\* order of preference; without one, or when udevadm fails, a guess if lsblk gave
\* a WWN.
HasLink(found) == found # NoDisk /\ Attr[found].link

ResolveStablePath(d, found, udevWorks) ==
  CASE udevWorks /\ HasLink(found) -> ById(found)
    [] ~(udevWorks /\ HasLink(found)) /\ Attr[d].wwn -> Guess(d)
    [] OTHER -> NoPath

\* (a disk without a stable path is allowed whatever the configuration)
FaultDecideAllow(d, stable, opts) ==
  /\ ~Attr[d].readonly /\ ~Attr[d].removable /\ ~Attr[d].san
  /\ Attr[d].type = "mpath" => opts.allowMultipath

DecideAllow(d, stable, opts) ==
  /\ ~Attr[d].readonly /\ ~Attr[d].removable /\ ~Attr[d].san
  /\ Attr[d].type = "mpath" => opts.allowMultipath
  /\ stable = NoPath => opts.allowUnstable

\* What lsblk lists: the disk under each name that is shown, NoDisk elsewhere.
Shown(name) ==
  [n \in Name |-> IF name[n] # NoDisk /\ ShouldShow(name[n]) THEN name[n] ELSE NoDisk]

\* The paths under which the page may offer a shown disk: its name, and what
\* resolveStablePath makes of it.
PathsOf(name, n) ==
  {Kernel(n)} \cup {ResolveStablePath(name[n], name[n], w) : w \in BOOLEAN}

Offered(name) ==
  UNION {PathsOf(name, n) \ {NoPath} : n \in {m \in Name : Shown(name)[m] # NoDisk}}

\* A listed disk is what lsblk and udevadm said under one name: [kname, disk, stable].
\* A target names it by either of its paths.
Matches(listed, target) == target = listed.stable \/ target = Kernel(listed.kname)

\* (the kernel name is used for the disk that was named by it)
FaultWritePath(listed) == Kernel(listed.kname)

\* (every disk has a stable path)
FaultStableOnly(listed) == listed.stable

WritePath(listed) == IF listed.stable # NoPath THEN listed.stable ELSE Kernel(listed.kname)

\* What open finds behind a path: udev makes no link that looks like a guess,
\* since the WWN it uses begins with 0x.
Opens(name, path) ==
  CASE path.kind = "byid"   -> IF \E n \in Name : name[n] = path.of THEN path.of ELSE NoDisk
    [] path.kind = "guess"  -> NoDisk
    [] path.kind = "kernel" -> name[path.of]

=============================================================================
