-------------------------- MODULE AdmissionProofs --------------------------
(***************************************************************************)
(* What holds of Admission for any requests, servers, disks, nodes and any *)
(* edits of the indexes.                                                   *)
(*                                                                         *)
(* A request carries what it has learnt from one step to the next: the     *)
(* index it was sent, the entry it found, the disks that were listed and   *)
(* the one it chose.  The invariant says of each what it was worth when it *)
(* was learnt (Suited, Current, Looked, Secured) and that others do not    *)
(* take that back.                                                         *)
(***************************************************************************)
EXTENDS Admission, ImageIndexProofs, TLAPS

-----------------------------------------------------------------------------
(* Catalog: what the operators on entries and indexes return.              *)

\* What NormalizeArchitecture returns is a name it leaves alone, or "".
LEMMA NormalizeType ==
  ASSUME NEW a
  PROVE  /\ NormalizeArchitecture(a) \in Arch \cup {""}
         /\ NormalizeArchitecture(a) \in ArchName
         /\ NormalizeArchitecture(NormalizeArchitecture(a)) = NormalizeArchitecture(a)
         /\ a \in Arch => NormalizeArchitecture(a) = a
<1>1. CASE a \in {"x86_64", "amd64"}
  BY <1>1 DEF NormalizeArchitecture, Arch, ArchName
<1>2. CASE a \in {"aarch64", "arm64"}
  BY <1>2 DEF NormalizeArchitecture, Arch, ArchName
<1>3. CASE a \notin {"x86_64", "amd64", "aarch64", "arm64"}
  BY <1>3 DEF NormalizeArchitecture, Arch, ArchName
<1> QED
  BY <1>1, <1>2, <1>3

\* An index is kept entry by entry; only the architecture of an entry may change.
LEMMA NormalizedType ==
  ASSUME NEW idx \in Index
  PROVE  /\ Normalized(idx) \in Index
         /\ DOMAIN Normalized(idx) = DOMAIN idx
         /\ EntriesOf(idx) \subseteq Entry
         /\ \A k \in DOMAIN idx :
              /\ Normalized(idx)[k] \in EntriesOf(idx)
              /\ Normalized(idx)[k] = [idx[k] EXCEPT !.arch = NormalizeArchitecture(@)]
<1> DEFINE kept == Normalized(idx)
<1>1. idx \in Seq(Entry) /\ Len(idx) <= MaxLen /\ Len(idx) \in Nat /\ DOMAIN idx = 1..Len(idx)
  BY DEF Index
<1>2. /\ DOMAIN kept = DOMAIN idx
      /\ \A k \in DOMAIN idx : kept[k] = [idx[k] EXCEPT !.arch = NormalizeArchitecture(@)]
  BY DEF Normalized
<1>3. ASSUME NEW k \in DOMAIN idx PROVE kept[k] \in Entry
  <2>1. idx[k] \in Entry
    BY <1>1
  <2>2. NormalizeArchitecture(idx[k].arch) \in ArchName
    BY NormalizeType
  <2> QED
    BY <1>2, <2>1, <2>2 DEF Entry
<1>4. kept \in Seq(Entry) /\ Len(kept) = Len(idx)
  <2>1. kept = [k \in 1..Len(idx) |-> kept[k]]
    BY <1>1 DEF Normalized
  <2>2. kept \in [1..Len(idx) -> Entry]
    BY <1>1, <1>3, <2>1
  <2> HIDE DEF kept
  <2> QED
    BY <1>1, <2>2
<1>5. EntriesOf(idx) = {kept[k] : k \in DOMAIN idx}
  BY DEF EntriesOf
<1> HIDE DEF kept
<1>6. kept \in Index
  BY <1>1, <1>4 DEF Index
<1>7. /\ EntriesOf(idx) \subseteq Entry
      /\ \A k \in DOMAIN idx : kept[k] \in EntriesOf(idx)
  BY <1>3, <1>5
<1> QED
  BY <1>2, <1>6, <1>7 DEF kept

\* What is kept of a valid index is valid, with architectures in one spelling.
LEMMA ValidIsKeptValid ==
  ASSUME NEW idx \in Index, ValidateIndex(idx)
  PROVE  /\ NoDuplicate(Normalized(idx))
         /\ \A k \in DOMAIN Normalized(idx) : ValidateImage(Normalized(idx)[k])
<1>1. /\ DOMAIN Normalized(idx) = DOMAIN idx
      /\ \A k \in DOMAIN idx : /\ idx[k] \in Entry
                               /\ Normalized(idx)[k] \in Entry
                               /\ Normalized(idx)[k]
                                    = [idx[k] EXCEPT !.arch = NormalizeArchitecture(@)]
  BY NormalizedType DEF Index
<1>2. ASSUME NEW k \in DOMAIN idx
      PROVE  /\ Normalized(idx)[k].id = idx[k].id
             /\ ValidateImage(Normalized(idx)[k])
  <2> DEFINE e == idx[k]
             n == Normalized(idx)[k]
  <2>1. e \in Entry /\ n = [e EXCEPT !.arch = NormalizeArchitecture(@)] /\ ValidateImage(e)
    BY <1>1 DEF ValidateIndex
  <2> HIDE DEF e, n
  <2>2. /\ n.id = e.id /\ n.named = e.named /\ n.arch = NormalizeArchitecture(e.arch)
        /\ n.firmware = e.firmware /\ n.dots = e.dots /\ n.format = e.format /\ n.raw = e.raw
    BY <2>1 DEF Entry
  <2>3. NormalizeArchitecture(n.arch) # ""
    BY <2>1, <2>2, NormalizeType DEF ValidateImage
  <2>4. ValidateImage(n)
    BY <2>1, <2>2, <2>3 DEF ValidateImage
  <2> QED
    BY <2>2, <2>4 DEF e, n
<1> QED
  BY <1>1, <1>2 DEF ValidateIndex, NoDuplicate

\* Get returns an entry of the index, with that id.
LEMMA GetProperties ==
  ASSUME NEW idx \in Index, NEW i \in IdsIn(idx)
  PROVE  /\ FirstAt(idx, i) \in DOMAIN idx
         /\ Get(idx, i) = idx[FirstAt(idx, i)]
         /\ Get(idx, i) \in Entry
         /\ Get(idx, i).id = i
<1>1. idx \in Seq(Entry)
  BY DEF Index
<1>2. FirstAt(idx, i) \in DOMAIN idx /\ idx[FirstAt(idx, i)].id = i
  BY <1>1, FirstAtProperties
<1> QED
  BY <1>1, <1>2 DEF Get

\* An entry as the tools make it: with a known architecture and format, and some
\* firmware, if perhaps with an item that is none.
ToolMade(e) ==
  /\ NormalizeArchitecture(e.arch) # ""
  /\ e.format \in Format
  /\ e.firmware # {} /\ e.firmware \subseteq Firmware \cup {"other"}

\* What the tools make of an addition.
LEMMA AddedEntries ==
  ASSUME NEW a \in AddSpec
  PROVE  /\ ServiceTakes(a) => ServiceEntry(a) \in Entry /\ ToolMade(ServiceEntry(a))
         /\ \A comma, dots \in BOOLEAN, raw \in {0, a.size} :
              ScriptTakes(a, comma) =>
                /\ ScriptEntry(a, comma, dots, "raw", raw) \in Entry
                /\ ToolMade(ScriptEntry(a, comma, dots, "raw", raw))
         /\ \A e \in Entry : ServiceTakes(a) =>
              /\ Amended(e, a) \in Entry
              /\ ToolMade(e) => ToolMade(Amended(e, a))
<1>1. /\ a.id \in Id /\ a.named \in BOOLEAN /\ a.arch \in ArchName
      /\ a.firmware \subseteq Firmware \cup {"other"} /\ a.size \in 0..MaxSize /\ 0 \in 0..MaxSize
  <2>1. a.size \in 1..MaxSize
    BY DEF AddSpec
  <2>2. a.size \in 0..MaxSize /\ 0 \in 0..MaxSize
    BY <2>1, CatalogAssumption
  <2> QED
    BY <2>2 DEF AddSpec
<1>2. ASSUME ServiceTakes(a)
      PROVE  ServiceEntry(a) \in Entry /\ ToolMade(ServiceEntry(a))
  <2> DEFINE e == ServiceEntry(a)
             dots == a.id \in Dotted
             raw  == IF a.source = "compressed raw" THEN 0 ELSE a.size
  <2>1. e = [id |-> a.id, named |-> a.named, arch |-> a.arch, firmware |-> a.firmware,
             dots |-> dots, format |-> "raw.zst", raw |-> raw]
    BY DEF ServiceEntry
  <2>2. dots \in BOOLEAN
    OBVIOUS
  <2>3. raw \in 0..MaxSize
    BY <1>1
  <2> HIDE DEF e, dots, raw
  <2>4. e \in Entry
    BY <1>1, <2>1, <2>2, <2>3 DEF Entry, Format
  <2>5. NormalizeArchitecture(a.arch) # ""
    <3>1. a.arch \in Arch
      BY <1>2 DEF ServiceTakes
    <3>2. NormalizeArchitecture(a.arch) = a.arch
      BY <3>1, NormalizeType
    <3> QED
      BY <3>1, <3>2 DEF Arch
  <2>6. ToolMade(e)
    BY <1>1, <1>2, <2>1, <2>5 DEF ToolMade, ServiceTakes, Format
  <2> QED
    BY <2>4, <2>6 DEF e
<1>3. ASSUME NEW comma \in BOOLEAN, NEW dots \in BOOLEAN, NEW raw \in {0, a.size},
             ScriptTakes(a, comma)
      PROVE  /\ ScriptEntry(a, comma, dots, "raw", raw) \in Entry
             /\ ToolMade(ScriptEntry(a, comma, dots, "raw", raw))
  <2> DEFINE e == ScriptEntry(a, comma, dots, "raw", raw)
             fw == a.firmware \cup (IF comma THEN {"other"} ELSE {})
  <2>1. e = [id |-> a.id, named |-> TRUE, arch |-> NormalizeArchitecture(a.arch),
             firmware |-> fw, dots |-> dots, format |-> "raw", raw |-> raw]
    BY DEF ScriptEntry
  <2>2. fw # {} /\ fw \subseteq Firmware \cup {"other"}
    BY <1>3 DEF ScriptTakes
  <2> HIDE DEF e, fw
  <2>3. e \in Entry
    BY <1>1, <2>1, <2>2, NormalizeType DEF Entry, Format
  <2>4. NormalizeArchitecture(NormalizeArchitecture(a.arch)) # ""
    BY <1>3, NormalizeType DEF ScriptTakes
  <2>5. ToolMade(e)
    BY <2>1, <2>2, <2>4 DEF ToolMade, Format
  <2> QED
    BY <2>3, <2>5 DEF e
<1>4. ASSUME NEW e \in Entry, ServiceTakes(a)
      PROVE  Amended(e, a) \in Entry /\ (ToolMade(e) => ToolMade(Amended(e, a)))
  <2> DEFINE f == Amended(e, a)
  <2>1. f = [e EXCEPT !.named = a.named, !.arch = a.arch, !.firmware = a.firmware]
    BY DEF Amended
  <2> HIDE DEF f
  <2>2. f \in Entry /\ f.arch = a.arch /\ f.format = e.format /\ f.firmware = a.firmware
    BY <1>1, <2>1 DEF Entry
  <2>3. NormalizeArchitecture(a.arch) # ""
    <3>1. a.arch \in Arch
      BY <1>4 DEF ServiceTakes
    <3>2. NormalizeArchitecture(a.arch) = a.arch
      BY <3>1, NormalizeType
    <3> QED
      BY <3>1, <3>2 DEF Arch
  <2>4. ToolMade(e) => ToolMade(f)
    BY <1>4, <2>2, <2>3 DEF ToolMade, ServiceTakes
  <2> QED
    BY <2>2, <2>4 DEF f
<1> QED
  BY <1>2, <1>3, <1>4

\* What an operator makes of an index is an index of entries, and if the tools
\* have made all entries before, they have made all entries now.
LEMMA EditedProperties ==
  ASSUME NEW idx \in Index, NEW new \in Edited(idx), Len(new) <= MaxLen
  PROVE  /\ new \in Index
         /\ (\A k \in DOMAIN idx : ToolMade(idx[k])) => \A k \in DOMAIN new : ToolMade(new[k])
<1>0. /\ idx \in Seq(Entry) /\ Len(idx) \in Nat /\ DOMAIN idx = 1..Len(idx)
      /\ \A k \in DOMAIN idx : idx[k] \in Entry
      /\ Additions \subseteq AddSpec
  <2>1. Additions \subseteq AddSpec
    BY AdmissionAssumption
  <2>2. idx \in Seq(Entry)
    BY DEF Index
  <2> QED
    BY <2>1, <2>2
<1> SUFFICES /\ new \in Seq(Entry)
             /\ (\A k \in DOMAIN idx : ToolMade(idx[k])) =>
                  \A k \in DOMAIN new : ToolMade(new[k])
  BY DEF Index
<1>1. ASSUME NEW e \in Entry, ToolMade(e), new = Append(idx, e)
      PROVE  /\ new \in Seq(Entry)
             /\ (\A k \in DOMAIN idx : ToolMade(idx[k])) =>
                  \A k \in DOMAIN new : ToolMade(new[k])
  <2>1. /\ new \in Seq(Entry) /\ DOMAIN new = 1..(Len(idx) + 1)
        /\ new[Len(idx) + 1] = e /\ \A k \in 1..Len(idx) : new[k] = idx[k]
    BY <1>0, <1>1, AppendProperties
  <2>2. \A k \in DOMAIN new : k \in 1..Len(idx) \/ k = Len(idx) + 1
    BY <1>0, <2>1
  <2> QED
    BY <1>0, <1>1, <2>1, <2>2
<1>2. CASE \E a \in Additions : ServiceTakes(a) /\ new = Append(idx, ServiceEntry(a))
  BY <1>0, <1>1, <1>2, AddedEntries
<1>3. CASE \E a \in Additions, comma, dots \in BOOLEAN :
             \E raw \in {0, a.size} :
               ScriptTakes(a, comma) /\ new = Append(idx, ScriptEntry(a, comma, dots, "raw", raw))
  BY <1>0, <1>1, <1>3, AddedEntries
<1>4. CASE \E k \in DOMAIN idx, a \in Additions :
             ServiceTakes(a) /\ new = [idx EXCEPT ![k] = Amended(@, a)]
  <2>1. PICK k \in DOMAIN idx, a \in Additions :
               ServiceTakes(a) /\ new = [idx EXCEPT ![k] = Amended(@, a)]
    BY <1>4
  <2>2. /\ Amended(idx[k], a) \in Entry
        /\ ToolMade(idx[k]) => ToolMade(Amended(idx[k], a))
    BY <1>0, <2>1, AddedEntries
  <2>3. /\ DOMAIN new = DOMAIN idx /\ new[k] = Amended(idx[k], a)
        /\ \A l \in DOMAIN idx : l # k => new[l] = idx[l]
    BY <2>1
  <2>4. new \in Seq(Entry)
    BY <1>0, <2>1, <2>2, ExceptSeq
  <2> QED
    BY <2>2, <2>3, <2>4
<1>5. CASE \E i \in IdsIn(idx) : new = Without(idx, i)
  <2>1. PICK i \in IdsIn(idx) : new = Without(idx, i)
    BY <1>5
  <2>2. /\ new \in Seq(Entry)
        /\ \A k \in DOMAIN new : \E m \in DOMAIN idx : new[k] = idx[m]
    BY <1>0, <2>1, WithoutProperties
  <2> QED
    BY <2>2
<1> DEFINE served   == {Append(idx, ServiceEntry(a)) : a \in {b \in Additions : ServiceTakes(b)}}
           scripts  == UNION {{Append(idx, ScriptEntry(a, comma, dots, "raw", raw)) :
                                 dots \in BOOLEAN, raw \in {0, a.size},
                                 comma \in {c \in BOOLEAN : ScriptTakes(a, c)}} :
                              a \in {b \in Additions : b.id \notin IdsIn(idx)}}
           updated  == {[idx EXCEPT ![k] = Amended(@, a)] :
                          k \in DOMAIN idx, a \in {b \in Additions : ServiceTakes(b)}}
           reduced  == {Without(idx, i) : i \in IdsIn(idx)}
<1>6. new \in served \cup scripts \cup updated \cup reduced
  BY DEF Edited
<1>7. CASE new \in served
  BY <1>2, <1>7
<1>8. CASE new \in scripts
  <2>1. PICK a \in Additions :
               new \in {Append(idx, ScriptEntry(a, comma, dots, "raw", raw)) :
                          dots \in BOOLEAN, raw \in {0, a.size},
                          comma \in {c \in BOOLEAN : ScriptTakes(a, c)}}
    BY <1>8
  <2> QED
    BY <1>3, <2>1
<1>9. CASE new \in updated
  BY <1>4, <1>9
<1>10. CASE new \in reduced
  BY <1>5, <1>10
<1> HIDE DEF served, scripts, updated, reduced
<1> QED
  BY <1>6, <1>7, <1>8, <1>9, <1>10

-----------------------------------------------------------------------------
(* DiskPolicy.                                                             *)

\* What lsblk lists under a name is the disk that has it.
LEMMA ShownProperties ==
  ASSUME NEW n \in [Name -> Disk \cup {NoDisk}]
  PROVE  /\ Shown(n) \in [Name -> Disk \cup {NoDisk}]
         /\ \A m \in Name : Shown(n)[m] # NoDisk => Shown(n)[m] = n[m]
  BY DEF Shown

\* Paths of different kinds are different.
LEMMA PathKinds ==
  /\ \A d \in Disk : ById(d) \in Path /\ ById(d).kind = "byid" /\ ById(d).of = d
  /\ \A d \in Disk : Guess(d) \in Path /\ Guess(d).kind = "guess" /\ Guess(d).of = d
  /\ \A n \in Name : Kernel(n) \in Path /\ Kernel(n).kind = "kernel" /\ Kernel(n).of = n
  /\ NoPath \notin Path /\ Unasked \notin Path /\ Unasked # NoPath
<1>1. \A d \in Disk : ById(d) \in Path /\ ById(d).kind = "byid" /\ ById(d).of = d
  BY DEF ById, Path, StablePath
<1>2. \A d \in Disk : Guess(d) \in Path /\ Guess(d).kind = "guess" /\ Guess(d).of = d
  BY DEF Guess, Path, StablePath
<1>3. \A n \in Name : Kernel(n) \in Path /\ Kernel(n).kind = "kernel" /\ Kernel(n).of = n
  BY DEF Kernel, Path, StablePath
<1>4. NoPath \notin Path /\ Unasked \notin Path /\ Unasked # NoPath
  <2>1. NoPath.kind = "none" /\ Unasked.kind = "unasked"
    BY DEF NoPath, Unasked
  <2>2. \A p \in Path : p.kind \in {"byid", "guess", "kernel"}
    BY DEF Path, StablePath
  <2> QED
    BY <2>1, <2>2
<1> QED
  BY <1>1, <1>2, <1>3, <1>4

\* The stable path of a disk is the link of the disk that has its name when udevadm
\* is asked, or a guess, or none.
LEMMA StableProperties ==
  ASSUME NEW d \in Disk, NEW found \in Disk \cup {NoDisk}, NEW udevWorks \in BOOLEAN
  PROVE  /\ ResolveStablePath(d, found, udevWorks) \in StablePath \cup {NoPath}
         /\ ResolveStablePath(d, d, udevWorks) \in {ById(d), Guess(d), NoPath}
<1>1. Guess(d) \in StablePath /\ (found \in Disk => ById(found) \in StablePath)
  BY DEF Guess, ById, StablePath
<1>2. HasLink(found) => found \in Disk
  BY DEF HasLink
<1>3. /\ udevWorks /\ HasLink(found) => ResolveStablePath(d, found, udevWorks) = ById(found)
      /\ ~(udevWorks /\ HasLink(found)) =>
           ResolveStablePath(d, found, udevWorks) \in {Guess(d), NoPath}
  BY DEF ResolveStablePath
<1>4. ResolveStablePath(d, d, udevWorks) \in {ById(d), Guess(d), NoPath}
  BY DEF ResolveStablePath
<1> QED
  BY <1>1, <1>2, <1>3, <1>4

\* What the page offers are paths.
LEMMA OfferedArePaths ==
  ASSUME NEW n \in [Name -> Disk \cup {NoDisk}], NEW target \in Offered(n)
  PROVE  target \in Path
<1>1. PICK m \in Name : Shown(n)[m] # NoDisk /\ target \in PathsOf(n, m) \ {NoPath}
  BY DEF Offered
<1>2. n[m] \in Disk
  BY <1>1, ShownProperties
<1>3. CASE target = Kernel(m)
  BY <1>3, PathKinds
<1>4. CASE \E w \in BOOLEAN : target = ResolveStablePath(n[m], n[m], w)
  BY <1>1, <1>2, <1>4, StableProperties DEF Path
<1> QED
  BY <1>1, <1>3, <1>4 DEF PathsOf

\* A disk is written by its stable path, or by its name because it has none; a
\* target that is a link is the path itself.
LEMMA WritePathProperties ==
  ASSUME NEW l, l.kname \in Name, l.stable \in StablePath \cup {NoPath}
  PROVE  /\ WritePath(l) \in Path
         /\ \/ WritePath(l) = l.stable /\ l.stable.kind \in {"byid", "guess"}
            \/ WritePath(l).kind = "kernel" /\ l.stable = NoPath
         /\ \A target \in Path :
              Matches(l, target) /\ target.kind = "byid" => WritePath(l) = target
<1>1. CASE l.stable = NoPath
  <2>1. WritePath(l) = Kernel(l.kname) /\ NoPath \notin Path
    BY <1>1, PathKinds DEF WritePath
  <2> QED
    BY <1>1, <2>1, PathKinds DEF Matches
<1>2. CASE l.stable # NoPath
  <2>1. WritePath(l) = l.stable
    BY <1>2 DEF WritePath
  <2>2. l.stable \in Path /\ l.stable.kind \in {"byid", "guess"}
    BY <1>2 DEF StablePath, Path
  <2> QED
    BY <2>1, <2>2, PathKinds DEF Matches
<1> QED
  BY <1>1, <1>2

\* What open finds.
LEMMA OpensProperties ==
  ASSUME NEW n \in [Name -> Disk \cup {NoDisk}], NEW p \in Path
  PROVE  /\ Opens(n, p) \in Disk \cup {NoDisk}
         /\ p.kind = "byid"  => Opens(n, p) \in {p.of, NoDisk}
         /\ p.kind = "guess" => Opens(n, p) = NoDisk
<1>1. CASE p.kind = "byid"
  <2>1. p.of \in Disk
    BY <1>1 DEF Path, StablePath
  <2> QED
    BY <1>1, <2>1 DEF Opens
<1>2. CASE p.kind = "guess"
  BY <1>2 DEF Opens
<1>3. CASE p.kind = "kernel"
  <2>1. p.of \in Name
    BY <1>3 DEF Path, StablePath
  <2> QED
    BY <1>3, <2>1 DEF Opens
<1>4. p.kind \in {"byid", "guess", "kernel"}
  BY DEF Path, StablePath
<1> QED
  BY <1>1, <1>2, <1>3, <1>4

-----------------------------------------------------------------------------
(* Types.                                                                  *)

\* A request that is under way has a server, and the index it was sent is one that
\* this server has published.
Sourced ==
  \A r \in Loader :
    /\ pc[r] \notin {"idle", "rejected"} => ask[r].server \in Server
    /\ pc[r] = "fetched" => body[r] \in versions[ask[r].server]

Base == TypeOK /\ Sourced

\* The bounds are natural numbers.
LEMMA Bounds == MaxLen \in Nat /\ MaxEdits \in Nat /\ MaxReplugs \in Nat
  BY Zenon, AdmissionAssumption

\* The empty list is an index.
LEMMA EmptyIsIndex == <<>> \in Index
<1>1. Len(<<>>) = 0 /\ <<>> \in Seq(Entry) /\ MaxLen \in Nat
  BY Bounds
<1> QED
  BY <1>1 DEF Index

\* So are a list of no disks and one of no answers.
LEMMA BlankIsRight ==
  /\ Unlisted \in [Name -> Disk \cup {NoDisk}]
  /\ [n \in Name |-> Unasked] \in [Name -> StablePath \cup {NoPath, Unasked}]
  BY DEF Unlisted

\* What a refused request leaves behind.
LEMMA RefuseKeepsBase ==
  ASSUME Base, NEW r \in Loader, Refuse(r)
  PROVE  Base'
<1> USE DEF world, server, plugs, looks
<1>1. /\ pc' = [pc EXCEPT ![r] = "rejected"]
      /\ ask' = [ask EXCEPT ![r] = NoAsk]
      /\ body' = [body EXCEPT ![r] = <<>>]
      /\ img' = [img EXCEPT ![r] = None]
      /\ seen' = [seen EXCEPT ![r] = {}]
      /\ overtaken' = overtaken \ {r}
      /\ list' = [list EXCEPT ![r] = Unlisted]
      /\ stable' = [stable EXCEPT ![r] = [n \in Name |-> Unasked]]
      /\ renamed' = renamed \ {r}
      /\ checked' = [checked EXCEPT ![r] = NoDisk] /\ path' = [path EXCEPT ![r] = NoPath]
      /\ UNCHANGED <<boot, cfg, index, versions, edits, catalog, name, replugs, opened>>
  BY DEF Refuse
<1>2. NoAsk \in Ask
  BY DEF NoAsk, Ask
<1>3. <<>> \in Index
  BY EmptyIsIndex
<1>4. ASSUME NEW q \in Loader
      PROVE  /\ HasImage(q)' => img'[q] # None
             /\ HasDisk(q)'  => checked'[q] # NoDisk /\ path'[q] # NoPath
  BY <1>1 DEF Base, TypeOK, HasImage, HasDisk
<1>5. /\ list' \in [Loader -> [Name -> Disk \cup {NoDisk}]]
      /\ stable' \in [Loader -> [Name -> StablePath \cup {NoPath, Unasked}]]
      /\ renamed' \subseteq Request
  BY <1>1, BlankIsRight DEF Base, TypeOK
<1>6. TypeOK'
  BY <1>1, <1>2, <1>3, <1>4, <1>5 DEF Base, TypeOK, PC
<1>7. Sourced'
  BY <1>1 DEF Base, TypeOK, Sourced
<1> QED
  BY <1>6, <1>7 DEF Base

\* A disk in a complete list is a disk, under a name, with a stable path or none.
LEMMA ListedProperties ==
  ASSUME Base, NEW r \in Loader, NEW l \in Listed(r), AllAsked(r)
  PROVE  /\ l.kname \in Name /\ l.disk \in Disk /\ l.stable \in StablePath \cup {NoPath}
         /\ l.disk = list[r][l.kname] /\ l.stable = stable[r][l.kname]
<1>1. PICK n \in Name : /\ list[r][n] # NoDisk
                        /\ l = [kname |-> n, disk |-> list[r][n], stable |-> stable[r][n]]
  BY DEF Listed
<1>2. stable[r][n] # Unasked
  BY <1>1 DEF AllAsked
<1>3. /\ list[r][n] \in Disk \cup {NoDisk}
      /\ stable[r][n] \in StablePath \cup {NoPath, Unasked}
  BY DEF Base, TypeOK
<1> QED
  BY <1>1, <1>2, <1>3

\* Types are kept by every step.
LEMMA BaseInductive ==
  /\ Init => Base
  /\ Base /\ [Next]_vars => Base'
<1> USE DEF world, server, plugs, looks
<1>1. ASSUME Init PROVE Base
  <2>1. /\ DeployServer \in Server /\ Published \in [Server -> Index]
        /\ 0 \in 0..MaxEdits /\ 0 \in 0..MaxReplugs
    <3>1. 0 \in 0..MaxEdits /\ 0 \in 0..MaxReplugs
      BY Bounds
    <3> QED
      BY <3>1, AdmissionAssumption
  <2>2. NoAsk \in Ask
    BY DEF NoAsk, Ask
  <2>3. [images |-> <<>>, source |-> None] \in [images : Index, source : Server \cup {None}]
    BY EmptyIsIndex
  <2>4. TypeOK
    BY <1>1, <2>1, <2>2, <2>3, EmptyIsIndex, BlankIsRight DEF Init, TypeOK, PC, HasImage, HasDisk
  <2>5. Sourced
    BY <1>1 DEF Init, Sourced
  <2> QED
    BY <2>4, <2>5 DEF Base
<1>2. ASSUME Base, [Next]_vars PROVE Base'
  <2>0. TypeOK /\ Sourced
    BY <1>2 DEF Base
  <2>1. ASSUME NEW s \in Server, Edit(s) PROVE Base'
    <3>1. PICK idx \in Edited(index[s]) :
            /\ Len(idx) <= MaxLen
            /\ index' = [index EXCEPT ![s] = idx]
            /\ versions' = [versions EXCEPT ![s] = @ \cup {idx}]
            /\ seen' = [r \in Loader |-> IF ask[r].server = s
                                         THEN seen[r] \cup EntriesOf(idx)
                                         ELSE seen[r]]
      BY <2>1 DEF Edit
    <3>2. /\ edits < MaxEdits /\ edits' = edits + 1
          /\ UNCHANGED <<boot, cfg, catalog, name, replugs, pc, ask, body, img, looks, checked, path,
                         opened, overtaken>>
      BY <2>1 DEF Edit
    <3>3. idx \in Index /\ EntriesOf(idx) \subseteq Entry
      <4>1. index[s] \in Index
        BY <2>0 DEF TypeOK
      <4> QED
        BY <3>1, <4>1, EditedProperties, NormalizedType
    <3>4. edits' \in 0..MaxEdits
      <4>1. edits \in 0..MaxEdits
        BY <2>0 DEF TypeOK
      <4> QED
        BY <3>2, <4>1, Bounds
    <3>5. seen' \in [Loader -> SUBSET Entry]
      BY <2>0, <3>1, <3>3 DEF TypeOK
    <3>6. /\ index' \in [Server -> Index] /\ versions' \in [Server -> SUBSET Index]
          /\ \A x \in Server : index'[x] \in versions'[x]
      BY <2>0, <3>1, <3>3 DEF TypeOK
    <3>7. TypeOK'
      BY <2>0, <3>2, <3>4, <3>5, <3>6 DEF TypeOK, HasImage, HasDisk
    <3>8. Sourced'
      BY <2>0, <3>1, <3>2 DEF TypeOK, Sourced
    <3> QED
      BY <3>7, <3>8 DEF Base
  <2>2. ASSUME Replug PROVE Base'
    <3>1. /\ replugs < MaxReplugs /\ replugs' = replugs + 1 /\ name' \in Plugged
          /\ renamed' \subseteq renamed \cup Request
          /\ UNCHANGED <<boot, cfg, index, versions, edits, catalog, pc, ask, body, img,
                         list, stable, checked, path, opened, seen, overtaken>>
      BY <2>2 DEF Replug
    <3>2. replugs' \in 0..MaxReplugs
      <4>1. replugs \in 0..MaxReplugs
        BY <2>0 DEF TypeOK
      <4> QED
        BY <3>1, <4>1, Bounds
    <3>3. TypeOK'
      BY <2>0, <3>1, <3>2 DEF TypeOK, HasImage, HasDisk
    <3>4. Sourced'
      BY <2>0, <3>1 DEF Sourced
    <3> QED
      BY <3>3, <3>4 DEF Base
  <2>3. ASSUME NEW r \in Loader, Submit(r) PROVE Base'
    <3>1. PICK target \in Offered(name), i \in Id, s \in Server :
            ask' = [ask EXCEPT ![r] = [id |-> i, server |-> s, target |-> target]]
      BY <2>3 DEF Submit
    <3>2. /\ pc[r] = "idle" /\ pc' = [pc EXCEPT ![r] = "submitted"]
          /\ UNCHANGED <<boot, cfg, index, versions, edits, catalog, name, replugs, body, img,
                         looks, checked, path, opened, seen, overtaken>>
      BY <2>3 DEF Submit
    <3>3. target \in Path
      <4>1. name \in [Name -> Disk \cup {NoDisk}]
        BY <2>0, AdmissionAssumption DEF TypeOK
      <4> QED
        BY <3>1, <4>1, OfferedArePaths
    <3>4. [id |-> i, server |-> s, target |-> target] \in Ask
      BY <3>3 DEF Ask
    <3>5. TypeOK'
      BY <2>0, <3>1, <3>2, <3>4 DEF TypeOK, PC, HasImage, HasDisk
    <3>6. Sourced'
      BY <2>0, <3>1, <3>2 DEF TypeOK, Sourced
    <3> QED
      BY <3>5, <3>6 DEF Base
  <2>4. ASSUME NEW r \in Loader, Receive(r) PROVE Base'
    <3>1. CASE Refuse(r)
      BY <1>2, <3>1, RefuseKeepsBase
    <3>2. CASE ~Refuse(r)
      <4>1. /\ pc[r] = "submitted" /\ pc' = [pc EXCEPT ![r] = "fetching"]
            /\ seen' = [seen EXCEPT ![r] = EntriesOf(index[ask[r].server])]
            /\ UNCHANGED <<boot, cfg, index, versions, edits, catalog, name, replugs, ask, body,
                           img, looks, checked, path, opened, overtaken>>
        BY <2>4, <3>2 DEF Receive
      <4>2. EntriesOf(index[ask[r].server]) \subseteq Entry
        <5>1. index[ask[r].server] \in Index
          BY <2>0, <4>1 DEF TypeOK, Sourced
        <5> QED
          BY <5>1, NormalizedType
      <4>3. TypeOK'
        BY <2>0, <4>1, <4>2 DEF TypeOK, PC, HasImage, HasDisk
      <4>4. Sourced'
        BY <2>0, <4>1 DEF TypeOK, Sourced
      <4> QED
        BY <4>3, <4>4 DEF Base
    <3> QED
      BY <3>1, <3>2
  <2>5. ASSUME NEW r \in Loader, ReceiveReload(r) PROVE Base'
    <3>1. /\ pc[r] = "idle" /\ pc' = [pc EXCEPT ![r] = "fetching"]
          /\ ask' = [ask EXCEPT ![r] = [NoAsk EXCEPT !.server = DeployServer]]
          /\ UNCHANGED <<boot, cfg, index, versions, edits, catalog, name, replugs, body, img,
                         looks, checked, path, opened, seen, overtaken>>
      BY <2>5 DEF ReceiveReload
    <3>2. /\ [NoAsk EXCEPT !.server = DeployServer] \in Ask
          /\ [NoAsk EXCEPT !.server = DeployServer].server = DeployServer
          /\ DeployServer \in Server
      BY AdmissionAssumption DEF NoAsk, Ask
    <3>3. TypeOK'
      BY <2>0, <3>1, <3>2 DEF TypeOK, PC, HasImage, HasDisk
    <3>4. Sourced'
      BY <2>0, <3>1, <3>2 DEF TypeOK, Sourced
    <3> QED
      BY <3>3, <3>4 DEF Base
  <2>6. ASSUME NEW r \in Loader, Fetch(r) PROVE Base'
    <3>1. CASE Refuse(r)
      BY <1>2, <3>1, RefuseKeepsBase
    <3>2. CASE ~Refuse(r)
      <4>1. /\ pc[r] = "fetching" /\ pc' = [pc EXCEPT ![r] = "fetched"]
            /\ body' = [body EXCEPT ![r] = index[ask[r].server]]
            /\ UNCHANGED <<boot, cfg, index, versions, edits, catalog, name, replugs, ask, img,
                           looks, checked, path, opened, seen, overtaken>>
        BY <2>6, <3>2 DEF Fetch
      <4>2. ask[r].server \in Server
        BY <2>0, <4>1 DEF Sourced
      <4>3. TypeOK'
        BY <2>0, <4>1, <4>2 DEF TypeOK, PC, HasImage, HasDisk
      <4>4. Sourced'
        BY <2>0, <4>1, <4>2 DEF TypeOK, Sourced
      <4> QED
        BY <4>3, <4>4 DEF Base
    <3> QED
      BY <3>1, <3>2
  <2>7. ASSUME NEW r \in Loader, Load(r) PROVE Base'
    <3>1. CASE Refuse(r)
      BY <1>2, <3>1, RefuseKeepsBase
    <3>2. CASE ~Refuse(r)
      <4>1. /\ pc[r] = "fetched"
            /\ catalog' = [images |-> Normalized(body[r]), source |-> ask[r].server]
            /\ overtaken' = overtaken \cup {q \in Request : q # r /\ pc[q] = "loaded"}
            /\ pc' = [pc EXCEPT ![r] = IF r \in Reload THEN "rejected" ELSE "loaded"]
            /\ ask' = [ask EXCEPT ![r] = IF r \in Reload THEN NoAsk ELSE @]
            /\ body' = [body EXCEPT ![r] = <<>>]
            /\ UNCHANGED <<boot, cfg, index, versions, edits, name, replugs, img, looks, checked, path,
                           opened, seen>>
        BY <2>7, <3>2 DEF Load
      <4>2. ask[r].server \in Server
        BY <2>0, <4>1 DEF Sourced
      <4>3. catalog' \in [images : Index, source : Server \cup {None}]
        <5>1. Normalized(body[r]) \in Index
          BY <2>0, NormalizedType DEF TypeOK
        <5> QED
          BY <4>1, <4>2, <5>1
      <4>4. /\ ask' \in [Loader -> Ask] /\ body' \in [Loader -> Index]
        <5>1. NoAsk \in Ask
          BY DEF NoAsk, Ask
        <5> QED
          BY <2>0, <4>1, <5>1, EmptyIsIndex DEF TypeOK
      <4>5. pc' \in [Loader -> PC] /\ overtaken' \subseteq Request
        BY <2>0, <4>1 DEF TypeOK, PC
      <4>6. ASSUME NEW q \in Loader
            PROVE  (HasImage(q)' <=> HasImage(q)) /\ (HasDisk(q)' <=> HasDisk(q))
        BY <2>0, <4>1 DEF TypeOK, HasImage, HasDisk
      <4>7. TypeOK'
        BY <2>0, <4>1, <4>3, <4>4, <4>5, <4>6 DEF TypeOK
      <4>8. Sourced'
        BY <2>0, <4>1, <4>2 DEF TypeOK, Sourced
      <4> QED
        BY <4>7, <4>8 DEF Base
    <3> QED
      BY <3>1, <3>2
  <2>8. ASSUME NEW r \in Loader, Find(r) PROVE Base'
    <3>1. CASE Refuse(r)
      BY <1>2, <3>1, RefuseKeepsBase
    <3>2. CASE ~Refuse(r)
      <4>1. /\ pc[r] = "loaded" /\ pc' = [pc EXCEPT ![r] = "found"]
            /\ ask[r].id \in IdsIn(catalog.images)
            /\ img' = [img EXCEPT ![r] = Get(catalog.images, ask[r].id)]
            /\ UNCHANGED <<boot, cfg, index, versions, edits, catalog, name, replugs, ask, body,
                           looks, checked, path, opened, seen, overtaken>>
        BY <2>8, <3>2 DEF Find
      <4>2. Get(catalog.images, ask[r].id) \in Entry
        <5>1. catalog.images \in Index
          BY <2>0 DEF TypeOK
        <5> QED
          BY <4>1, <5>1, GetProperties
      <4>3. Get(catalog.images, ask[r].id) # None
        BY <4>2, AdmissionAssumption
      <4>4. TypeOK'
        BY <2>0, <4>1, <4>2, <4>3 DEF TypeOK, PC, HasImage, HasDisk
      <4>5. Sourced'
        BY <2>0, <4>1 DEF TypeOK, Sourced
      <4> QED
        BY <4>4, <4>5 DEF Base
    <3> QED
      BY <3>1, <3>2
  <2>9. ASSUME NEW r \in Loader, ListDisks(r) PROVE Base'
    <3>1. CASE Refuse(r)
      BY <1>2, <3>1, RefuseKeepsBase
    <3>2. CASE ~Refuse(r)
      <4>1. /\ pc[r] = "found" /\ pc' = [pc EXCEPT ![r] = "listing"]
            /\ list' = [list EXCEPT ![r] = Shown(name)]
            /\ UNCHANGED <<boot, cfg, index, versions, edits, catalog, name, replugs, ask, body,
                           img, stable, renamed, checked, path, opened, seen, overtaken>>
        BY <2>9, <3>2 DEF ListDisks
      <4>2. Shown(name) \in [Name -> Disk \cup {NoDisk}]
        <5>1. name \in [Name -> Disk \cup {NoDisk}]
          BY <2>0, AdmissionAssumption DEF TypeOK
        <5> QED
          BY <5>1, ShownProperties
      <4>3. TypeOK'
        BY <2>0, <4>1, <4>2 DEF TypeOK, PC, HasImage, HasDisk
      <4>4. Sourced'
        BY <2>0, <4>1 DEF TypeOK, Sourced
      <4> QED
        BY <4>3, <4>4 DEF Base
    <3> QED
      BY <3>1, <3>2
  <2>10. ASSUME NEW r \in Loader, AskUdev(r) PROVE Base'
    <3>1. PICK n \in Name, udevWorks \in BOOLEAN :
            /\ list[r][n] # NoDisk
            /\ stable' = [stable EXCEPT ![r][n] = ResolveStablePath(list[r][n], name[n], udevWorks)]
      BY <2>10 DEF AskUdev
    <3>2. UNCHANGED <<boot, cfg, index, versions, edits, catalog, name, replugs, pc, ask, body,
                      img, list, renamed, checked, path, opened, seen, overtaken>>
      BY <2>10 DEF AskUdev
    <3>3. ResolveStablePath(list[r][n], name[n], udevWorks) \in StablePath \cup {NoPath}
      <4>1. name \in [Name -> Disk \cup {NoDisk}]
        BY <2>0, AdmissionAssumption DEF TypeOK
      <4>2. list[r][n] \in Disk
        BY <2>0, <3>1 DEF TypeOK
      <4> QED
        BY <4>1, <4>2, StableProperties
    <3>4. stable' \in [Loader -> [Name -> StablePath \cup {NoPath, Unasked}]]
      BY <2>0, <3>1, <3>3 DEF TypeOK
    <3>5. TypeOK'
      BY <2>0, <3>2, <3>4 DEF TypeOK, HasImage, HasDisk
    <3>6. Sourced'
      BY <2>0, <3>2 DEF Sourced
    <3> QED
      BY <3>5, <3>6 DEF Base
  <2>11. ASSUME NEW r \in Loader, Resolve(r) PROVE Base'
    <3>1. CASE Refuse(r)
      BY <1>2, <3>1, RefuseKeepsBase
    <3>2. CASE ~Refuse(r)
      <4>1. PICK l \in Listed(r) :
              /\ checked' = [checked EXCEPT ![r] = l.disk]
              /\ path' = [path EXCEPT ![r] = WritePath(l)]
              /\ pc' = [pc EXCEPT ![r] = "resolved"]
              /\ list' = [list EXCEPT ![r] = Unlisted]
              /\ stable' = [stable EXCEPT ![r] = [n \in Name |-> Unasked]]
              /\ UNCHANGED <<boot, cfg, index, versions, edits, catalog, name, replugs, ask, body,
                             img, renamed, opened, seen, overtaken>>
        BY <2>11, <3>2 DEF Resolve
      <4>2. pc[r] = "listing"
        BY <2>11 DEF Resolve
      <4>3. l.disk \in Disk /\ WritePath(l) \in Path
        BY <1>2, <2>11, ListedProperties, WritePathProperties DEF Resolve
      <4>4. l.disk # NoDisk /\ WritePath(l) # NoPath
        BY <4>3, DiskAssumption, PathKinds
      <4>5. /\ list' \in [Loader -> [Name -> Disk \cup {NoDisk}]]
            /\ stable' \in [Loader -> [Name -> StablePath \cup {NoPath, Unasked}]]
        BY <2>0, <4>1, BlankIsRight DEF TypeOK
      <4>6. TypeOK'
        BY <2>0, <4>1, <4>2, <4>3, <4>4, <4>5 DEF TypeOK, PC, HasImage, HasDisk
      <4>7. Sourced'
        BY <2>0, <4>1, <4>2 DEF TypeOK, Sourced
      <4> QED
        BY <4>6, <4>7 DEF Base
    <3> QED
      BY <3>1, <3>2
  <2>12. ASSUME NEW r \in Loader, Admit(r) PROVE Base'
    <3>1. CASE Refuse(r)
      BY <1>2, <3>1, RefuseKeepsBase
    <3>2. CASE ~Refuse(r)
      <4>1. /\ pc[r] = "resolved" /\ pc' = [pc EXCEPT ![r] = "admitted"]
            /\ UNCHANGED <<boot, cfg, index, versions, edits, catalog, name, replugs, ask, body,
                           img, looks, checked, path, opened, seen, overtaken>>
        BY <2>12, <3>2 DEF Admit
      <4>2. TypeOK'
        BY <2>0, <4>1 DEF TypeOK, PC, HasImage, HasDisk
      <4>3. Sourced'
        BY <2>0, <4>1 DEF TypeOK, Sourced
      <4> QED
        BY <4>2, <4>3 DEF Base
    <3> QED
      BY <3>1, <3>2
  <2>13. ASSUME NEW r \in Loader, Open(r) PROVE Base'
    <3>1. /\ pc[r] = "admitted"
          /\ opened' = [opened EXCEPT ![r] = Opens(name, path[r])]
          /\ pc' = [pc EXCEPT ![r] = IF Opens(name, path[r]) = NoDisk THEN "failed" ELSE "writing"]
          /\ UNCHANGED <<boot, cfg, index, versions, edits, catalog, name, replugs, ask, body,
                         img, looks, checked, path, seen, overtaken>>
      BY <2>13 DEF Open
    <3>2. Opens(name, path[r]) \in Disk \cup {NoDisk}
      <4>1. name \in [Name -> Disk \cup {NoDisk}] /\ path[r] \in Path
        BY <2>0, <3>1, AdmissionAssumption DEF TypeOK, HasDisk
      <4> QED
        BY <4>1, OpensProperties
    <3>3. TypeOK'
      BY <2>0, <3>1, <3>2 DEF TypeOK, PC, HasImage, HasDisk
    <3>4. Sourced'
      BY <2>0, <3>1 DEF TypeOK, Sourced
    <3> QED
      BY <3>3, <3>4 DEF Base
  <2>14. CASE UNCHANGED vars
    <3>1. TypeOK'
      BY <2>0, <2>14 DEF TypeOK, vars, HasImage, HasDisk
    <3>2. Sourced'
      BY <2>0, <2>14 DEF Sourced, vars
    <3> QED
      BY <3>1, <3>2 DEF Base
  <2> QED
    BY <1>2, <2>1, <2>2, <2>3, <2>4, <2>5, <2>6, <2>7, <2>8, <2>9, <2>10, <2>11, <2>12, <2>13,
       <2>14 DEF Next
<1> QED
  BY <1>1, <1>2

-----------------------------------------------------------------------------
(* The catalog.                                                            *)

\* It is replaced as a whole, by what is kept of a valid index, and what has been
\* published stays published.
LEMMA CatalogInductive ==
  /\ Init => CatalogIsWhole
  /\ Base /\ CatalogIsWhole /\ [Next]_vars => CatalogIsWhole'
<1> USE DEF world, server, plugs, looks
<1>1. Init => CatalogIsWhole
  BY DEF Init, CatalogIsWhole
<1>2. ASSUME Base, CatalogIsWhole, [Next]_vars PROVE CatalogIsWhole'
  <2>0. TypeOK /\ Sourced
    BY <1>2 DEF Base
  <2>1. ASSUME catalog' = catalog, \A s \in Server : versions[s] \subseteq versions'[s]
        PROVE  CatalogIsWhole'
    <3>1. catalog.source # None => catalog.source \in Server
      BY <2>0 DEF TypeOK
    <3> QED
      BY <1>2, <2>1, <3>1 DEF CatalogIsWhole
  <2>2. ASSUME NEW r \in Loader, Load(r), ~Refuse(r) PROVE CatalogIsWhole'
    <3>1. /\ pc[r] = "fetched" /\ ValidateIndex(body[r])
          /\ catalog' = [images |-> Normalized(body[r]), source |-> ask[r].server]
          /\ versions' = versions
      BY <2>2 DEF Load
    <3>2. body[r] \in Index /\ body[r] \in versions[ask[r].server]
      BY <2>0, <3>1 DEF TypeOK, Sourced
    <3>3. /\ NoDuplicate(Normalized(body[r]))
          /\ \A k \in DOMAIN Normalized(body[r]) : ValidateImage(Normalized(body[r])[k])
      BY <3>1, <3>2, ValidIsKeptValid
    <3> QED
      BY <3>1, <3>2, <3>3 DEF CatalogIsWhole
  <2>3. ASSUME NEW s \in Server, Edit(s) PROVE CatalogIsWhole'
    <3>1. /\ catalog' = catalog
          /\ \E idx : versions' = [versions EXCEPT ![s] = @ \cup {idx}]
      BY <2>3 DEF Edit
    <3> QED
      BY <2>0, <2>1, <3>1 DEF TypeOK
  <2>4. ASSUME NEW r \in Loader, Refuse(r) PROVE catalog' = catalog /\ versions' = versions
    BY <2>4 DEF Refuse
  <2>5. ASSUME NEW r \in Loader,
               \/ Submit(r) \/ Receive(r) \/ ReceiveReload(r) \/ Fetch(r)
               \/ Find(r) \/ ListDisks(r) \/ AskUdev(r) \/ Resolve(r) \/ Admit(r) \/ Open(r)
        PROVE  catalog' = catalog /\ versions' = versions
    BY <2>4, <2>5 DEF Submit, Receive, ReceiveReload, Fetch, Find, ListDisks, AskUdev, Resolve,
                         Admit, Open
  <2>6. CASE Replug \/ UNCHANGED vars
    BY <2>1, <2>6 DEF Replug, vars
  <2> QED
    BY <1>2, <2>1, <2>2, <2>3, <2>4, <2>5, <2>6 DEF Next
<1> QED
  BY <1>1, <1>2

-----------------------------------------------------------------------------
(* What a request knows is about this node and up to date.                 *)

\* A request that is past the check of the architectures has passed it, and the
\* entry it has found is for the node.
Suited(r) ==
  /\ pc[r] \in {"fetching", "fetched", "loaded"} \/ HasImage(r) => ~ArchError
  /\ HasImage(r) => /\ img[r].arch = NodeArchitecture
                    /\ IsCompatible(img[r], NodeArchitecture, boot.mode)

\* What the request's server publishes, what it was sent, what is in the catalog
\* after its load and what it has found there has all been published since the
\* request came in.
Current(r) ==
  /\ pc[r] = "fetching" => EntriesOf(index[ask[r].server]) \subseteq seen[r]
  /\ pc[r] = "fetched"  => EntriesOf(body[r]) \subseteq seen[r]
  /\ r \notin overtaken =>
       /\ pc[r] = "loaded" => \A k \in DOMAIN catalog.images : catalog.images[k] \in seen[r]
       /\ HasImage(r) => img[r] \in seen[r]

\* A request that is not listing disks has no answers.  While it is, and the names
\* have not changed since, a name it has not asked for is still the listed disk's,
\* and what it was answered belongs to the listed disk.
Looked(r) ==
  /\ pc[r] # "listing" => stable[r] = [n \in Name |-> Unasked]
  /\ pc[r] = "listing" /\ r \notin renamed =>
       \A n \in Name : list[r][n] # NoDisk =>
         /\ stable[r][n] = Unasked => name[n] = list[r][n]
         /\ stable[r][n] \in {Unasked, NoPath, ById(list[r][n]), Guess(list[r][n])}

\* The disk a request will write passed the policy and is large enough, and the
\* path is that disk's own, unless the names changed between the looks, or a guess
\* that leads nowhere, or a kernel name because the node allows it.  It is the
\* target itself if that is a link.  What is open was opened by that path.
Secured(r) ==
  /\ HasDisk(r) =>
       /\ ~Attr[checked[r]].readonly /\ ~Attr[checked[r]].removable /\ ~Attr[checked[r]].san
       /\ Attr[checked[r]].type = "mpath" => cfg.allowMultipath
       /\ LargeEnough(checked[r], img[r])
       /\ \/ path[r].kind = "byid" /\ (path[r].of = checked[r] \/ r \in renamed)
          \/ path[r].kind = "guess"
          \/ path[r].kind = "kernel" /\ cfg.allowUnstable
       /\ ask[r].target.kind = "byid" => path[r] = ask[r].target
  /\ opened[r] # NoDisk =>
       /\ pc[r] = "writing"
       /\ (path[r].kind = "byid" /\ opened[r] = path[r].of) \/ path[r].kind = "kernel"

\* A step of the world is none of a request's own.
LEMMA WorldKeepsRequests ==
  ASSUME Base, NEW r \in Request, Replug \/ UNCHANGED vars \/ \E s \in Server : Edit(s)
  PROVE  /\ Suited(r) => Suited(r)'
         /\ Current(r) => Current(r)'
         /\ Looked(r) => Looked(r)'
         /\ Secured(r) => Secured(r)'
<1> USE DEF world, server, plugs, looks, HasImage, HasDisk
<1>0. TypeOK /\ r \in Loader
  BY DEF Base, Loader
<1>1. /\ pc' = pc /\ boot' = boot /\ cfg' = cfg /\ ask' = ask /\ body' = body /\ img' = img
      /\ checked' = checked /\ path' = path /\ opened' = opened /\ overtaken' = overtaken
      /\ catalog' = catalog /\ list' = list /\ stable' = stable
      /\ renamed \subseteq renamed'
  BY DEF Replug, vars, Edit
<1>2. Suited(r) => Suited(r)'
  BY <1>1 DEF Suited, ArchError, NodeArchitecture
<1>3. Secured(r) => Secured(r)'
  BY <1>1 DEF Secured
<1>4. ASSUME Replug \/ UNCHANGED vars, Current(r) PROVE Current(r)'
  BY <1>1, <1>4 DEF Current, Replug, vars
<1>5. ASSUME NEW s \in Server, Edit(s), Current(r) PROVE Current(r)'
  <2>1. PICK idx :
          /\ index' = [index EXCEPT ![s] = idx]
          /\ seen' = [q \in Loader |-> IF ask[q].server = s THEN seen[q] \cup EntriesOf(idx)
                                       ELSE seen[q]]
    BY <1>5 DEF Edit
  <2>2. seen[r] \subseteq seen'[r]
    BY <1>0, <2>1
  <2>3. pc[r] = "fetching" => EntriesOf(index'[ask[r].server]) \subseteq seen'[r]
    <3>1. CASE ask[r].server = s
      <4>1. index'[s] = idx
        BY <1>0, <2>1 DEF TypeOK
      <4> QED
        BY <1>0, <2>1, <3>1, <4>1
    <3>2. CASE ask[r].server # s
      <4>1. index'[ask[r].server] = index[ask[r].server]
        BY <1>0, <2>1, <3>2 DEF TypeOK
      <4> QED
        BY <1>5, <2>2, <4>1 DEF Current
    <3> QED
      BY <3>1, <3>2
  <2> QED
    BY <1>1, <1>5, <2>2, <2>3 DEF Current
<1>6. ASSUME Looked(r) PROVE Looked(r)'
  <2>1. CASE Replug
    <3>1. pc[r] = "listing" /\ ~AllAsked(r) => r \in renamed'
      BY <2>1 DEF Replug
    <3> QED
      BY <1>1, <1>6, <3>1 DEF Looked, AllAsked
  <2>2. CASE ~Replug
    <3>1. name' = name /\ renamed' = renamed
      BY <2>2 DEF vars, Edit
    <3> QED
      BY <1>1, <1>6, <3>1 DEF Looked
  <2> QED
    BY <2>1, <2>2
<1> QED
  BY <1>2, <1>3, <1>4, <1>5, <1>6

\* Neither is a step of another request.
LEMMA OthersKeepRequests ==
  ASSUME Base, NEW r \in Request, NEW q \in Loader, q # r,
         \/ Submit(q) \/ Receive(q) \/ ReceiveReload(q) \/ Fetch(q) \/ Load(q)
         \/ Find(q) \/ ListDisks(q) \/ AskUdev(q) \/ Resolve(q) \/ Admit(q) \/ Open(q)
  PROVE  /\ Suited(r) => Suited(r)'
         /\ Current(r) => Current(r)'
         /\ Looked(r) => Looked(r)'
         /\ Secured(r) => Secured(r)'
<1> USE DEF world, server, plugs, looks, HasImage, HasDisk
<1>0. TypeOK /\ r \in Loader
  BY DEF Base, Loader
<1>1. ASSUME Refuse(q)
      PROVE  /\ pc'[r] = pc[r] /\ boot' = boot /\ cfg' = cfg /\ index' = index
             /\ ask'[r] = ask[r] /\ body'[r] = body[r] /\ img'[r] = img[r]
             /\ checked'[r] = checked[r] /\ path'[r] = path[r] /\ opened'[r] = opened[r]
             /\ seen'[r] = seen[r] /\ (r \in overtaken' <=> r \in overtaken)
             /\ catalog' = catalog /\ name' = name
             /\ list'[r] = list[r] /\ stable'[r] = stable[r] /\ (r \in renamed' <=> r \in renamed)
  BY <1>0, <1>1 DEF Refuse, TypeOK
<1>2. /\ pc'[r] = pc[r] /\ boot' = boot /\ cfg' = cfg /\ index' = index
      /\ ask'[r] = ask[r] /\ body'[r] = body[r] /\ img'[r] = img[r]
      /\ checked'[r] = checked[r] /\ path'[r] = path[r] /\ opened'[r] = opened[r]
      /\ seen'[r] = seen[r] /\ name' = name
      /\ list'[r] = list[r] /\ stable'[r] = stable[r] /\ (r \in renamed' <=> r \in renamed)
      /\ \/ catalog' = catalog /\ (r \in overtaken' <=> r \in overtaken)
         \/ overtaken' = overtaken \cup {x \in Request : x # q /\ pc[x] = "loaded"}
  <2>1. CASE Submit(q) \/ Receive(q) \/ ReceiveReload(q)
    BY <1>0, <1>1, <2>1 DEF Submit, Receive, ReceiveReload, TypeOK
  <2>2. CASE Fetch(q) \/ Load(q)
    BY <1>0, <1>1, <2>2 DEF Fetch, Load, TypeOK
  <2>3. CASE Find(q)
    BY <1>0, <1>1, <2>3 DEF Find, TypeOK
  <2>4. CASE ListDisks(q) \/ AskUdev(q)
    BY <1>0, <1>1, <2>4 DEF ListDisks, AskUdev, TypeOK
  <2>5. CASE Resolve(q) \/ Admit(q)
    BY <1>0, <1>1, <2>5 DEF Resolve, Admit, TypeOK
  <2>6. CASE Open(q)
    BY <1>0, <2>6 DEF Open, TypeOK
  <2> QED
    BY <2>1, <2>2, <2>3, <2>4, <2>5, <2>6
<1>3. Suited(r) => Suited(r)'
  BY <1>2 DEF Suited, ArchError, NodeArchitecture
<1>4. Secured(r) => Secured(r)'
  BY <1>2 DEF Secured
<1>5. Current(r) => Current(r)'
  BY <1>2 DEF Current
<1>6. Looked(r) => Looked(r)'
  BY <1>2 DEF Looked
<1> QED
  BY <1>3, <1>4, <1>5, <1>6

\* A request that is refused, or has only been submitted, knows nothing.
LEMMA UnknowingIsRight ==
  ASSUME NEW r \in Request, pc[r] \in {"idle", "submitted", "rejected"}, opened[r] = NoDisk,
         stable[r] = [n \in Name |-> Unasked]
  PROVE  Suited(r) /\ Current(r) /\ Looked(r) /\ Secured(r)
  BY DEF Suited, Current, Looked, Secured, HasImage, HasDisk

\* A refusal leaves it so; a request with an open disk is not refused.
LEMMA RefuseIsRight ==
  ASSUME Base, NEW r \in Request, Secured(r), Refuse(r), pc[r] # "writing"
  PROVE  Suited(r)' /\ Current(r)' /\ Looked(r)' /\ Secured(r)'
<1>1. /\ pc'[r] = "rejected" /\ opened'[r] = opened[r]
      /\ stable'[r] = [n \in Name |-> Unasked]
  BY DEF Refuse, Base, TypeOK, Loader
<1>2. opened[r] = NoDisk
  BY DEF Secured
<1> QED
  BY <1>1, <1>2 DEF Suited, Current, Looked, Secured, HasImage, HasDisk

\* Every step of a request keeps what it knows right.
LEMMA RequestStaysRight ==
  ASSUME Base, CatalogIsWhole, NEW r \in Request, Suited(r), Current(r),
         Looked(r), Secured(r),
         \/ Submit(r) \/ Receive(r) \/ ReceiveReload(r) \/ Fetch(r) \/ Load(r)
         \/ Find(r) \/ ListDisks(r) \/ AskUdev(r) \/ Resolve(r) \/ Admit(r) \/ Open(r)
  PROVE  Suited(r)' /\ Current(r)' /\ Looked(r)' /\ Secured(r)'
<1> USE DEF world, server, plugs, looks
<1>0. TypeOK /\ Sourced /\ r \in Loader /\ r \notin Reload
  BY AdmissionAssumption DEF Base, Loader
<1>a. ASSUME pc[r] # "listing", pc'[r] # "listing", stable'[r] = stable[r]
      PROVE  Looked(r)'
  BY <1>a DEF Looked
<1>1. CASE Submit(r)
  <2>1. pc[r] = "idle" /\ pc'[r] = "submitted" /\ opened'[r] = opened[r]
       /\ stable' = stable
    BY <1>0, <1>1 DEF Submit, TypeOK
  <2>2. opened[r] = NoDisk
    BY <2>1 DEF Secured
  <2> QED
    BY <1>a, <2>1, <2>2 DEF Suited, Current, Secured, HasImage, HasDisk
<1>2. CASE Receive(r)
  <2>1. CASE Refuse(r)
    BY <1>2, <2>1, RefuseIsRight DEF Receive
  <2>2. CASE ~Refuse(r)
    <3>1. /\ pc[r] = "submitted" /\ pc'[r] = "fetching" /\ ~ArchError
          /\ seen'[r] = EntriesOf(index[ask[r].server])
          /\ UNCHANGED <<boot, index, ask, opened, stable>>
      BY <1>0, <1>2, <2>2 DEF Receive, TypeOK
    <3>2. opened[r] = NoDisk
      BY <3>1 DEF Secured
    <3>3. ~ArchError'
      BY <3>1 DEF ArchError, NodeArchitecture
    <3> QED
      BY <1>a, <3>1, <3>2, <3>3 DEF Suited, Current, Secured, HasImage, HasDisk
  <2> QED
    BY <2>1, <2>2
<1>3. CASE ReceiveReload(r)
  BY <1>0, <1>3 DEF ReceiveReload
<1>4. CASE Fetch(r)
  <2>1. CASE Refuse(r)
    BY <1>4, <2>1, RefuseIsRight DEF Fetch
  <2>2. CASE ~Refuse(r)
    <3>1. /\ pc[r] = "fetching" /\ pc'[r] = "fetched"
          /\ body'[r] = index[ask[r].server]
          /\ UNCHANGED <<boot, opened, seen, stable>>
      BY <1>0, <1>4, <2>2 DEF Fetch, TypeOK
    <3>2. opened[r] = NoDisk /\ ~ArchError
      BY <3>1 DEF Secured, Suited
    <3>3. ~ArchError'
      BY <3>1, <3>2 DEF ArchError, NodeArchitecture
    <3> QED
      BY <1>a, <3>1, <3>2, <3>3 DEF Suited, Current, Secured, HasImage, HasDisk
  <2> QED
    BY <2>1, <2>2
<1>5. CASE Load(r)
  <2>1. CASE Refuse(r)
    BY <1>5, <2>1, RefuseIsRight DEF Load
  <2>2. CASE ~Refuse(r)
    <3>1. /\ pc[r] = "fetched" /\ pc'[r] = "loaded"
          /\ catalog' = [images |-> Normalized(body[r]), source |-> ask[r].server]
          /\ UNCHANGED <<boot, opened, seen, stable>>
      BY <1>0, <1>5, <2>2 DEF Load, TypeOK
    <3>2. opened[r] = NoDisk /\ ~ArchError /\ EntriesOf(body[r]) \subseteq seen[r]
      BY <3>1 DEF Secured, Suited, Current
    <3>3. ~ArchError'
      BY <3>1, <3>2 DEF ArchError, NodeArchitecture
    <3>4. \A k \in DOMAIN catalog'.images : catalog'.images[k] \in seen'[r]
      <4>1. body[r] \in Index
        BY <1>0 DEF TypeOK
      <4>2. /\ DOMAIN Normalized(body[r]) = DOMAIN body[r]
            /\ \A k \in DOMAIN body[r] : Normalized(body[r])[k] \in EntriesOf(body[r])
        BY <4>1, NormalizedType
      <4> QED
        BY <3>1, <3>2, <4>2
    <3> QED
      BY <1>a, <3>1, <3>2, <3>3, <3>4 DEF Suited, Current, Secured, HasImage, HasDisk
  <2> QED
    BY <2>1, <2>2
<1>6. CASE Find(r)
  <2>1. CASE Refuse(r)
    BY <1>6, <2>1, RefuseIsRight DEF Find
  <2>2. CASE ~Refuse(r)
    <3> DEFINE e == Get(catalog.images, ask[r].id)
    <3>1. /\ pc[r] = "loaded" /\ pc'[r] = "found" /\ img'[r] = e
          /\ ask[r].id \in IdsIn(catalog.images)
          /\ e.arch = NodeArchitecture /\ IsCompatible(e, NodeArchitecture, boot.mode)
          /\ UNCHANGED <<boot, opened, seen, overtaken, stable>>
      BY <1>0, <1>6, <2>2 DEF Find, TypeOK
    <3>2. \E k \in DOMAIN catalog.images : e = catalog.images[k]
      <4>1. catalog.images \in Index
        BY <1>0 DEF TypeOK
      <4> QED
        BY <3>1, <4>1, GetProperties
    <3> HIDE DEF e
    <3>3. opened[r] = NoDisk /\ ~ArchError /\ (r \notin overtaken => e \in seen[r])
      BY <3>1, <3>2 DEF Secured, Suited, Current
    <3>4. Suited(r)'
      BY <3>1, <3>3 DEF Suited, ArchError, NodeArchitecture, HasImage
    <3>5. Current(r)'
      BY <3>1, <3>3 DEF Current, HasImage
    <3>6. Secured(r)'
      BY <3>1, <3>3 DEF Secured, HasDisk
    <3>7. Looked(r)'
      BY <1>a, <3>1
    <3> QED
      BY <3>4, <3>5, <3>6, <3>7
  <2> QED
    BY <2>1, <2>2
<1>7. CASE ListDisks(r)
  <2>1. CASE Refuse(r)
    BY <1>7, <2>1, RefuseIsRight DEF ListDisks
  <2>2. CASE ~Refuse(r)
    <3>1. /\ pc[r] = "found" /\ pc'[r] = "listing" /\ list'[r] = Shown(name)
          /\ UNCHANGED <<boot, name, img, stable, opened, seen, overtaken>>
      BY <1>0, <1>7, <2>2 DEF ListDisks, TypeOK
    <3>2. Suited(r)' /\ Current(r)'
      BY <3>1 DEF Suited, Current, ArchError, NodeArchitecture, HasImage
    <3>3. opened[r] = NoDisk /\ stable[r] = [n \in Name |-> Unasked]
      BY <3>1 DEF Secured, Looked
    <3>4. Secured(r)'
      BY <3>1, <3>3 DEF Secured, HasDisk
    <3>5. \A n \in Name : Shown(name)[n] # NoDisk => name[n] = Shown(name)[n]
      <4>1. name \in [Name -> Disk \cup {NoDisk}]
        BY <1>0, AdmissionAssumption DEF TypeOK
      <4> QED
        BY <4>1, ShownProperties
    <3>6. Looked(r)'
      BY <3>1, <3>3, <3>5 DEF Looked
    <3> QED
      BY <3>2, <3>4, <3>6
  <2> QED
    BY <2>1, <2>2
<1>8. CASE AskUdev(r)
  <2>1. PICK n \in Name, udevWorks \in BOOLEAN :
          /\ list[r][n] # NoDisk /\ stable[r][n] = Unasked
          /\ stable' = [stable EXCEPT ![r][n] = ResolveStablePath(list[r][n], name[n], udevWorks)]
    BY <1>8 DEF AskUdev
  <2>2. /\ pc[r] = "listing"
        /\ UNCHANGED <<boot, cfg, name, pc, ask, img, list, renamed, checked, path, opened,
                       seen, overtaken>>
    BY <1>8 DEF AskUdev
  <2>3. Suited(r)' /\ Current(r)'
    BY <2>2 DEF Suited, Current, ArchError, NodeArchitecture, HasImage
  <2>4. Secured(r)'
    BY <2>2 DEF Secured, HasDisk
  <2>5. /\ \A m \in Name : m # n => stable'[r][m] = stable[r][m]
        /\ stable'[r][n] = ResolveStablePath(list[r][n], name[n], udevWorks)
    BY <1>0, <2>1 DEF TypeOK
  <2>6. ASSUME r \notin renamed
        PROVE  /\ stable'[r][n] \in {NoPath, ById(list[r][n]), Guess(list[r][n])}
               /\ stable'[r][n] # Unasked
    <3>1. name[n] = list[r][n]
      BY <2>1, <2>2, <2>6 DEF Looked
    <3>2. list[r][n] \in Disk
      BY <1>0, <2>1 DEF TypeOK
    <3>3. stable'[r][n] \in {NoPath, ById(list[r][n]), Guess(list[r][n])}
      BY <2>5, <3>1, <3>2, StableProperties
    <3> QED
      BY <3>2, <3>3, PathKinds
  <2>7. Looked(r)'
    BY <2>2, <2>5, <2>6 DEF Looked
  <2> QED
    BY <2>3, <2>4, <2>7
<1>9. CASE Resolve(r)
  <2>1. CASE Refuse(r)
    BY <1>9, <2>1, RefuseIsRight DEF Resolve
  <2>2. CASE ~Refuse(r)
    <3>1. PICK l \in Listed(r) :
            /\ Matches(l, ask[r].target)
            /\ DecideAllow(l.disk, l.stable, cfg) /\ LargeEnough(l.disk, img[r])
            /\ checked' = [checked EXCEPT ![r] = l.disk]
            /\ path' = [path EXCEPT ![r] = WritePath(l)]
            /\ pc' = [pc EXCEPT ![r] = "resolved"]
            /\ stable' = [stable EXCEPT ![r] = [n \in Name |-> Unasked]]
            /\ UNCHANGED <<boot, cfg, ask, img, renamed, opened, seen, overtaken>>
      BY <1>9, <2>2 DEF Resolve
    <3>2. /\ checked'[r] = l.disk /\ path'[r] = WritePath(l) /\ pc'[r] = "resolved"
          /\ stable'[r] = [n \in Name |-> Unasked]
      BY <1>0, <3>1 DEF TypeOK
    <3>3. pc[r] = "listing" /\ opened[r] = NoDisk /\ AllAsked(r)
      BY <1>9 DEF Resolve, Secured
    <3>4. Suited(r)' /\ Current(r)' /\ Looked(r)'
      BY <3>1, <3>2, <3>3 DEF Suited, Current, Looked, ArchError, NodeArchitecture, HasImage
    <3>5. /\ l.kname \in Name /\ l.disk \in Disk /\ l.stable \in StablePath \cup {NoPath}
          /\ l.disk = list[r][l.kname] /\ l.stable = stable[r][l.kname]
      BY <1>0, <3>3, ListedProperties
    <3>6. /\ \/ WritePath(l) = l.stable /\ l.stable.kind \in {"byid", "guess"}
             \/ WritePath(l).kind = "kernel" /\ l.stable = NoPath
          /\ ask[r].target.kind = "byid" => WritePath(l) = ask[r].target
      <4>1. ask[r].target \in Path \cup {NoPath} /\ NoPath.kind = "none"
        BY <1>0 DEF TypeOK, Ask, NoPath
      <4> QED
        BY <3>1, <3>5, <4>1, WritePathProperties
    <3>7. r \in renamed \/ l.stable \in {Unasked, NoPath, ById(l.disk), Guess(l.disk)}
      <4>1. l.disk # NoDisk
        BY <3>5, DiskAssumption
      <4> QED
        BY <3>3, <3>5, <4>1 DEF Looked
    <3>8. \/ WritePath(l).kind = "byid" /\ (WritePath(l).of = l.disk \/ r \in renamed)
          \/ WritePath(l).kind = "guess"
          \/ WritePath(l).kind = "kernel" /\ cfg.allowUnstable
      <4>1. CASE WritePath(l) = l.stable /\ l.stable.kind \in {"byid", "guess"}
        <5>1. l.stable # Unasked /\ l.stable # NoPath
          BY <4>1 DEF Unasked, NoPath
        <5>2. ById(l.disk).of = l.disk /\ Guess(l.disk).kind = "guess"
          BY <3>5, PathKinds
        <5> QED
          BY <3>7, <4>1, <5>1, <5>2
      <4>2. CASE WritePath(l).kind = "kernel" /\ l.stable = NoPath
        BY <3>1, <4>2 DEF DecideAllow
      <4> QED
        BY <3>6, <4>1, <4>2
    <3>9. /\ ~Attr[l.disk].readonly /\ ~Attr[l.disk].removable /\ ~Attr[l.disk].san
          /\ Attr[l.disk].type = "mpath" => cfg.allowMultipath
      BY <3>1 DEF DecideAllow
    <3>10. Secured(r)'
      BY <3>1, <3>2, <3>3, <3>6, <3>8, <3>9 DEF Secured, LargeEnough, HasDisk
    <3> QED
      BY <3>4, <3>10
  <2> QED
    BY <2>1, <2>2
<1>10. CASE Admit(r)
  <2>1. CASE Refuse(r)
    BY <1>10, <2>1, RefuseIsRight DEF Admit
  <2>2. CASE ~Refuse(r)
    <3>1. /\ pc[r] = "resolved" /\ pc'[r] = "admitted"
          /\ UNCHANGED <<boot, cfg, ask, img, looks, checked, path, opened, seen, overtaken>>
      BY <1>0, <1>10, <2>2 DEF Admit, TypeOK
    <3>2. Suited(r)' /\ Current(r)'
      BY <3>1 DEF Suited, Current, ArchError, NodeArchitecture, HasImage
    <3>3. Secured(r)'
      BY <3>1 DEF Secured, LargeEnough, HasDisk
    <3> QED
      BY <1>a, <3>1, <3>2, <3>3
  <2> QED
    BY <2>1, <2>2
<1>11. CASE Open(r)
  <2>1. /\ pc[r] = "admitted"
        /\ opened'[r] = Opens(name, path[r])
        /\ pc'[r] = IF Opens(name, path[r]) = NoDisk THEN "failed" ELSE "writing"
        /\ UNCHANGED <<boot, cfg, ask, img, looks, checked, path, seen, overtaken>>
    BY <1>0, <1>11 DEF Open, TypeOK
  <2>2. Suited(r)' /\ Current(r)'
    BY <2>1 DEF Suited, Current, ArchError, NodeArchitecture, HasImage
  <2>3. opened'[r] # NoDisk => \/ path[r].kind = "byid" /\ opened'[r] = path[r].of
                              \/ path[r].kind = "kernel"
    <3>1. name \in [Name -> Disk \cup {NoDisk}] /\ path[r] \in Path
      BY <1>0, <2>1, AdmissionAssumption DEF TypeOK, HasDisk
    <3> QED
      BY <2>1, <3>1, OpensProperties DEF Secured, HasDisk
  <2>4. Secured(r)'
    BY <2>1, <2>3 DEF Secured, LargeEnough, HasDisk
  <2>5. Looked(r)'
    <3>1. pc'[r] # "listing"
      BY <2>1
    <3> QED
      BY <1>a, <2>1, <3>1
  <2> QED
    BY <2>2, <2>4, <2>5
<1> QED
  BY <1>1, <1>2, <1>3, <1>4, <1>5, <1>6, <1>7, <1>8, <1>9, <1>10, <1>11

-----------------------------------------------------------------------------
(* The theorems.                                                           *)

RequestsRight == \A r \in Request : Suited(r) /\ Current(r) /\ Looked(r) /\ Secured(r)

IInv == Base /\ CatalogIsWhole /\ RequestsRight

\* The invariant the theorems rest on is inductive.
LEMMA Inductive ==
  /\ Init => IInv
  /\ IInv /\ [Next]_vars => IInv'
<1>1. ASSUME Init PROVE IInv
  <2>1. ASSUME NEW r \in Request PROVE Suited(r) /\ Current(r) /\ Looked(r) /\ Secured(r)
    BY <1>1, UnknowingIsRight DEF Init, Loader
  <2> QED
    BY <1>1, <2>1, BaseInductive, CatalogInductive DEF IInv, RequestsRight
<1>2. ASSUME IInv, [Next]_vars PROVE IInv'
  <2>1. Base' /\ CatalogIsWhole'
    BY <1>2, BaseInductive, CatalogInductive DEF IInv
  <2>2. ASSUME NEW r \in Request PROVE (Suited(r) /\ Current(r) /\ Looked(r) /\ Secured(r))'
    <3>1. Base /\ CatalogIsWhole /\ Suited(r) /\ Current(r) /\ Looked(r) /\ Secured(r)
      BY <1>2 DEF IInv, RequestsRight
    <3>2. CASE Replug \/ UNCHANGED vars \/ \E s \in Server : Edit(s)
      BY <3>1, <3>2, WorldKeepsRequests
    <3>3. ASSUME NEW q \in Loader,
                 \/ Submit(q) \/ Receive(q) \/ ReceiveReload(q) \/ Fetch(q) \/ Load(q)
                 \/ Find(q) \/ ListDisks(q) \/ AskUdev(q) \/ Resolve(q) \/ Admit(q) \/ Open(q)
          PROVE  (Suited(r) /\ Current(r) /\ Looked(r) /\ Secured(r))'
      <4>1. CASE q = r
        BY <3>1, <3>3, <4>1, RequestStaysRight
      <4>2. CASE q # r
        BY <3>1, <3>3, <4>2, OthersKeepRequests
      <4> QED
        BY <4>1, <4>2
    <3> QED
      BY <1>2, <3>2, <3>3 DEF Next
  <2> QED
    BY <2>1, <2>2 DEF IInv, RequestsRight
<1> QED
  BY <1>1, <1>2

\* Every variable has its type, and a request that has found an image or a disk has
\* one.
THEOREM TypeCorrect == Spec => []TypeOK
<1>1. IInv => TypeOK
  BY DEF IInv, Base
<1> QED
  BY Inductive, <1>1, PTL DEF Spec

\* Whatever is loaded, refused or fails: the catalog is an index its source has
\* published, as a whole, and every image in it can be deployed somewhere.
THEOREM CatalogStaysWhole == Spec => []CatalogIsWhole
<1>1. IInv => CatalogIsWhole
  BY DEF IInv
<1> QED
  BY Inductive, <1>1, PTL DEF Spec

\* The metadata of a deployment is from the server of the image and not older than
\* the request, unless another load overtook it.
THEOREM MetadataStaysCurrent == Spec => []MetadataIsCurrent
<1>1. IInv => MetadataIsCurrent
  BY DEF IInv, RequestsRight, Current, MetadataIsCurrent
<1> QED
  BY Inductive, <1>1, PTL DEF Spec

\* The image of a request that is past the checks is for the architecture the agent
\* runs on, and for the boot mode if that is known.
THEOREM OnlyFittingImages == Spec => []FitsTheNode
<1>1. ASSUME IInv PROVE FitsTheNode
  <2>1. SUFFICES ASSUME NEW r \in Request, HasImage(r)
                 PROVE  /\ img[r].arch = boot.runtime
                        /\ boot.mode # "" => boot.mode \in img[r].firmware
    BY DEF FitsTheNode
  <2>2. /\ ~ArchError /\ img[r].arch = NodeArchitecture
        /\ IsCompatible(img[r], NodeArchitecture, boot.mode)
    BY <1>1, <2>1 DEF IInv, RequestsRight, Suited
  <2>3. boot.runtime \in Arch /\ boot.mode \in {"bios", "uefi", ""}
    <3>1. boot \in [declared : ArchName, runtime : Arch, uname : Arch \cup {""},
                    mode : Firmware \cup {""}]
      BY <1>1, AdmissionAssumption DEF IInv, Base, TypeOK
    <3> QED
      BY <3>1 DEF Firmware
  <2>4. boot.runtime # ""
    BY <2>3 DEF Arch
  <2> QED
    BY <2>2, <2>3, <2>4 DEF ArchError, IsCompatible
<1> QED
  BY Inductive, <1>1, PTL DEF Spec

\* A request for a link opens that disk or none.  What is opened is the disk that was
\* looked at, through any change of names but one between the two looks, unless the
\* node allows kernel names and the disk has no other path.
THEOREM OnlyCheckedDisks == Spec => []OpenedIsChecked
<1>1. IInv => OpenedIsChecked
  BY DEF IInv, RequestsRight, Secured, OpenedIsChecked, HasDisk
<1> QED
  BY Inductive, <1>1, PTL DEF Spec

\* It is one the policy allows and it is large enough, with the same exceptions.
THEOREM OnlyAllowedDisks == Spec => []OpenedIsAllowed
<1>1. IInv => OpenedIsAllowed
  BY DEF IInv, RequestsRight, Secured, OpenedIsAllowed, HasDisk, LargeEnough
<1> QED
  BY Inductive, <1>1, PTL DEF Spec

-----------------------------------------------------------------------------
(* Indexes that only the tools have made.                                  *)

ToolsOnly == \A s \in Server : \A k \in DOMAIN index[s] : ToolMade(index[s][k])

\* An index in which all entries were made by the tools, to begin with and by every
\* change, is refused by the agents for one of five reasons only: an id registered
\* twice, an image without a name, "..", an item of the firmware that is no firmware,
\* raw_size 0.
THEOREM OnlyFiveReasons ==
  ASSUME \A s \in Server : \A k \in DOMAIN Published[s] : ToolMade(Published[s][k])
  PROVE  Spec => []RefusedForAReason
<1>1. Init => IInv /\ ToolsOnly
  BY Inductive DEF Init, ToolsOnly
<1>2. ASSUME IInv, ToolsOnly, [Next]_vars PROVE IInv' /\ ToolsOnly'
  <2>1. ASSUME NEW s \in Server, Edit(s) PROVE ToolsOnly'
    <3>1. PICK idx \in Edited(index[s]) :
            Len(idx) <= MaxLen /\ index' = [index EXCEPT ![s] = idx]
      BY <2>1 DEF Edit
    <3>2. index \in [Server -> Index]
      BY <1>2 DEF IInv, Base, TypeOK
    <3>3. \A k \in DOMAIN idx : ToolMade(idx[k])
      BY <1>2, <3>1, <3>2, EditedProperties DEF ToolsOnly
    <3> QED
      BY <1>2, <3>1, <3>2, <3>3 DEF ToolsOnly
  <2>2. ASSUME index' = index PROVE ToolsOnly'
    BY <1>2, <2>2 DEF ToolsOnly
  <2>3. ASSUME NEW r \in Loader,
               \/ Submit(r) \/ Receive(r) \/ ReceiveReload(r) \/ Fetch(r) \/ Load(r)
               \/ Find(r) \/ ListDisks(r) \/ AskUdev(r) \/ Resolve(r) \/ Admit(r) \/ Open(r)
        PROVE  index' = index
    BY <2>3 DEF Submit, Receive, ReceiveReload, Fetch, Load, Find, ListDisks, AskUdev,
                Resolve, Admit, Open, Refuse, server
  <2>4. ASSUME Replug \/ UNCHANGED vars PROVE index' = index
    BY <2>4 DEF Replug, vars, server
  <2>5. ToolsOnly'
    BY <1>2, <2>1, <2>2, <2>3, <2>4 DEF Next
  <2> QED
    BY <1>2, <2>5, Inductive
<1>3. ASSUME IInv, ToolsOnly PROVE RefusedForAReason
  <2>1. SUFFICES ASSUME NEW s \in Server, ~ValidateIndex(index[s]), NoDuplicate(index[s])
                 PROVE  \E e \in EntriesOf(index[s]) :
                          ~e.named \/ e.dots \/ e.raw = 0 \/ "other" \in e.firmware
    BY DEF RefusedForAReason
  <2>2. PICK k \in DOMAIN index[s] : ~ValidateImage(index[s][k])
    BY <2>1 DEF ValidateIndex
  <2> DEFINE e == index[s][k]
             n == Normalized(index[s])[k]
  <2>3. index[s] \in Index
    BY <1>3 DEF IInv, Base, TypeOK
  <2>4. /\ e \in Entry /\ ToolMade(e) /\ ~ValidateImage(e)
        /\ n \in EntriesOf(index[s])
        /\ n = [e EXCEPT !.arch = NormalizeArchitecture(@)]
    BY <1>3, <2>2, <2>3, NormalizedType DEF Index, ToolsOnly
  <2> HIDE DEF e, n
  <2>5. n.named = e.named /\ n.dots = e.dots /\ n.raw = e.raw /\ n.firmware = e.firmware
    BY <2>4 DEF Entry
  <2>6. ~e.named \/ e.dots \/ ~(e.firmware \subseteq Firmware) \/ ~(e.raw > 0)
    BY <2>4 DEF ValidateImage, ToolMade
  <2>7. ~(e.firmware \subseteq Firmware) => "other" \in e.firmware
    BY <2>4 DEF ToolMade
  <2>8. ~(e.raw > 0) => e.raw = 0
    <3>1. e.raw \in 0..MaxSize
      BY <2>4 DEF Entry
    <3> QED
      BY <3>1
  <2> QED
    BY <2>4, <2>5, <2>6, <2>7, <2>8
<1> QED
  BY <1>1, <1>2, <1>3, PTL DEF Spec
=============================================================================
