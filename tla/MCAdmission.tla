---------------------------- MODULE MCAdmission ----------------------------
(***************************************************************************)
(* Admission for TLC: the operators' additions, the disks and the nodes    *)
(* that make each check matter.                                            *)
(***************************************************************************)
EXTENDS Admission, TLC

CONSTANTS a, b, s1, s2, n1, n2, good, small, usb, bare, locked, remote

image == [id |-> a, named |-> TRUE, arch |-> "x86_64", firmware |-> {"uefi"},
          source |-> "disk image", size |-> 2]

MCPublished == s1 :> <<ServiceEntry(image)>>
            @@ s2 :> <<ScriptEntry([image EXCEPT !.firmware = {"bios", "uefi"}], FALSE, FALSE, "img.xz", 2)>>

MCAdditions == {image,
                [image EXCEPT !.firmware = {}],
                [image EXCEPT !.id = b, !.arch = "arm64"],
                [image EXCEPT !.source = "compressed raw", !.named = FALSE]}

plain == [type |-> "disk", size |-> 2, readonly |-> FALSE, removable |-> FALSE,
          san |-> FALSE, link |-> TRUE, wwn |-> TRUE]

MCAttr == good  :> plain
       @@ small :> [plain EXCEPT !.size = 1, !.wwn = FALSE]
       @@ usb   :> [plain EXCEPT !.removable = TRUE, !.wwn = FALSE]
       @@ bare  :> [plain EXCEPT !.link = FALSE, !.wwn = FALSE]
       @@ locked :> [plain EXCEPT !.readonly = TRUE, !.wwn = FALSE]
       @@ remote :> [plain EXCEPT !.san = TRUE]

\* Two disks are plugged at a time, and may come up under each other's name.
MCPlugged == {p \in [Name -> Disk] :
                <<p[n1], p[n2]>> \in {<<good, usb>>, <<usb, good>>, <<small, good>>,
                                     <<bare, usb>>, <<remote, bare>>, <<locked, good>>}}

MCBoot ==
  LET node == [declared |-> "amd64", runtime |-> "x86_64", uname |-> "x86_64", mode |-> "uefi"]
  IN  {node, [node EXCEPT !.runtime = "aarch64", !.uname = ""],
       [declared |-> "arm64", runtime |-> "aarch64", uname |-> "aarch64", mode |-> ""]}

MCConfig == {c \in [allowCustom : BOOLEAN, allowMultipath : {FALSE}, allowUnstable : BOOLEAN] :
               c.allowUnstable => c.allowCustom}

Symmetry == Permutations(Request)

\* Without against the definition of the library, for lists of up to four entries
\* that may have their ids in common.
Lists == UNION {[1..n -> [id : Id, raw : {0, 1}]] : n \in 0..4}
ASSUME WithoutIsAFilter ==
  \A idx \in Lists, i \in Id : Without(idx, i) = SelectSeq(idx, LAMBDA e : e.id # i)

Underway == {r \in Loader : pc[r] \notin {"idle", "rejected"}}

\* Requests meet in the catalog.  As long as several are under way they want the
\* same disk and the disks stay as they are; beyond the catalog one is followed
\* at a time, and the names change while it is under way.  Indexes are edited, and
\* nodes other than the plain one come up, with two disks that stay where they are;
\* with other disks a request is for one image of one server.
Quiet == name = n1 :> good @@ n2 :> usb /\ replugs = 0 /\ ~cfg.allowUnstable

OneThingAtATime ==
  /\ Cardinality(Underway) > 1 =>
       /\ Quiet
       /\ boot.runtime = "x86_64" /\ \A s \in Server : b \notin IdsIn(index[s])
       /\ \A r \in Underway : /\ ask[r].target \in {ById(good), NoPath} /\ ask[r].id # b
                               /\ pc[r] \notin {"listing", "resolved", "admitted", "writing", "failed"}
  /\ replugs > 0 => Cardinality(Underway) = 1
  /\ edits > 0 => cfg.allowCustom
  /\ ~Quiet => cfg.allowCustom /\ \A r \in Underway : ask[r].server = s1 /\ ask[r].id \in {a, None}
  /\ edits > 0 \/ boot.runtime # "x86_64" => Quiet

=============================================================================
