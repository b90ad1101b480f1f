------------------------------ MODULE Catalog ------------------------------
(***************************************************************************)
(* Image indexes: what the image service and add-image.sh write into one   *)
(* (server/internal/imagesvc, scripts/add-image.sh), and what the catalog  *)
(* of an agent takes from one (agent/internal/images).  An agent takes an  *)
(* index as a whole or refuses it as a whole.                              *)
(*                                                                         *)
(* An entry is reduced to what one side checks or the other side decides:  *)
(* whether it has a name, whether its path holds "..", its sizes.          *)
(***************************************************************************)
EXTENDS ImageIndex

CONSTANTS
  Id,        \* image ids, all of safe characters
  Dotted,    \* the ids that contain ".."
  MaxSize    \* of an image, in some unit

ASSUME CatalogAssumption == Dotted \subseteq Id /\ MaxSize \in Nat

Arch     == {"x86_64", "aarch64"}
Firmware == {"bios", "uefi"}
Format   == {"raw", "img", "raw.gz", "img.gz", "raw.xz", "img.xz", "raw.zst", "img.zst"}

\* Names of architectures, the last of them unknown to BootSeed, and what
\* NormalizeArchitecture makes of them; "" is an error.
ArchName == Arch \cup {"amd64", "arm64", "riscv64", ""}

NormalizeArchitecture(a) ==
  CASE a \in {"x86_64", "amd64"}  -> "x86_64"
    [] a \in {"aarch64", "arm64"} -> "aarch64"
    [] OTHER                      -> ""

Entry == [id : Id, named : BOOLEAN, arch : ArchName, firmware : SUBSET (Firmware \cup {"other"}),
          dots : BOOLEAN, format : Format \cup {"other"}, raw : 0..MaxSize]

-----------------------------------------------------------------------------
(***************************************************************************)
(* The side that writes the index.  A request to add an image is a record: *)
(* what the operator says of it, and the source file, `size` long when     *)
(* unpacked.                                                               *)
(***************************************************************************)
AddSpec == [id : Id, named : BOOLEAN, arch : ArchName,
            firmware : SUBSET (Firmware \cup {"other"}),
            source : {"disk image", "compressed raw"}, size : 1..MaxSize]

\* (no firmware is taken for any firmware)
FaultServiceTakes(spec) == spec.arch \in Arch /\ spec.firmware \subseteq Firmware

\* StartAdd, apart from the duplicate check; Update asks the same of its fields.
ServiceTakes(spec) ==
  spec.arch \in Arch /\ spec.firmware \subseteq Firmware /\ spec.firmware # {}

\* The entry runAdd registers.  The size of a source that is compressed already
\* is not found out: zstdRawSize always returns 0.
ServiceEntry(spec) ==
  [id |-> spec.id, named |-> spec.named, arch |-> spec.arch, firmware |-> spec.firmware,
   dots |-> spec.id \in Dotted, format |-> "raw.zst",
   raw |-> IF spec.source = "compressed raw" THEN 0 ELSE spec.size]

\* Update changes what describes the image, not what belongs to its file.
Amended(e, spec) ==
  [e EXCEPT !.named = spec.named, !.arch = spec.arch, !.firmware = spec.firmware]

\* What add-image.sh takes, and the entry it adds.  A comma too many or a blank in
\* the list of firmware passes its check and leaves an item that is no firmware, an
\* empty one or one with the blank.  The path comes from the name of the file,
\* raw_size from the file or from the operator, who may say 0.
ScriptTakes(spec, comma) ==
  spec.named /\ NormalizeArchitecture(spec.arch) # ""
             /\ spec.firmware \subseteq Firmware /\ (spec.firmware # {} \/ comma)

ScriptEntry(spec, comma, dots, format, raw) ==
  [id |-> spec.id, named |-> TRUE, arch |-> NormalizeArchitecture(spec.arch),
   firmware |-> spec.firmware \cup (IF comma THEN {"other"} ELSE {}),
   dots |-> dots, format |-> format, raw |-> raw]

-----------------------------------------------------------------------------
(***************************************************************************)
(* The side that reads it.                                                 *)
(***************************************************************************)
ValidateImage(e) ==
  /\ e.named
  /\ NormalizeArchitecture(e.arch) # ""
  /\ ~e.dots
  /\ e.format \in Format
  /\ e.firmware # {} /\ e.firmware \subseteq Firmware
  /\ e.raw > 0

NoDuplicate(idx) == \A k, l \in DOMAIN idx : idx[k].id = idx[l].id => k = l

\* (each entry is looked at by itself)
FaultValidateIndex(idx) == \A k \in DOMAIN idx : ValidateImage(idx[k])

ValidateIndex(idx) == NoDuplicate(idx) /\ \A k \in DOMAIN idx : ValidateImage(idx[k])

\* ValidateImage also rewrites the architecture of the entry.
Normalized(idx) == [k \in DOMAIN idx |-> [idx[k] EXCEPT !.arch = NormalizeArchitecture(@)]]

\* Get: the first entry with that id.
Get(idx, i) == idx[FirstAt(idx, i)]

\* IsCompatible; the boot mode is "" when the node could not find it out.
IsCompatible(e, arch, mode) ==
  /\ NormalizeArchitecture(e.arch) = arch
  /\ arch = "aarch64" => "uefi" \in e.firmware
  /\ mode = "uefi" => "uefi" \in e.firmware
  /\ mode = "bios" => "bios" \in e.firmware

=============================================================================
