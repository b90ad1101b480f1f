----------------------------- MODULE MCPipeline -----------------------------
(***************************************************************************)
(* Pipeline for TLC.                                                       *)
(***************************************************************************)
EXTENDS Pipeline

\* Every format with every choice of published checksums.
AllImages == Entry

\* The entries BootSeed's own tools write: raw.zst, and the checksum of the
\* compressed file only (add-image.sh:216-239, imagesvc.go:304-321).
StandardImage == {[format |-> "external", compressedSum |-> TRUE, rawSum |-> FALSE]}

=============================================================================
