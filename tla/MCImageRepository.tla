------------------------- MODULE MCImageRepository -------------------------
(***************************************************************************)
(* ImageRepository for TLC.                                                *)
(***************************************************************************)
EXTENDS ImageRepository, TLC

CONSTANTS a, b

\* One image to begin with; with the second added behind it, it is not the last.
OneImage == <<a>>

AllWriters == Ids \cup Jobs \cup Runs

\* When an overtaken snapshot is about to be written back, the invariants have
\* no more to say.
NotStale == ~stale

\* The jobs are interchangeable.
JobSymmetry == Permutations(Jobs)

=============================================================================
