----------------------------- MODULE ImageIndex -----------------------------
(***************************************************************************)
(* index.json as a list of entries that have an id: what those who write   *)
(* it (ImageService) and those who read it (Catalog) do with the list.     *)
(***************************************************************************)
EXTENDS Naturals, Sequences

IdsIn(idx) == {idx[k].id : k \in DOMAIN idx}

\* (the loop ends at the entry instead of going on with the next)
FaultWithout(idx, i) ==
  SelectSeq(idx, LAMBDA e : \E k \in DOMAIN idx :
                   e = idx[k] /\ \A l \in 1..k : idx[l].id # i)

\* The entries with another id, in their order: what the loop over the entries
\* has kept after the last of them.
Without(idx, i) ==
  LET kept[n \in 0..Len(idx)] ==
        IF n = 0 THEN <<>>
        ELSE IF idx[n].id = i THEN kept[n - 1] ELSE Append(kept[n - 1], idx[n])
  IN  kept[Len(idx)]

\* The position of the last entry with id i.
LastAt(idx, i) ==
  CHOOSE k \in DOMAIN idx : /\ idx[k].id = i
                            /\ \A l \in DOMAIN idx : idx[l].id = i => l <= k

\* The position of the first.
FirstAt(idx, i) ==
  CHOOSE k \in DOMAIN idx : idx[k].id = i /\ \A l \in 1..(k - 1) : idx[l].id # i

=============================================================================
