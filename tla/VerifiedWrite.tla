--------------------------- MODULE VerifiedWrite ---------------------------
(***************************************************************************)
(* What a caller of Pipeline.Run (agent/internal/deploy/pipeline.go) may   *)
(* rely on: blocks are appended to the target, then there is one verdict   *)
(* and the target is never touched again; an "ok" that a checksum vouches  *)
(* for means that the target holds the published image.                    *)
(***************************************************************************)
EXTENDS Sequences

CONSTANTS Block,   \* what one write puts on the target
          Image    \* the raw content of the published image

VARIABLES target,   \* what has been written, from the start of the device
          vouched,  \* a checksum covers everything between server and target
          verdict   \* "none" until Run returns, then "ok" or "error"

writeVars == <<target, vouched, verdict>>

WriteInit == target = <<>> /\ vouched \in BOOLEAN /\ verdict = "none"

WriteBlock ==
  /\ verdict = "none"
  /\ \E b \in Block : target' = Append(target, b)
  /\ UNCHANGED <<vouched, verdict>>

\* Something outside the checksum's reach has gone wrong.
LoseCover ==
  /\ verdict = "none" /\ vouched
  /\ vouched' = FALSE
  /\ UNCHANGED <<target, verdict>>

Accept ==
  /\ verdict = "none"
  /\ vouched => target = Image
  /\ verdict' = "ok"
  /\ UNCHANGED <<target, vouched>>

Refuse ==
  /\ verdict = "none"
  /\ verdict' = "error"
  /\ UNCHANGED <<target, vouched>>

WriteNext == WriteBlock \/ LoseCover \/ Accept \/ Refuse

WriteSpec == WriteInit /\ [][WriteNext]_writeVars

=============================================================================
