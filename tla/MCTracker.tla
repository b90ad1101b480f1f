----------------------------- MODULE MCTracker -----------------------------
(***************************************************************************)
(* Tracker for TLC.                                                        *)
(***************************************************************************)
EXTENDS Tracker, TLC

=============================================================================
