--------------------------- MODULE MCDeployAgent ---------------------------
(***************************************************************************)
(* DeployAgent for TLC.  Requests are interchangeable, so safety is        *)
(* checked up to a permutation of them; liveness is checked without.       *)
(***************************************************************************)
EXTENDS DeployAgent, TLC

Symmetry == Permutations(Task)

\* Two deployments are followed with all their goroutines, the third only as
\* long as no sync goroutine has been scheduled.
ThirdWithoutSync ==
  \/ \E t \in Task : pc[t] = "new"
  \/ \A t \in Task : syncPc[t] \in {"none", "subscribing"}

=============================================================================
