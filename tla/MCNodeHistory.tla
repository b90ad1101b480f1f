--------------------------- MODULE MCNodeHistory ---------------------------
(***************************************************************************)
(* NodeHistory for TLC.                                                    *)
(***************************************************************************)
EXTENDS NodeHistory, TLC

\* Deployments are interchangeable.
DeploymentSymmetry == Permutations(Deployments)

\* Once a report was lost or late or two have overlapped, the invariants no longer ask
\* whether the node is online, what the trouble was, which deployments the shutdown
\* handler has found, or whether one failed or was cancelled.  Nor does it ever
\* matter whether a context is done that no pipeline is going to look at.  States
\* that differ in nothing but these have the same future and are explored once.
Calm == ~trouble /\ ~overlapped

Heeded == {d \in cancelled : dpc[d] \in {"admitted", "starting", "working"}}

Plain(result) == IF result = "cancelled" THEN "failed" ELSE result

PlainHistory ==
  <<[k \in DOMAIN deploys |-> <<deploys[k].of, Plain(deploys[k].result)>>],
    [d \in Deployments |-> Plain(outcome[d])],
    {<<m.kind, m.of, Plain(m.result), m.boot>> : m \in net \ {Beat}}>>

HistoryView ==
  <<known, boots, agent, dpc, current, shown, syncs, sd,
    IF Calm THEN <<seen, deploys, outcome, net, Heeded, shut>> ELSE PlainHistory>>

=============================================================================
