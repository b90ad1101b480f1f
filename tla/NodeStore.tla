----------------------------- MODULE NodeStore -----------------------------
(***************************************************************************)
(* What the server keeps of one node (server/internal/store/store.go): its *)
(* record, whether it has been heard of lately, and its deploy history.    *)
(* Every operation is one bbolt transaction.  Nodes do not share anything, *)
(* so one node is enough.                                                  *)
(*                                                                         *)
(* A report names the node, not the deployment.  The field of of a history *)
(* record and the parameter d say which deployment a report came from; the *)
(* operations never look at it.                                            *)
(***************************************************************************)
EXTENDS Naturals, Sequences

CONSTANTS Deployments, None

VARIABLES
  known,        \* the node has a record in the bucket
  seen,         \* last_seen is less than the online timeout ago
  deploys       \* Node.Deploys

storeVars == <<known, seen, deploys>>

Results == {"running", "completed", "failed", "cancelled"}

DeployRecord == [of : Deployments, result : Results]

StoreTypeOK ==
  /\ known \in BOOLEAN
  /\ seen \in BOOLEAN
  /\ deploys \in Seq(DeployRecord)
  /\ ~known => deploys = <<>> /\ ~seen

StoreInit == known = FALSE /\ seen = FALSE /\ deploys = <<>>

SetLast(result) == [deploys EXCEPT ![Len(deploys)].result = result]

\* (the first record is looked at)
FaultLastResult == IF deploys = <<>> THEN "" ELSE deploys[1].result

LastResult == IF deploys = <<>> THEN "" ELSE deploys[Len(deploys)].result

\* (a registration leaves the history alone)
FaultConverged == deploys

\* A record that is still running when the node registers was cut off.
Converged == IF LastResult = "running" THEN SetLast("cancelled") ELSE deploys

Register ==
  /\ known' = TRUE
  /\ seen' = TRUE
  /\ deploys' = Converged

Heartbeat ==
  /\ seen' = known
  /\ UNCHANGED <<known, deploys>>

\* (a deployment of a node that is not known yet is recorded all the same)
FaultDeployStart(d) ==
  /\ seen' = known
  /\ deploys' = Append(deploys, [of |-> d, result |-> "running"])
  /\ UNCHANGED known

DeployStart(d) ==
  /\ seen' = known
  /\ deploys' = IF known THEN Append(deploys, [of |-> d, result |-> "running"])
                         ELSE deploys
  /\ UNCHANGED known

\* (the result is entered only when the record is not marked as running)
FaultDeployEnd(result) ==
  /\ seen' = known
  /\ deploys' = IF known /\ deploys # <<>> /\ LastResult # "running"
                THEN SetLast(result) ELSE deploys
  /\ UNCHANGED known

\* The last record gets the result, whatever it says.
DeployEnd(result) ==
  /\ seen' = known
  /\ deploys' = IF known /\ deploys # <<>> THEN SetLast(result) ELSE deploys
  /\ UNCHANGED known

\* DELETE /api/nodes/{uuid}, of a node that is there.
DeleteNode ==
  /\ known
  /\ known' = FALSE
  /\ seen' = FALSE
  /\ deploys' = <<>>

\* Nothing has come in for the length of the online timeout.
OnlineTimeout ==
  /\ seen
  /\ seen' = FALSE
  /\ UNCHANGED <<known, deploys>>

\* makeNodeView.
Lifecycle ==
  CASE seen /\ LastResult = "running"                    -> "deploying"
    [] seen /\ LastResult # "running"                    -> "bootseed_online"
    [] ~seen /\ LastResult = "completed"                 -> "completed"
    [] ~seen /\ LastResult \in {"failed", "cancelled"}   -> "failed"
    [] OTHER                                             -> "offline"

=============================================================================
