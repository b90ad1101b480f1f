---------------------------- MODULE NodeHistory ----------------------------
(***************************************************************************)
(* A node's deploy history on the server against what the node did.        *)
(*                                                                         *)
(* The agent (cmd/bootseed-agent/main.go, internal/api/deploy.go and       *)
(* handlers.go) is reduced to its reports and to what orders them.  It     *)
(* posts a report once, waits for the answer for 8 s and goes on whatever  *)
(* comes of it (internal/report/report.go); a request that was given up    *)
(* may still reach the server.  Reports of the main program, of every      *)
(* deployment and of a shutdown request come from goroutines of their own. *)
(***************************************************************************)
EXTENDS NodeStore, FiniteSets

CONSTANTS
  MaxBoots      \* bounds the number of times the node is started

ASSUME HistoryAssumption == None \notin Deployments \cup Results /\ MaxBoots \in Nat

VARIABLES
  net,          \* reports that have been sent and not yet handled or lost
  boots,        \* how often the node has been started
  agent,        \* the main program: off, registering or serving
  dpc,          \* where runDeploy has got to, for each deployment
  outcome,      \* how its pipeline ended
  current,      \* the deployment of the manager's task, over or not
  shown,        \* what the manager says of that task: running or over
  syncs,        \* deployments whose stages are being copied to the manager
  cancelled,    \* deployments whose context is done
  sd,           \* where the shutdown handler has got to
  trouble,      \* a report was lost or late
  overlapped,   \* reports of two deployments were under way at once, or the shutdown
                \* handler acted while another deployment or a start was
  shut          \* deployments the shutdown handler found to be running

managerVars == <<current, shown, syncs, cancelled>>

agentVars == <<boots, agent, dpc, outcome, managerVars, sd>>

\* No guard reads these.
history == <<trouble, overlapped, shut>>

vars == <<storeVars, net, agentVars, history>>

-----------------------------------------------------------------------------
\* Where runDeploy has got to:
\*   admitted   its start is not reported yet
\*   starting   it waits for the answer to its start report
\*   working    the pipeline runs
\*   finished   the manager has been told, the server not yet
\*   ending     it waits for the answer to its end report
\*   dead       the node went down
Live == {"admitted", "starting", "working", "finished", "ending"}
Places == Live \cup {"idle", "over", "dead"}

\* A report.  The boot tells registrations and ends by the shutdown handler apart.
Message(kind, d, result, boot) ==
  [kind |-> kind, of |-> d, result |-> result, boot |-> boot]

Registration == Message("register", None, None, boots)
Beat == Message("heartbeat", None, None, 0)
StartOf(d) == Message("start", d, None, 0)
EndOf(d) == Message("end", d, outcome[d], 0)
\* The end report of the shutdown handler.
ShutdownEnd == Message("end", None, "cancelled", boots)

Messages ==
  [kind : {"register", "heartbeat", "start", "end"}, of : Deployments \cup {None},
   result : Results \cup {None}, boot : 0..MaxBoots]

Post(m) == net' = net \cup {m}

\* The sender of m goes on.  If m has not been handled by now the client has
\* given it up.
GoOn(m) == trouble' = (trouble \/ m \in net)

-----------------------------------------------------------------------------
(* The deploy manager of the agent.                                        *)

\* SetState with a state that runs: of whatever task is there, over or not.
ShowRunning == shown' = IF current = None THEN shown ELSE "running"

\* Cancel and Finish: whatever task is there is over, and its context is done.
EndCurrent ==
  /\ shown' = "over"
  /\ cancelled' = cancelled \cup ({current} \ {None})

IsRunning == current # None /\ shown = "running"

-----------------------------------------------------------------------------
(* The agent.                                                              *)

Boot ==
  /\ agent = "off"
  /\ boots < MaxBoots
  /\ boots' = boots + 1
  /\ agent' = "registering"
  /\ net' = net \cup {Message("register", None, None, boots + 1)}
  /\ UNCHANGED <<storeVars, dpc, outcome, managerVars, sd, history>>

\* Register has returned; the API is served from now on.
Serve ==
  /\ agent = "registering"
  /\ agent' = "serving"
  /\ GoOn(Registration)
  /\ UNCHANGED <<storeVars, net, boots, dpc, outcome, managerVars, sd, overlapped, shut>>

SendHeartbeat ==
  /\ agent = "serving"
  /\ Post(Beat)
  /\ UNCHANGED <<storeVars, agentVars, history>>

\* The manager admits a deployment when its current task is over.  Earlier
\* deployments may still be live: cancelled, or finished and not yet reported.
Admit(d) ==
  /\ agent = "serving"
  /\ ~IsRunning
  /\ dpc[d] = "idle"
  /\ current' = d
  /\ shown' = "running"
  /\ dpc' = [dpc EXCEPT ![d] = "admitted"]
  /\ overlapped' = (overlapped \/ sd # "idle" \/ \E e \in Deployments : dpc[e] \in Live)
  /\ UNCHANGED <<storeVars, net, boots, agent, outcome, syncs, cancelled, sd, trouble, shut>>

\* runDeploy sets the state preparing and reports its start.
PostStart(d) ==
  /\ dpc[d] = "admitted"
  /\ ShowRunning
  /\ Post(StartOf(d))
  /\ dpc' = [dpc EXCEPT ![d] = "starting"]
  /\ UNCHANGED <<storeVars, boots, agent, outcome, current, syncs, cancelled, sd, history>>

\* It goes on to the pipeline and to the goroutine that copies its stages.
Work(d) ==
  /\ dpc[d] = "starting"
  /\ dpc' = [dpc EXCEPT ![d] = "working"]
  /\ syncs' = syncs \cup {d}
  /\ GoOn(StartOf(d))
  /\ UNCHANGED <<storeVars, net, boots, agent, outcome, current, shown, cancelled, sd,
                 overlapped, shut>>

\* A stage of d reaches the manager, for all that goroutine knows while d works.  A
\* stage that it has taken or that waits in its channel is also applied after the end.
SyncApplies(d) ==
  /\ d \in syncs
  /\ ShowRunning
  /\ UNCHANGED <<storeVars, net, boots, agent, dpc, outcome, current, syncs, cancelled, sd,
                 history>>

\* Run has returned and closed stopSync.
SyncEnds(d) ==
  /\ d \in syncs
  /\ dpc[d] # "working"
  /\ syncs' = syncs \ {d}
  /\ UNCHANGED <<storeVars, net, boots, agent, dpc, outcome, current, shown, cancelled, sd,
                 history>>

\* The pipeline returns; Finish.  A cancelled context ends it, but a pipeline that
\* was through by then succeeds.
Conclude(d) ==
  /\ dpc[d] = "working"
  /\ \E result \in {"completed", IF d \in cancelled THEN "cancelled" ELSE "failed"} :
       outcome' = [outcome EXCEPT ![d] = result]
  /\ dpc' = [dpc EXCEPT ![d] = "finished"]
  /\ EndCurrent
  /\ UNCHANGED <<storeVars, net, boots, agent, current, syncs, sd, history>>

PostEnd(d) ==
  /\ dpc[d] = "finished"
  /\ Post(EndOf(d))
  /\ dpc' = [dpc EXCEPT ![d] = "ending"]
  /\ UNCHANGED <<storeVars, boots, agent, outcome, managerVars, sd, history>>

Leave(d) ==
  /\ dpc[d] = "ending"
  /\ dpc' = [dpc EXCEPT ![d] = "over"]
  /\ GoOn(EndOf(d))
  /\ UNCHANGED <<storeVars, net, boots, agent, outcome, managerVars, sd, overlapped, shut>>

CancelDeploy ==
  /\ agent = "serving"
  /\ IsRunning
  /\ EndCurrent
  /\ UNCHANGED <<storeVars, net, boots, agent, dpc, outcome, current, syncs, sd, history>>

(* A reboot or poweroff request, one at a time.  When no deployment runs by what    *)
(* the manager says, the machine just goes down.                                    *)

\* ensureCancelledForShutdown finds a deployment running.
ShutdownBegin ==
  /\ agent = "serving"
  /\ sd = "idle"
  /\ IsRunning
  /\ sd' = "found"
  /\ shut' = shut \cup {current}
  /\ overlapped' = (overlapped \/ \E e \in Deployments :
                       \/ e # current /\ dpc[e] \in Live
                       \/ dpc[e] \in {"admitted", "starting"})
  /\ UNCHANGED <<storeVars, net, boots, agent, dpc, outcome, managerVars, trouble>>

\* It cancels the task of that moment, which may be over or another one by now, and
\* does not look at what comes of it.
ShutdownCancel ==
  /\ sd = "found"
  /\ sd' = "waiting"
  /\ IF IsRunning THEN EndCurrent ELSE UNCHANGED <<shown, cancelled>>
  /\ UNCHANGED <<storeVars, net, boots, agent, dpc, outcome, current, syncs, history>>

\* The task is over or 3 s have passed.  The end is reported, although the deployment
\* does that itself or has done it.
ShutdownPost ==
  /\ sd = "waiting"
  /\ sd' = "reporting"
  /\ Post(ShutdownEnd)
  /\ UNCHANGED <<storeVars, boots, agent, dpc, outcome, managerVars, history>>

\* The report has been answered or given up.  The machine goes down next (GoDown),
\* unless the command for it fails.
ShutdownReported ==
  /\ sd = "reporting"
  /\ sd' = "idle"
  /\ GoOn(ShutdownEnd)
  /\ UNCHANGED <<storeVars, net, boots, agent, dpc, outcome, managerVars, overlapped, shut>>

\* The machine goes down: by the shutdown handler, by the automatic reboot, or at
\* any moment for want of power.
GoDown ==
  /\ agent # "off"
  /\ agent' = "off"
  /\ dpc' = [d \in Deployments |-> IF dpc[d] \in Live THEN "dead" ELSE dpc[d]]
  /\ current' = None
  /\ shown' = "over"
  /\ syncs' = {}
  /\ sd' = "idle"
  /\ trouble' = (trouble \/ \E m \in net : m.kind # "heartbeat")
  /\ UNCHANGED <<storeVars, net, boots, outcome, cancelled, overlapped, shut>>

-----------------------------------------------------------------------------
(* The network and the server.                                             *)

Handle(m) ==
  CASE m.kind = "register"  -> Register
    [] m.kind = "heartbeat" -> Heartbeat
    [] m.kind = "start"     -> DeployStart(m.of)
    [] m.kind = "end"       -> DeployEnd(m.result)

\* (a request is handled and, for want of an answer, sent again)
FaultDeliver(m) ==
  /\ m \in net
  /\ Handle(m)
  /\ net' = net \ {m} \/ net' = net
  /\ UNCHANGED <<agentVars, history>>

Deliver(m) ==
  /\ m \in net
  /\ Handle(m)
  /\ net' = net \ {m}
  /\ UNCHANGED <<agentVars, history>>

\* The request does not get through, or the server refuses or fails it.
Lose(m) ==
  /\ m \in net
  /\ net' = net \ {m}
  /\ trouble' = (trouble \/ m.kind # "heartbeat")
  /\ UNCHANGED <<storeVars, agentVars, overlapped, shut>>

ServerStep ==
  /\ DeleteNode \/ OnlineTimeout
  /\ UNCHANGED <<net, agentVars, history>>

-----------------------------------------------------------------------------

Init ==
  /\ StoreInit
  /\ net = {}
  /\ boots = 0
  /\ agent = "off"
  /\ dpc = [d \in Deployments |-> "idle"]
  /\ outcome = [d \in Deployments |-> None]
  /\ current = None
  /\ shown = "over"
  /\ syncs = {}
  /\ cancelled = {}
  /\ sd = "idle"
  /\ trouble = FALSE
  /\ overlapped = FALSE
  /\ shut = {}

DeploymentStep(d) ==
  \/ Admit(d) \/ PostStart(d) \/ Work(d) \/ Conclude(d) \/ PostEnd(d) \/ Leave(d)
  \/ SyncApplies(d) \/ SyncEnds(d)

ShutdownStep ==
  ShutdownBegin \/ ShutdownCancel \/ ShutdownPost \/ ShutdownReported

Next ==
  \/ Boot \/ Serve \/ SendHeartbeat
  \/ \E d \in Deployments : DeploymentStep(d)
  \/ CancelDeploy \/ ShutdownStep \/ GoDown
  \/ \E m \in net : Deliver(m) \/ Lose(m)
  \/ ServerStep

Spec == Init /\ [][Next]_vars

-----------------------------------------------------------------------------
(* Properties.                                                             *)

TypeOK ==
  /\ StoreTypeOK
  /\ net \subseteq Messages
  /\ boots \in 0..MaxBoots
  /\ agent \in {"off", "registering", "serving"}
  /\ dpc \in [Deployments -> Places]
  /\ outcome \in [Deployments -> Results \cup {None}]
  /\ current \in Deployments \cup {None}
  /\ shown \in {"running", "over"}
  /\ syncs \subseteq Deployments
  /\ cancelled \subseteq Deployments
  /\ sd \in {"idle", "found", "waiting", "reporting"}
  /\ trouble \in BOOLEAN
  /\ overlapped \in BOOLEAN
  /\ shut \subseteq Deployments

\* The history lists deployments that have taken place, none of them twice,
\* whatever is lost, late or overtaken.
HistoryIsGenuine ==
  /\ \A k \in DOMAIN deploys : dpc[deploys[k].of] \notin {"idle", "admitted"}
  /\ \A k, l \in DOMAIN deploys : deploys[k].of = deploys[l].of => k = l

\* If no report is lost or late and none overlap, the history is right: no result
\* that was not one, the result of every deployment that has reported its end, and
\* no end of one that has not.  The exception to the last two is a deployment that the
\* shutdown handler has found running: its report makes it cancelled, whatever
\* its outcome is, or was long before.
HistoryIsAccurate ==
  trouble \/ overlapped \/
    \A k \in DOMAIN deploys :
      LET d == deploys[k].of
          result == deploys[k].result
      IN  /\ result \in {"completed", "failed"} => outcome[d] = result
          /\ dpc[d] = "over" /\ d \notin shut => result = outcome[d]
          /\ dpc[d] \in {"starting", "working", "finished"} /\ d \notin shut
               => result = "running"

\* Under the same condition a deployment is shown as running only while it is,
\* or until the node it died with has registered again.
RunningIsLive ==
  trouble \/ overlapped \/
    \A k \in DOMAIN deploys :
      deploys[k].result = "running" =>
        \/ dpc[deploys[k].of] \in Live
        \/ dpc[deploys[k].of] = "dead" /\ agent # "serving"

\* Whatever becomes of the reports, the history does not have more successes than
\* there were.
SuccessesNotInflated ==
  Cardinality({k \in DOMAIN deploys : deploys[k].result = "completed"})
    <= Cardinality({d \in Deployments : outcome[d] = "completed"})

\* What the portal shows of a node, under the condition above and with the same
\* exception: deploying while the last deployment is at work, and once the node is
\* out of sight completed if it was and else failed.
PortalIsRight ==
  trouble \/ overlapped \/ deploys = <<>> \/
    LET d == deploys[Len(deploys)].of
    IN  /\ seen /\ dpc[d] = "working" /\ d \notin shut => Lifecycle = "deploying"
        /\ ~seen /\ dpc[d] = "over" /\ d \notin shut
             => Lifecycle = IF outcome[d] = "completed" THEN "completed" ELSE "failed"
        /\ Lifecycle = "completed" => outcome[d] = "completed"

=============================================================================
