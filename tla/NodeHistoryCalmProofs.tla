----------------------- MODULE NodeHistoryCalmProofs -----------------------
(***************************************************************************)
(* What NodeHistory shows while no report is lost or late and no two are   *)
(* under way at once, proved for any number of deployments and boots.      *)
(*                                                                         *)
(* Then a report is in the network only while its sender waits for it      *)
(* (Timely), at most the deployment of the manager's task lives (OneLive), *)
(* and the last record is its record from its start on, also when it is    *)
(* over (LastIsMeant): an end is entered where it belongs.  The shutdown   *)
(* handler reports an end too, of a deployment that is marked by then.     *)
(***************************************************************************)
EXTENDS NodeHistoryProofs

Calm == ~trouble /\ ~overlapped

\* Only the deployment of the manager's task lives.
OneLive == \A d \in Deployments : dpc[d] \in Live => d = current

\* A report is under way just while its sender waits for the answer.
Timely ==
  \A m \in net :
    /\ m.kind = "start" => dpc[m.of] = "starting"
    /\ m.kind = "end" /\ m.of # None => dpc[m.of] = "ending"
    /\ m.kind = "end" /\ m.of = None => sd = "reporting" /\ m.boot = boots
    /\ m.kind = "register" => agent = "registering" /\ m.boot = boots

\* The server has handled the start of d, and its end.
StartHandled(d) ==
  \/ dpc[d] = "starting" /\ StartOf(d) \notin net
  \/ dpc[d] \in {"working", "finished", "ending", "over"}

EndHandled(d) ==
  \/ dpc[d] = "ending" /\ EndOf(d) \notin net
  \/ dpc[d] = "over"

Last == deploys[Len(deploys)]

\* An end that comes in finds the record it is about.
LastIsMeant ==
  deploys # <<>> =>
    /\ \A d \in Deployments : d = current /\ StartHandled(d) => Last.of = d
    /\ sd # "idle" => Last.of \in shut

\* The shutdown handler has found what lives, and its start was over.
ShutdownFinds ==
  sd # "idle" => \A d \in Deployments :
                   dpc[d] \in Live => d \in shut /\ dpc[d] \notin {"admitted", "starting"}

\* A record that says running is the last one; its deployment lives, or died with
\* a node that has not registered again.
RunningRight(k) ==
  deploys[k].result = "running" =>
    /\ k = Len(deploys)
    /\ \/ dpc[deploys[k].of] \in Live
       \/ dpc[deploys[k].of] = "dead" /\ (agent = "off" \/ Registration \in net)

\* A record says what its deployment is at.
ResultRight(k) ==
  LET d == deploys[k].of
      result == deploys[k].result
  IN  /\ result \in {"completed", "failed"} => outcome[d] = result
      /\ EndHandled(d) => result # "running" /\ (d \notin shut => result = outcome[d])
      /\ dpc[d] \in Live /\ ~EndHandled(d) /\ d \notin shut => result = "running"

Recorded == \A k \in DOMAIN deploys : RunningRight(k) /\ ResultRight(k)

Settled == OneLive /\ Timely /\ LastIsMeant /\ ShutdownFinds /\ Recorded

-----------------------------------------------------------------------------
\* Calm is over for good once it is.
LEMMA CalmBefore == TypeOK /\ [Next]_vars /\ Calm' => Calm
<1> SUFFICES ASSUME TypeOK, [Next]_vars, Calm' PROVE Calm
  OBVIOUS
<1>1. trouble \in BOOLEAN /\ overlapped \in BOOLEAN
  BY DEF TypeOK
<1>2. \E late, over \in BOOLEAN : trouble' = (trouble \/ late) /\ overlapped' = (overlapped \/ over)
  <2>1. CASE UNCHANGED <<trouble, overlapped>>
    BY <1>1, <2>1
  <2>2. CASE Boot \/ SendHeartbeat \/ CancelDeploy \/ ServerStep \/ UNCHANGED vars
    BY <2>1, <2>2 DEF Boot, SendHeartbeat, CancelDeploy, ServerStep, vars, history
  <2>3. CASE Serve \/ ShutdownStep \/ GoDown
    BY <1>1, <2>1, <2>3
       DEF Serve, GoDown, GoOn, history,
           ShutdownStep, ShutdownBegin, ShutdownCancel, ShutdownPost, ShutdownReported
  <2>4. ASSUME NEW d \in Deployments, DeploymentStep(d)
        PROVE  \E late, over \in BOOLEAN : trouble' = (trouble \/ late) /\ overlapped' = (overlapped \/ over)
    BY <1>1, <2>1, <2>4 DEF DeploymentStep, Admit, PostStart, Work, Conclude, PostEnd, Leave,
                              SyncApplies, SyncEnds, GoOn, history
  <2>5. ASSUME NEW m \in net, Deliver(m) \/ Lose(m)
        PROVE  \E late, over \in BOOLEAN : trouble' = (trouble \/ late) /\ overlapped' = (overlapped \/ over)
    BY <1>1, <2>1, <2>5 DEF Deliver, Lose, history
  <2>6. QED
    BY <2>2, <2>3, <2>4, <2>5 DEF Next
<1>3. QED
  BY <1>1, <1>2 DEF Calm

\* No report can be taken for another.
LEMMA Distinct ==
  ASSUME NEW d \in Deployments, NEW e \in Deployments
  PROVE  /\ EndOf(d) \notin {StartOf(e), Beat, Registration, ShutdownEnd}
         /\ StartOf(d) \notin {EndOf(e), Beat, Registration, ShutdownEnd}
         /\ Registration \notin {Beat, ShutdownEnd}
         /\ d # e => EndOf(d) # EndOf(e) /\ StartOf(d) # StartOf(e)
  BY HistoryAssumption DEF EndOf, StartOf, Beat, Registration, ShutdownEnd, Message

\* A record is of a deployment.
LEMMA RecordTypes ==
  ASSUME TypeOK, NEW k \in DOMAIN deploys
  PROVE  deploys[k].of \in Deployments /\ deploys[k].result \in Results
<1>1. deploys \in Seq(DeployRecord)
  BY DEF TypeOK, StoreTypeOK
<1>2. deploys[k] \in DeployRecord
  BY <1>1, ElementOfSeq, LenProperties
<1>3. QED
  BY <1>2 DEF DeployRecord

\* The last record is one.
LEMMA LastIsRecord ==
  ASSUME TypeOK, deploys # <<>>
  PROVE  Len(deploys) \in DOMAIN deploys /\ Last.of \in Deployments /\ Last.result \in Results
<1>1. deploys \in Seq(DeployRecord)
  BY DEF TypeOK, StoreTypeOK
<1>2. Len(deploys) \in DOMAIN deploys
  BY <1>1, LenProperties, EmptySeq
<1>3. QED
  BY <1>2, RecordTypes DEF Last

\* The node comes up.
LEMMA CalmBoot ==
  ASSUME Base, Settled, Boot
  PROVE  Settled'
<1> USE DEF Base, Settled
<1>1. /\ agent = "off" /\ agent' = "registering" /\ boots' = boots + 1 /\ sd = "idle"
      /\ net' = net \cup {Message("register", None, None, boots + 1)}
      /\ UNCHANGED <<deploys, dpc, outcome, current, sd, shut>>
      /\ \A d \in Deployments : dpc[d] \notin Live /\ d # current
  BY HistoryAssumption DEF Boot, Running, storeVars, managerVars, history
<1>2. Message("register", None, None, boots + 1) = Registration'
  BY <1>1 DEF Registration
<1>3. \A m \in net : m.kind = "heartbeat"
  <2> SUFFICES ASSUME NEW m \in net PROVE m.kind = "heartbeat"
    OBVIOUS
  <2>1. m \in Messages /\ Genuine(m)
    BY DEF TypeOK, Sent
  <2>2. m.kind = "start" => m.of \in Deployments
    BY <2>1 DEF Genuine
  <2>3. m.kind = "end" /\ m.of # None => m.of \in Deployments
    BY <2>1 DEF Messages
  <2>4. QED
    BY <1>1, <2>1, <2>2, <2>3 DEF Timely, Messages, Live
<1>4. OneLive' /\ ShutdownFinds'
  BY <1>1 DEF OneLive, ShutdownFinds
<1>5. Timely'
  <2>1. /\ Message("register", None, None, boots + 1).kind = "register"
        /\ Message("register", None, None, boots + 1).boot = boots + 1
    BY DEF Message
  <2>2. QED
    BY <1>1, <1>3, <2>1 DEF Timely
<1>6. LastIsMeant'
  BY <1>1 DEF LastIsMeant, StartHandled, Live
<1>7. ASSUME NEW k \in DOMAIN deploys
      PROVE  RunningRight(k)' /\ ResultRight(k)'
  <2>1. RunningRight(k) /\ ResultRight(k) /\ deploys[k].of \in Deployments
    BY RecordTypes DEF Recorded
  <2>2. RunningRight(k)'
    BY <1>1, <1>2, <2>1 DEF RunningRight
  <2>3. ResultRight(k)'
    BY <1>1, <2>1 DEF ResultRight, EndHandled, Live
  <2>4. QED
    BY <2>2, <2>3
<1>8. Recorded'
  BY <1>1, <1>7 DEF Recorded
<1>9. QED
  BY <1>4, <1>5, <1>6, <1>8

\* The registration has been answered.
LEMMA CalmServe ==
  ASSUME Base, Settled, Serve, Calm'
  PROVE  Settled'
<1> USE DEF Base, Settled
<1>1. /\ agent = "registering" /\ agent' = "serving"
      /\ UNCHANGED <<deploys, net, boots, dpc, outcome, current, sd, shut>>
      /\ Registration \notin net
      /\ \A d \in Deployments : dpc[d] \notin Live
  BY DEF Serve, Running, storeVars, managerVars, GoOn, Calm
<1>2. OneLive' /\ ShutdownFinds'
  BY <1>1 DEF OneLive, ShutdownFinds
<1>3. Timely'
  <2>1. ASSUME NEW m \in net, m.kind = "register"
        PROVE  FALSE
    BY <1>1, <2>1 DEF Timely, Sent, Genuine, Registration
  <2>2. QED
    BY <1>1, <2>1 DEF Timely
<1>4. LastIsMeant'
  BY <1>1 DEF LastIsMeant, StartHandled, StartOf, Last
<1>5. ASSUME NEW k \in DOMAIN deploys
      PROVE  RunningRight(k)' /\ ResultRight(k)'
  <2>1. RunningRight(k) /\ ResultRight(k) /\ deploys[k].of \in Deployments
    BY RecordTypes DEF Recorded
  <2>2. QED
    BY <1>1, <2>1 DEF RunningRight, ResultRight, EndHandled, EndOf
<1>6. Recorded'
  BY <1>1, <1>5 DEF Recorded
<1>7. QED
  BY <1>2, <1>3, <1>4, <1>6

\* A heartbeat is sent, or something goes on in the manager only.
LEMMA CalmManager ==
  ASSUME Base, Settled,
         \/ SendHeartbeat \/ CancelDeploy \/ ShutdownCancel
         \/ \E d \in Deployments : SyncApplies(d) \/ SyncEnds(d)
  PROVE  Settled'
<1> USE DEF Base, Settled
<1>1. /\ UNCHANGED <<deploys, boots, agent, dpc, outcome, current, shut>>
      /\ sd' = sd \/ (sd = "found" /\ sd' = "waiting")
      /\ net \subseteq net' /\ net' \subseteq net \cup {Beat}
  BY DEF SendHeartbeat, CancelDeploy, ShutdownCancel, SyncApplies, SyncEnds, Post,
         storeVars, agentVars, managerVars, history
<1>2. \A d \in Deployments :
        /\ (EndOf(d) \in net)' <=> EndOf(d) \in net
        /\ (StartOf(d) \in net)' <=> StartOf(d) \in net
  BY <1>1, Distinct DEF EndOf, StartOf
<1>3. Registration' = Registration
  BY <1>1 DEF Registration
<1>4. Beat.kind = "heartbeat"
  BY DEF Beat, Message
<1>5. OneLive' /\ ShutdownFinds' /\ Timely'
  BY <1>1, <1>4 DEF OneLive, ShutdownFinds, Timely
<1>6. LastIsMeant'
  BY <1>1, <1>2 DEF LastIsMeant, StartHandled, Last
<1>7. ASSUME NEW k \in DOMAIN deploys
      PROVE  RunningRight(k)' /\ ResultRight(k)'
  <2>1. RunningRight(k) /\ ResultRight(k) /\ deploys[k].of \in Deployments
    BY RecordTypes DEF Recorded
  <2>2. RunningRight(k)'
    BY <1>1, <1>3, <2>1 DEF RunningRight
  <2>3. ResultRight(k)'
    BY <1>1, <1>2, <2>1 DEF ResultRight, EndHandled
  <2>4. QED
    BY <2>2, <2>3
<1>8. Recorded'
  BY <1>1, <1>7 DEF Recorded
<1>9. QED
  BY <1>5, <1>6, <1>8

\* A deployment is admitted: nothing lives but it, and it has no record.
LEMMA CalmAdmit ==
  ASSUME Base, Settled, NEW d \in Deployments, Admit(d), Calm'
  PROVE  Settled'
<1> USE DEF Base, Settled
<1>1. /\ agent = "serving" /\ dpc[d] = "idle" /\ dpc'[d] = "admitted" /\ sd = "idle"
      /\ UNCHANGED <<deploys, net, boots, agent, outcome, sd, shut>> /\ current' = d
      /\ \A e \in Deployments : dpc[e] \notin Live /\ (e # d => dpc'[e] = dpc[e])
  BY DEF Admit, storeVars, Calm, TypeOK
<1>2. OneLive' /\ ShutdownFinds'
  BY <1>1 DEF OneLive, ShutdownFinds
<1>3. Timely'
  <2> SUFFICES ASSUME NEW m \in net, m.kind \in {"start", "end"} PROVE FALSE
    BY <1>1 DEF Timely
  <2>1. m \in Messages /\ Genuine(m)
    BY DEF TypeOK, Sent
  <2>2. m.kind = "start" => m.of \in Deployments
    BY <2>1 DEF Genuine
  <2>3. m.kind = "end" /\ m.of # None => m.of \in Deployments
    BY <2>1 DEF Messages
  <2>4. QED
    BY <1>1, <2>2, <2>3 DEF Timely, Live
<1>4. LastIsMeant'
  BY <1>1 DEF LastIsMeant, StartHandled, Last, Live
<1>5. ASSUME NEW k \in DOMAIN deploys
      PROVE  RunningRight(k)' /\ ResultRight(k)'
  <2>1. RunningRight(k) /\ ResultRight(k) /\ deploys[k].of \in Deployments
    BY RecordTypes DEF Recorded
  <2>2. deploys[k].of # d
    BY <1>1 DEF HistoryIsGenuine
  <2>3. QED
    BY <1>1, <2>1, <2>2 DEF RunningRight, ResultRight, EndHandled, EndOf, Registration
<1>6. Recorded'
  BY <1>1, <1>5 DEF Recorded
<1>7. QED
  BY <1>2, <1>3, <1>4, <1>6

\* Its start is reported: nothing else is under way.
LEMMA CalmPostStart ==
  ASSUME Base, Settled, NEW d \in Deployments, PostStart(d)
  PROVE  Settled'
<1> USE DEF Base, Settled
<1>1. /\ dpc[d] = "admitted" /\ dpc'[d] = "starting" /\ net' = net \cup {StartOf(d)}
      /\ UNCHANGED <<deploys, boots, agent, outcome, current, sd, shut>>
      /\ \A e \in Deployments : e # d => dpc'[e] = dpc[e]
  BY DEF PostStart, Post, storeVars, history, TypeOK
<1>2. \A e \in Deployments :
        /\ (EndOf(e) \in net)' <=> EndOf(e) \in net
        /\ e # d => ((StartOf(e) \in net)' <=> StartOf(e) \in net)
  BY <1>1, Distinct DEF EndOf, StartOf
<1>3. OneLive' /\ ShutdownFinds'
  BY <1>1 DEF OneLive, ShutdownFinds, Live
<1>4. Timely'
  <2>1. StartOf(d).kind = "start" /\ StartOf(d).of = d
    BY DEF StartOf, Message
  <2>2. \A m \in net : m.kind = "start" => m.of \in Deployments
    BY DEF Sent, Genuine
  <2>3. \A m \in net : m.kind = "end" /\ m.of # None => m.of \in Deployments
    BY DEF TypeOK, Messages
  <2>4. QED
    BY <1>1, <2>1, <2>2, <2>3 DEF Timely
<1>5. LastIsMeant'
  BY <1>1, <1>2 DEF LastIsMeant, StartHandled, Last
<1>6. ASSUME NEW k \in DOMAIN deploys
      PROVE  RunningRight(k)' /\ ResultRight(k)'
  <2>1. RunningRight(k) /\ ResultRight(k) /\ deploys[k].of \in Deployments
    BY RecordTypes DEF Recorded
  <2>2. deploys[k].of # d
    BY <1>1 DEF HistoryIsGenuine
  <2>3. RunningRight(k)'
    BY <1>1, <2>1, <2>2 DEF RunningRight, Registration
  <2>4. ResultRight(k)'
    BY <1>1, <1>2, <2>1, <2>2 DEF ResultRight, EndHandled
  <2>5. QED
    BY <2>3, <2>4
<1>7. Recorded'
  BY <1>1, <1>6 DEF Recorded
<1>8. QED
  BY <1>3, <1>4, <1>5, <1>7

\* The start has been answered, so it has been handled.
LEMMA CalmWork ==
  ASSUME Base, Settled, NEW d \in Deployments, Work(d), Calm'
  PROVE  Settled'
<1> USE DEF Base, Settled
<1>1. /\ dpc[d] = "starting" /\ dpc'[d] = "working" /\ StartOf(d) \notin net
      /\ UNCHANGED <<deploys, net, boots, agent, outcome, current, sd, shut>>
      /\ \A e \in Deployments : e # d => dpc'[e] = dpc[e]
  BY DEF Work, GoOn, Calm, storeVars, TypeOK
<1>2. OneLive' /\ ShutdownFinds'
  BY <1>1 DEF OneLive, ShutdownFinds, Live
<1>3. Timely'
  <2> SUFFICES ASSUME NEW m \in net,
                      m.kind = "start" \/ (m.kind = "end" /\ m.of # None)
               PROVE  m.of # d /\ m.of \in Deployments
    BY <1>1 DEF Timely
  <2>1. m \in Messages /\ Genuine(m)
    BY DEF TypeOK, Sent
  <2>2. CASE m.kind = "start"
    BY <1>1, <2>1, <2>2 DEF Genuine
  <2>3. CASE m.kind = "end" /\ m.of # None
    BY <1>1, <2>1, <2>3 DEF Timely, Messages
  <2>4. QED
    BY <2>2, <2>3
<1>4. LastIsMeant'
  BY <1>1 DEF LastIsMeant, StartHandled, Last
<1>5. ASSUME NEW k \in DOMAIN deploys
      PROVE  RunningRight(k)' /\ ResultRight(k)'
  <2>1. RunningRight(k) /\ ResultRight(k) /\ deploys[k].of \in Deployments
    BY RecordTypes DEF Recorded
  <2>2. RunningRight(k)'
    BY <1>1, <2>1 DEF RunningRight, Registration, Live
  <2>3. ResultRight(k)'
    BY <1>1, <2>1 DEF ResultRight, EndHandled, EndOf, Live
  <2>4. QED
    BY <2>2, <2>3
<1>6. Recorded'
  BY <1>1, <1>5 DEF Recorded
<1>7. QED
  BY <1>2, <1>3, <1>4, <1>6

\* The pipeline has ended.
LEMMA CalmConclude ==
  ASSUME Base, Settled, NEW d \in Deployments, Conclude(d)
  PROVE  Settled'
<1> USE DEF Base, Settled
<1>1. /\ dpc[d] = "working" /\ dpc'[d] = "finished"
      /\ UNCHANGED <<deploys, net, boots, agent, current, sd, shut>>
      /\ \A e \in Deployments : e # d => dpc'[e] = dpc[e] /\ outcome'[e] = outcome[e]
  BY DEF Conclude, storeVars, history, TypeOK
<1>2. OneLive' /\ ShutdownFinds'
  BY <1>1 DEF OneLive, ShutdownFinds, Live
<1>3. Timely'
  <2> SUFFICES ASSUME NEW m \in net,
                      m.kind = "start" \/ (m.kind = "end" /\ m.of # None)
               PROVE  m.of # d /\ m.of \in Deployments
    BY <1>1 DEF Timely
  <2>1. m \in Messages /\ Genuine(m)
    BY DEF TypeOK, Sent
  <2>2. CASE m.kind = "start"
    BY <1>1, <2>1, <2>2 DEF Timely, Genuine
  <2>3. CASE m.kind = "end" /\ m.of # None
    BY <1>1, <2>1, <2>3 DEF Timely, Messages
  <2>4. QED
    BY <2>2, <2>3
<1>4. LastIsMeant'
  BY <1>1 DEF LastIsMeant, StartHandled, Last
<1>5. ASSUME NEW k \in DOMAIN deploys
      PROVE  RunningRight(k)' /\ ResultRight(k)'
  <2>1. /\ RunningRight(k) /\ ResultRight(k)
        /\ deploys[k].of \in Deployments /\ deploys[k].result \in Results
    BY RecordTypes DEF Recorded
  <2>2. RunningRight(k)'
    BY <1>1, <2>1 DEF RunningRight, Registration, Live
  <2>3. CASE deploys[k].of = d
    <3>1. outcome[d] = None /\ deploys[k].result \notin {"completed", "failed"}
      <4>1. outcome[d] = None
        BY <1>1 DEF Running
      <4>2. None \notin {"completed", "failed"}
        BY HistoryAssumption DEF Results
      <4>3. QED
        BY <2>1, <2>3, <4>1, <4>2 DEF ResultRight
    <3>2. ResultRight(k)'
      BY <1>1, <2>1, <2>3, <3>1 DEF ResultRight, EndHandled, Live
    <3>3. QED
      BY <2>2, <3>2
  <2>4. CASE deploys[k].of # d
    <3>1. ResultRight(k)'
      BY <1>1, <2>1, <2>4 DEF ResultRight, EndHandled, EndOf
    <3>2. QED
      BY <2>2, <3>1
  <2>5. QED
    BY <2>3, <2>4
<1>6. Recorded'
  BY <1>1, <1>5 DEF Recorded
<1>7. QED
  BY <1>2, <1>3, <1>4, <1>6

\* Its end is reported.
LEMMA CalmPostEnd ==
  ASSUME Base, Settled, NEW d \in Deployments, PostEnd(d)
  PROVE  Settled'
<1> USE DEF Base, Settled
<1>1. /\ dpc[d] = "finished" /\ dpc'[d] = "ending" /\ net' = net \cup {EndOf(d)}
      /\ UNCHANGED <<deploys, boots, agent, outcome, current, sd, shut>>
      /\ \A e \in Deployments : e # d => dpc'[e] = dpc[e]
  BY DEF PostEnd, Post, storeVars, managerVars, history, TypeOK
<1>2. \A e \in Deployments :
        /\ e # d => ((EndOf(e) \in net)' <=> EndOf(e) \in net)
        /\ (StartOf(e) \in net)' <=> StartOf(e) \in net
  BY <1>1, Distinct DEF EndOf, StartOf
<1>3. (EndOf(d) \in net)'
  BY <1>1 DEF EndOf
<1>4. OneLive' /\ ShutdownFinds'
  BY <1>1 DEF OneLive, ShutdownFinds, Live
<1>5. Timely'
  <2>1. EndOf(d).kind = "end" /\ EndOf(d).of = d /\ d # None
    BY HistoryAssumption DEF EndOf, Message
  <2>2. \A m \in net : m.kind = "start" => m.of \in Deployments /\ m.of # d
    BY <1>1 DEF Timely, Sent, Genuine
  <2>3. \A m \in net : m.kind = "end" /\ m.of # None => m.of \in Deployments
    BY DEF TypeOK, Messages
  <2>4. QED
    BY <1>1, <2>1, <2>2, <2>3 DEF Timely
<1>6. LastIsMeant'
  BY <1>1, <1>2 DEF LastIsMeant, StartHandled, Last
<1>7. ASSUME NEW k \in DOMAIN deploys
      PROVE  RunningRight(k)' /\ ResultRight(k)'
  <2>1. RunningRight(k) /\ ResultRight(k) /\ deploys[k].of \in Deployments
    BY RecordTypes DEF Recorded
  <2>2. RunningRight(k)'
    BY <1>1, <2>1 DEF RunningRight, Registration, Live
  <2>3. ResultRight(k)'
    BY <1>1, <1>2, <1>3, <2>1 DEF ResultRight, EndHandled, Live
  <2>4. QED
    BY <2>2, <2>3
<1>8. Recorded'
  BY <1>1, <1>7 DEF Recorded
<1>9. QED
  BY <1>4, <1>5, <1>6, <1>8

\* The end has been answered, so it has been handled.
LEMMA CalmLeave ==
  ASSUME Base, Settled, NEW d \in Deployments, Leave(d), Calm'
  PROVE  Settled'
<1> USE DEF Base, Settled
<1>1. /\ dpc[d] = "ending" /\ dpc'[d] = "over" /\ EndOf(d) \notin net
      /\ UNCHANGED <<deploys, net, boots, agent, outcome, current, sd, shut>>
      /\ \A e \in Deployments : e # d => dpc'[e] = dpc[e]
  BY DEF Leave, GoOn, Calm, storeVars, managerVars, TypeOK
<1>2. OneLive' /\ ShutdownFinds'
  BY <1>1 DEF OneLive, ShutdownFinds, Live
<1>3. Timely'
  <2> SUFFICES ASSUME NEW m \in net,
                      m.kind = "start" \/ (m.kind = "end" /\ m.of # None)
               PROVE  m.of # d /\ m.of \in Deployments
    BY <1>1 DEF Timely
  <2>1. m \in Messages /\ Genuine(m)
    BY DEF TypeOK, Sent
  <2>2. CASE m.kind = "start"
    BY <1>1, <2>1, <2>2 DEF Timely, Genuine
  <2>3. CASE m.kind = "end" /\ m.of # None
    <3>1. m.of \in Deployments
      BY <2>1, <2>3 DEF Messages
    <3>2. m = EndOf(m.of)
      BY <2>1, <2>3 DEF Genuine
    <3>3. QED
      BY <1>1, <3>1, <3>2
  <2>4. QED
    BY <2>2, <2>3
<1>4. LastIsMeant'
  BY <1>1 DEF LastIsMeant, StartHandled, Last
<1>5. ASSUME NEW k \in DOMAIN deploys
      PROVE  RunningRight(k)' /\ ResultRight(k)'
  <2>1. RunningRight(k) /\ ResultRight(k) /\ deploys[k].of \in Deployments
    BY RecordTypes DEF Recorded
  <2>2. deploys[k].of = d => deploys[k].result # "running"
    BY <1>1, <2>1 DEF ResultRight, EndHandled
  <2>3. RunningRight(k)'
    BY <1>1, <2>1, <2>2 DEF RunningRight, Registration
  <2>4. ResultRight(k)'
    BY <1>1, <2>1 DEF ResultRight, EndHandled, EndOf, Live
  <2>5. QED
    BY <2>3, <2>4
<1>6. Recorded'
  BY <1>1, <1>5 DEF Recorded
<1>7. QED
  BY <1>2, <1>3, <1>4, <1>6

\* The shutdown handler finds a deployment running: its start has been handled, so
\* the last record is that of the deployment found.
LEMMA CalmShutdownBegin ==
  ASSUME Base, Settled, ShutdownBegin, Calm'
  PROVE  Settled'
<1> USE DEF Base, Settled
<1>1. /\ sd' = "found" /\ shut' = shut \cup {current}
      /\ UNCHANGED <<deploys, net, boots, agent, dpc, outcome, current>>
      /\ \A e \in Deployments : /\ e # current => dpc[e] \notin Live
                               /\ dpc[e] \notin {"admitted", "starting"}
  BY DEF ShutdownBegin, Calm, storeVars, managerVars
<1>2. sd = "idle"
  BY DEF ShutdownBegin
<1>3. current \in Deployments /\ StartHandled(current)
  BY <1>1 DEF ShutdownBegin, IsRunning, TypeOK, Running, StartHandled, Places, Live
<1>4. OneLive' /\ ShutdownFinds'
  BY <1>1 DEF OneLive, ShutdownFinds
<1>5. Timely'
  BY <1>1, <1>2 DEF Timely
<1>6. LastIsMeant'
  <2>1. deploys # <<>> => Last.of = current
    BY <1>3 DEF LastIsMeant
  <2>2. \A d \in Deployments : StartHandled(d)' <=> StartHandled(d)
    BY <1>1 DEF StartHandled, StartOf
  <2>3. QED
    BY <1>1, <2>1, <2>2 DEF LastIsMeant, Last
<1>7. ASSUME NEW k \in DOMAIN deploys
      PROVE  RunningRight(k)' /\ ResultRight(k)'
  <2>1. RunningRight(k) /\ ResultRight(k) /\ deploys[k].of \in Deployments
    BY RecordTypes DEF Recorded
  <2>2. QED
    BY <1>1, <2>1 DEF RunningRight, ResultRight, EndHandled, EndOf, Registration
<1>8. Recorded'
  BY <1>1, <1>7 DEF Recorded
<1>9. QED
  BY <1>4, <1>5, <1>6, <1>8

\* It reports an end.
LEMMA CalmShutdownPost ==
  ASSUME Base, Settled, ShutdownPost
  PROVE  Settled'
<1> USE DEF Base, Settled
<1>1. /\ sd = "waiting" /\ sd' = "reporting" /\ net' = net \cup {ShutdownEnd}
      /\ UNCHANGED <<deploys, boots, agent, dpc, outcome, current, shut>>
  BY DEF ShutdownPost, Post, storeVars, managerVars, history
<1>2. \A d \in Deployments :
        /\ (EndOf(d) \in net)' <=> EndOf(d) \in net
        /\ (StartOf(d) \in net)' <=> StartOf(d) \in net
  BY <1>1, Distinct DEF EndOf, StartOf
<1>3. Registration' = Registration
  BY <1>1 DEF Registration
<1>4. OneLive' /\ ShutdownFinds'
  BY <1>1 DEF OneLive, ShutdownFinds
<1>5. Timely'
  <2>1. ShutdownEnd.kind = "end" /\ ShutdownEnd.of = None /\ ShutdownEnd.boot = boots
    BY DEF ShutdownEnd, Message
  <2>2. QED
    BY <1>1, <2>1 DEF Timely
<1>6. LastIsMeant'
  BY <1>1, <1>2 DEF LastIsMeant, StartHandled, Last
<1>7. ASSUME NEW k \in DOMAIN deploys
      PROVE  RunningRight(k)' /\ ResultRight(k)'
  <2>1. RunningRight(k) /\ ResultRight(k) /\ deploys[k].of \in Deployments
    BY RecordTypes DEF Recorded
  <2>2. RunningRight(k)'
    BY <1>1, <1>3, <2>1 DEF RunningRight
  <2>3. ResultRight(k)'
    BY <1>1, <1>2, <2>1 DEF ResultRight, EndHandled
  <2>4. QED
    BY <2>2, <2>3
<1>8. Recorded'
  BY <1>1, <1>7 DEF Recorded
<1>9. QED
  BY <1>4, <1>5, <1>6, <1>8

\* Its report has been answered, so it has been handled.
LEMMA CalmShutdownReported ==
  ASSUME Base, Settled, ShutdownReported, Calm'
  PROVE  Settled'
<1> USE DEF Base, Settled
<1>1. /\ sd = "reporting" /\ sd' = "idle" /\ ShutdownEnd \notin net
      /\ UNCHANGED <<deploys, net, boots, agent, dpc, outcome, current, shut>>
  BY DEF ShutdownReported, GoOn, Calm, storeVars, managerVars
<1>2. OneLive' /\ ShutdownFinds'
  BY <1>1 DEF OneLive, ShutdownFinds
<1>3. Timely'
  <2>1. ASSUME NEW m \in net, m.kind = "end", m.of = None
        PROVE  FALSE
    <3>1. m = Message("end", None, "cancelled", m.boot) /\ m.boot = boots
      BY <2>1 DEF Timely, Sent, Genuine
    <3>2. QED
      BY <1>1, <3>1 DEF ShutdownEnd
  <2>2. QED
    BY <1>1, <2>1 DEF Timely
<1>4. LastIsMeant'
  BY <1>1 DEF LastIsMeant, StartHandled, Last
<1>5. ASSUME NEW k \in DOMAIN deploys
      PROVE  RunningRight(k)' /\ ResultRight(k)'
  <2>1. RunningRight(k) /\ ResultRight(k) /\ deploys[k].of \in Deployments
    BY RecordTypes DEF Recorded
  <2>2. QED
    BY <1>1, <2>1 DEF RunningRight, ResultRight, EndHandled, EndOf, Registration
<1>6. Recorded'
  BY <1>1, <1>5 DEF Recorded
<1>7. QED
  BY <1>2, <1>3, <1>4, <1>6

\* The machine goes down with nothing under way but heartbeats.
LEMMA CalmGoDown ==
  ASSUME Base, Settled, GoDown, Calm'
  PROVE  Settled'
<1> USE DEF Base, Settled
<1>1. /\ agent' = "off" /\ sd' = "idle" /\ \A m \in net : m.kind = "heartbeat"
      /\ UNCHANGED <<deploys, net, boots, outcome, shut>>
      /\ \A d \in Deployments : d # current'
      /\ \A d \in Deployments : dpc'[d] = IF dpc[d] \in Live THEN "dead" ELSE dpc[d]
  BY HistoryAssumption DEF GoDown, Calm, storeVars
<1>2. \A d \in Deployments : dpc'[d] \notin Live
  BY <1>1 DEF Live
<1>3. OneLive' /\ ShutdownFinds' /\ Timely'
  BY <1>1, <1>2 DEF OneLive, ShutdownFinds, Timely
<1>4. LastIsMeant'
  BY <1>1, <1>2 DEF LastIsMeant, StartHandled, Live
<1>5. ASSUME NEW k \in DOMAIN deploys
      PROVE  RunningRight(k)' /\ ResultRight(k)'
  <2>1. RunningRight(k) /\ ResultRight(k) /\ deploys[k].of \in Deployments
    BY RecordTypes DEF Recorded
  <2>2. RunningRight(k)'
    BY <1>1, <2>1 DEF RunningRight
  <2>3. ResultRight(k)'
    BY <1>1, <1>2, <2>1 DEF ResultRight, EndHandled, Live
  <2>4. QED
    BY <2>2, <2>3
<1>6. Recorded'
  BY <1>1, <1>5 DEF Recorded
<1>7. QED
  BY <1>3, <1>4, <1>6

\* A report is lost that does not matter, or the server acts by itself.
LEMMA CalmLose ==
  ASSUME Base, Settled, ServerStep \/ UNCHANGED vars \/ \E m \in net : Lose(m), Calm'
  PROVE  Settled'
<1> USE DEF Base, Settled
<1>1. /\ UNCHANGED <<boots, agent, dpc, outcome, current, sd, shut>>
      /\ deploys' = deploys \/ deploys' = <<>>
      /\ net' \subseteq net /\ \A m \in net \ net' : m.kind = "heartbeat"
  BY DEF ServerStep, DeleteNode, OnlineTimeout, Lose, vars, agentVars, managerVars, storeVars, history, Calm
<1>2. \A d \in Deployments :
        /\ (EndOf(d) \in net)' <=> EndOf(d) \in net
        /\ (StartOf(d) \in net)' <=> StartOf(d) \in net
  <2>1. \A d \in Deployments :
          /\ EndOf(d).kind = "end" /\ EndOf(d)' = EndOf(d)
          /\ StartOf(d).kind = "start" /\ StartOf(d)' = StartOf(d)
    BY <1>1 DEF EndOf, StartOf, Message
  <2>2. QED
    BY <1>1, <2>1
<1>3. Registration' = Registration /\ (Registration \in net => Registration \in net')
  <2>1. Registration.kind = "register" /\ Registration' = Registration
    BY <1>1 DEF Registration, Message
  <2>2. QED
    BY <1>1, <2>1
<1>4. OneLive' /\ ShutdownFinds' /\ Timely'
  BY <1>1 DEF OneLive, ShutdownFinds, Timely
<1>5. CASE deploys' = <<>>
  <2>1. DOMAIN deploys' = {}
    BY <1>5
  <2>2. QED
    BY <1>4, <1>5, <2>1 DEF LastIsMeant, Recorded
<1>6. CASE deploys' = deploys
  <2>1. LastIsMeant'
    BY <1>1, <1>2, <1>6 DEF LastIsMeant, StartHandled, Last
  <2>2. ASSUME NEW k \in DOMAIN deploys
        PROVE  RunningRight(k)' /\ ResultRight(k)'
    <3>1. RunningRight(k) /\ ResultRight(k) /\ deploys[k].of \in Deployments
      BY RecordTypes DEF Recorded
    <3>2. RunningRight(k)'
      BY <1>1, <1>3, <1>6, <3>1 DEF RunningRight
    <3>3. ResultRight(k)'
      BY <1>1, <1>2, <1>6, <3>1 DEF ResultRight, EndHandled
    <3>4. QED
      BY <3>2, <3>3
  <2>3. Recorded'
    BY <1>6, <2>2 DEF Recorded
  <2>4. QED
    BY <1>4, <2>1, <2>3
<1>7. QED
  BY <1>1, <1>5, <1>6

\* What a report that is handled leaves to the others.
LEMMA Handled ==
  ASSUME Base, Settled, NEW m \in net, Deliver(m)
  PROVE  /\ net' = net \ {m} /\ UNCHANGED <<boots, agent, dpc, outcome, current, sd, shut>>
         /\ \A d \in Deployments : EndOf(d)' = EndOf(d) /\ StartOf(d)' = StartOf(d)
         /\ Registration' = Registration
         /\ OneLive' /\ ShutdownFinds' /\ Timely'
<1>1. net' = net \ {m} /\ UNCHANGED <<boots, agent, dpc, outcome, current, sd, shut>>
  BY DEF Deliver, agentVars, managerVars, history
<1>2. /\ \A d \in Deployments : EndOf(d)' = EndOf(d) /\ StartOf(d)' = StartOf(d)
      /\ Registration' = Registration
  BY <1>1 DEF EndOf, StartOf, Registration
<1>3. OneLive' /\ ShutdownFinds' /\ Timely'
  BY <1>1 DEF Settled, OneLive, ShutdownFinds, Timely
<1>4. QED
  BY <1>1, <1>2, <1>3

\* A start comes in while its deployment waits: it makes the last record.
LEMMA CalmStart ==
  ASSUME Base, Settled, NEW m \in net, Deliver(m), m.kind = "start"
  PROVE  Settled'
<1> USE DEF Base, Settled
<1>1. m.of \in Deployments /\ m = StartOf(m.of) /\ dpc[m.of] = "starting" /\ sd = "idle"
  <2>1. m.of \in Deployments /\ m = StartOf(m.of) /\ dpc[m.of] = "starting"
    BY DEF Sent, Genuine, Timely
  <2>2. QED
    BY <2>1 DEF ShutdownFinds, Live
<1>2. /\ \A e \in Deployments : dpc[e] \in Live => e = m.of
      /\ agent = "serving"
      /\ Registration \notin net
  <2>1. Registration.kind = "register"
    BY DEF Registration, Message
  <2>2. agent = "serving"
    BY <1>1 DEF Running, Live
  <2>3. QED
    BY <1>1, <2>1, <2>2 DEF OneLive, Timely, Live
<1>3. deploys \in Seq(DeployRecord)
  BY DEF TypeOK, StoreTypeOK
<1>4. CASE ~known
  <2>1. deploys = <<>> /\ deploys' = <<>>
    BY <1>4 DEF Deliver, Handle, DeployStart, TypeOK, StoreTypeOK
  <2>2. LastIsMeant' /\ Recorded'
    BY <2>1 DEF LastIsMeant, Recorded
  <2>3. QED
    BY <2>2, Handled
<1>5. CASE known
  <2>1. deploys' = Append(deploys, [of |-> m.of, result |-> "running"])
    BY <1>5 DEF Deliver, Handle, DeployStart
  <2>2. /\ DOMAIN deploys' = DOMAIN deploys \cup {Len(deploys')}
        /\ \A k \in DOMAIN deploys : deploys'[k] = deploys[k]
        /\ deploys'[Len(deploys')].of = m.of /\ deploys'[Len(deploys')].result = "running"
    BY <1>1, <1>3, <2>1, AppendFacts
  <2>3. LastIsMeant'
    <3>1. current' = m.of
      BY <1>1, Handled DEF OneLive, Live
    <3>2. Last'.of = m.of
      BY <2>2 DEF Last
    <3>3. sd' = "idle"
      BY <1>1, Handled
    <3>4. QED
      BY <3>1, <3>2, <3>3 DEF LastIsMeant
  <2>4. ASSUME NEW k \in DOMAIN deploys
        PROVE  RunningRight(k)' /\ ResultRight(k)'
    <3>1. RunningRight(k) /\ ResultRight(k) /\ deploys[k].of \in Deployments
      BY RecordTypes DEF Recorded
    <3>2. deploys[k].of # m.of
      BY DEF Sent, Genuine
    <3>3. deploys[k].result # "running"
      BY <1>2, <3>1, <3>2 DEF RunningRight
    <3>4. RunningRight(k)'
      BY <2>2, <3>3 DEF RunningRight
    <3>5. EndOf(deploys[k].of) # m
      BY <1>1, <3>1, Distinct
    <3>6. ResultRight(k)'
      BY <2>2, <3>1, <3>5, Handled DEF ResultRight, EndHandled
    <3>7. QED
      BY <3>4, <3>6
  <2>5. ASSUME NEW k, k = Len(deploys')
        PROVE  RunningRight(k)' /\ ResultRight(k)'
    <3>1. deploys'[k].of = m.of /\ deploys'[k].result = "running" /\ dpc'[m.of] = "starting"
      BY <1>1, <2>2, <2>5, Handled
    <3>2. RunningRight(k)'
      BY <2>5, <3>1 DEF RunningRight, Live
    <3>3. ResultRight(k)'
      BY <3>1 DEF ResultRight, EndHandled
    <3>4. QED
      BY <3>2, <3>3
  <2>6. Recorded'
    BY <2>2, <2>4, <2>5 DEF Recorded
  <2>7. QED
    BY <2>3, <2>6, Handled
<1>6. QED
  BY <1>4, <1>5

\* An end comes in: the last record is the one it is about, or it comes from a
\* shutdown handler that has found the deployment of the last record.
LEMMA CalmEnd ==
  ASSUME Base, Settled, NEW m \in net, Deliver(m), m.kind = "end"
  PROVE  Settled'
<1> USE DEF Base, Settled
<1>1. deploys \in Seq(DeployRecord) /\ m \in Messages /\ Genuine(m) /\ m.result \in Results
  BY EndsHaveResults DEF TypeOK, StoreTypeOK, Sent
<1>2. CASE deploys = <<>>
  <2>1. deploys' = <<>>
    BY <1>2 DEF Deliver, Handle, DeployEnd
  <2>2. LastIsMeant' /\ Recorded'
    BY <2>1 DEF LastIsMeant, Recorded
  <2>3. QED
    BY <2>2, Handled
<1>3. CASE deploys # <<>>
  <2>1. known /\ deploys' = SetLast(m.result)
    BY <1>3 DEF Deliver, Handle, DeployEnd, TypeOK, StoreTypeOK
  <2>2. /\ deploys' # <<>> /\ Len(deploys') = Len(deploys) /\ DOMAIN deploys' = DOMAIN deploys
        /\ \A k \in DOMAIN deploys :
             /\ deploys'[k].of = deploys[k].of
             /\ deploys'[k].result = IF k = Len(deploys) THEN m.result ELSE deploys[k].result
    BY <1>1, <1>3, <2>1, SetLastFacts
  <2>3. Len(deploys) \in DOMAIN deploys /\ Last.of \in Deployments /\ Last'.of = Last.of
    BY <1>3, <2>2, LastIsRecord DEF Last
  <2>4. \/ /\ m.of = Last.of /\ m = EndOf(Last.of) /\ dpc[Last.of] = "ending"
           /\ m.result = outcome[Last.of]
        \/ m.of = None /\ m.result = "cancelled" /\ Last.of \in shut
    <3>1. CASE m.of # None
      <4>1. m.of \in Deployments /\ m = EndOf(m.of) /\ dpc[m.of] = "ending"
        BY <1>1, <3>1 DEF Genuine, Messages, Timely
      <4>2. Last.of = m.of
        BY <1>3, <4>1 DEF LastIsMeant, StartHandled, OneLive, Live
      <4>3. EndOf(m.of).result = outcome[m.of]
        BY DEF EndOf, Message
      <4>4. QED
        BY <4>1, <4>2, <4>3
    <3>2. CASE m.of = None
      <4>1. m = Message("end", None, "cancelled", m.boot) /\ sd = "reporting"
        BY <1>1, <3>2 DEF Genuine, Timely
      <4>2. Message("end", None, "cancelled", m.boot).result = "cancelled"
        BY DEF Message
      <4>3. QED
        BY <1>3, <3>2, <4>1, <4>2 DEF LastIsMeant
    <3>3. QED
      BY <3>1, <3>2
  <2>5. \A d \in Deployments : StartOf(d) # m
    BY DEF StartOf, Message
  <2>6. LastIsMeant'
    BY <1>3, <2>3, <2>5, Handled DEF LastIsMeant, StartHandled
  <2>7. m.kind = "end" /\ Registration.kind = "register"
    BY DEF Registration, Message
  <2>8. ASSUME NEW k \in DOMAIN deploys, k # Len(deploys)
        PROVE  RunningRight(k)' /\ ResultRight(k)'
    <3>1. RunningRight(k) /\ ResultRight(k) /\ deploys[k].of \in Deployments
      BY RecordTypes DEF Recorded
    <3>2. RunningRight(k)'
      BY <2>2, <2>8, <3>1 DEF RunningRight
    <3>3. deploys[k].of # Last.of
      BY <2>3, <2>8 DEF HistoryIsGenuine, Last
    <3>4. EndOf(deploys[k].of) # m
      <4>1. EndOf(deploys[k].of).of = deploys[k].of
        BY DEF EndOf, Message
      <4>2. QED
        BY <2>4, <3>1, <3>3, <4>1, HistoryAssumption
    <3>5. ResultRight(k)'
      BY <2>2, <2>8, <3>1, <3>4, Handled DEF ResultRight, EndHandled
    <3>6. QED
      BY <3>2, <3>5
  <2>9. RunningRight(Len(deploys))' /\ ResultRight(Len(deploys))'
    <3>1. PICK k \in DOMAIN deploys : k = Len(deploys)
      BY <2>3
    <3>2. deploys'[k].of = Last.of /\ deploys'[k].result = m.result
      BY <2>2, <3>1 DEF Last
    <3>3. m.result # "running"
      BY <2>3, <2>4 DEF Running
    <3>4. RunningRight(k)'
      BY <3>2, <3>3 DEF RunningRight
    <3>5. ResultRight(k)'
      <4>1. CASE m.of = None /\ m.result = "cancelled" /\ Last.of \in shut
        BY <3>2, <4>1, Handled DEF ResultRight
      <4>2. CASE m = EndOf(Last.of) /\ dpc[Last.of] = "ending" /\ m.result = outcome[Last.of]
        BY <2>3, <3>2, <3>3, <4>2, Handled DEF ResultRight, EndHandled
      <4>3. QED
        BY <2>4, <4>1, <4>2
    <3>6. QED
      BY <2>2, <3>1, <3>4, <3>5
  <2>10. Recorded'
    BY <2>2, <2>8, <2>9 DEF Recorded
  <2>11. QED
    BY <2>6, <2>10, Handled
<1>4. QED
  BY <1>2, <1>3

\* A registration comes in while nothing lives: what runs is taken for cut off.
LEMMA CalmRegister ==
  ASSUME Base, Settled, NEW m \in net, Deliver(m), m.kind = "register"
  PROVE  Settled'
<1> USE DEF Base, Settled
<1>1. deploys \in Seq(DeployRecord) /\ agent = "registering" /\ sd = "idle"
      /\ \A d \in Deployments : dpc[d] \notin Live /\ d # current
  BY HistoryAssumption DEF TypeOK, StoreTypeOK, Timely, Running
<1>2. deploys' = Converged
  BY DEF Deliver, Handle, Register
<1>3. LastIsMeant'
  BY <1>1, Handled DEF LastIsMeant, StartHandled, Live
<1>4. \A d \in Deployments : EndOf(d) # m
  BY DEF EndOf, Message
<1>5. ASSUME NEW k \in DOMAIN deploys, deploys'[k] = deploys[k], deploys[k].result # "running"
      PROVE  RunningRight(k)' /\ ResultRight(k)'
  <2>1. ResultRight(k) /\ deploys[k].of \in Deployments
    BY RecordTypes DEF Recorded
  <2>2. QED
    BY <1>4, <1>5, <2>1, Handled DEF RunningRight, ResultRight, EndHandled
<1>6. CASE LastResult # "running"
  <2>1. deploys' = deploys
    BY <1>2, <1>6 DEF Converged
  <2>2. \A k \in DOMAIN deploys : deploys[k].result # "running"
    <3>1. \A k \in DOMAIN deploys : deploys[k].result = "running" => k = Len(deploys)
      BY DEF Recorded, RunningRight
    <3>2. DOMAIN deploys # {} => deploys # <<>>
      OBVIOUS
    <3>3. QED
      BY <1>6, <3>1, <3>2 DEF LastResult
  <2>3. Recorded'
    BY <1>5, <2>1, <2>2 DEF Recorded
  <2>4. QED
    BY <1>3, <2>3, Handled
<1>7. CASE LastResult = "running"
  <2>1. deploys # <<>> /\ deploys' = SetLast("cancelled") /\ Last.result = "running"
    BY <1>2, <1>7 DEF Converged, LastResult, Last
  <2>2. /\ Len(deploys') = Len(deploys) /\ DOMAIN deploys' = DOMAIN deploys
        /\ \A k \in DOMAIN deploys :
             /\ deploys'[k].of = deploys[k].of
             /\ deploys'[k].result = IF k = Len(deploys) THEN "cancelled" ELSE deploys[k].result
    <3>1. "cancelled" \in Results
      BY DEF Results
    <3>2. QED
      BY <1>1, <2>1, <3>1, SetLastFacts
  <2>3. ASSUME NEW k \in DOMAIN deploys
        PROVE  RunningRight(k)' /\ ResultRight(k)'
    <3>1. RunningRight(k) /\ ResultRight(k) /\ deploys[k].of \in Deployments
      BY RecordTypes DEF Recorded
    <3>2. RunningRight(k)'
      BY <2>2, <3>1 DEF RunningRight
    <3>3. k = Len(deploys) => deploys[k].result = "running"
      BY <2>1 DEF Last
    <3>4. dpc[deploys[k].of] \notin Live
      BY <1>1, <3>1
    <3>5. ResultRight(k)'
      BY <1>4, <2>2, <3>1, <3>3, <3>4, Handled DEF ResultRight, EndHandled
    <3>6. QED
      BY <3>2, <3>5
  <2>4. Recorded'
    BY <2>2, <2>3 DEF Recorded
  <2>5. QED
    BY <1>3, <2>4, Handled
<1>8. QED
  BY <1>6, <1>7

\* A heartbeat comes in.
LEMMA CalmHeartbeat ==
  ASSUME Base, Settled, NEW m \in net, Deliver(m), m.kind = "heartbeat"
  PROVE  Settled'
<1> USE DEF Base, Settled
<1>1. deploys' = deploys
  BY DEF Deliver, Handle, Heartbeat
<1>2. Registration # m /\ \A d \in Deployments : EndOf(d) # m /\ StartOf(d) # m
  BY DEF EndOf, StartOf, Registration, Message
<1>3. LastIsMeant'
  BY <1>1, <1>2, Handled DEF LastIsMeant, StartHandled, Last
<1>4. ASSUME NEW k \in DOMAIN deploys
      PROVE  RunningRight(k)' /\ ResultRight(k)'
  <2>1. RunningRight(k) /\ ResultRight(k) /\ deploys[k].of \in Deployments
    BY RecordTypes DEF Recorded
  <2>2. RunningRight(k)'
    BY <1>1, <1>2, <2>1, Handled DEF RunningRight
  <2>3. ResultRight(k)'
    BY <1>1, <1>2, <2>1, Handled DEF ResultRight, EndHandled
  <2>4. QED
    BY <2>2, <2>3
<1>5. Recorded'
  BY <1>1, <1>4 DEF Recorded
<1>6. QED
  BY <1>3, <1>5, Handled

-----------------------------------------------------------------------------
\* While it is calm the history is settled.
CalmInv == Calm => Settled

\* Nothing has been reported at first.
LEMMA CalmInit == Init => CalmInv
<1> SUFFICES ASSUME Init PROVE Settled
  BY DEF CalmInv
<1>1. DOMAIN deploys = {} /\ deploys = <<>>
  BY DEF Init, StoreInit
<1>2. QED
  BY <1>1 DEF Init, Settled, OneLive, Timely, LastIsMeant, ShutdownFinds, Recorded, Live

\* Every step that leaves it calm leaves it settled.
LEMMA CalmStep == Base /\ CalmInv /\ [Next]_vars => CalmInv'
<1> SUFFICES ASSUME Base, CalmInv, [Next]_vars, Calm' PROVE Settled'
  BY DEF CalmInv
<1>1. Settled
  BY CalmBefore DEF CalmInv, Base
<1>2. CASE Boot \/ Serve \/ SendHeartbeat \/ CancelDeploy \/ ShutdownStep \/ GoDown
  BY <1>1, <1>2, CalmBoot, CalmServe, CalmManager, CalmShutdownBegin, CalmShutdownPost,
     CalmShutdownReported, CalmGoDown DEF ShutdownStep
<1>3. ASSUME NEW d \in Deployments, DeploymentStep(d)
      PROVE  Settled'
  BY <1>1, <1>3, CalmAdmit, CalmPostStart, CalmWork, CalmConclude, CalmPostEnd, CalmLeave,
     CalmManager DEF DeploymentStep
<1>4. ASSUME NEW m \in net, Deliver(m)
      PROVE  Settled'
  <2>1. m \in Messages
    BY DEF Base, TypeOK
  <2>2. QED
    BY <1>1, <1>4, <2>1, CalmStart, CalmEnd, CalmRegister, CalmHeartbeat DEF Messages
<1>5. CASE ServerStep \/ UNCHANGED vars \/ \E m \in net : Lose(m)
  BY <1>1, <1>5, CalmLose
<1>6. QED
  BY <1>2, <1>3, <1>4, <1>5 DEF Next

\* The history is settled while it is calm, for any number of deployments and boots.
LEMMA CalmHolds == Spec => []CalmInv
  BY CalmInit, CalmStep, BaseHolds, PTL DEF Spec

\* With no report lost, late or overlapping another, the history has no result that
\* was not one, and except for deployments that the shutdown handler has found running
\* the result of every one that reported its end and the end of none that did not
\* (store.go:105-172, deploy.go:154-222, handlers.go:204-220).
THEOREM CalmHistoryIsAccurate == Spec => []HistoryIsAccurate
<1>1. Base /\ CalmInv => HistoryIsAccurate
  <2> SUFFICES ASSUME Base, CalmInv, Calm, NEW k \in DOMAIN deploys
               PROVE  LET d == deploys[k].of
                          result == deploys[k].result
                      IN  /\ result \in {"completed", "failed"} => outcome[d] = result
                          /\ dpc[d] = "over" /\ d \notin shut => result = outcome[d]
                          /\ dpc[d] \in {"starting", "working", "finished"} /\ d \notin shut
                               => result = "running"
    BY DEF HistoryIsAccurate, Calm
  <2>1. ResultRight(k)
    BY DEF CalmInv, Settled, Recorded
  <2>2. QED
    BY <2>1 DEF ResultRight, EndHandled, Live
<1>2. QED
  BY <1>1, BaseHolds, CalmHolds, PTL

\* Then a deployment is shown as running only while it is, or until the node it
\* died with has registered again (store.go:105-115).
THEOREM CalmRunningIsLive == Spec => []RunningIsLive
<1>1. Base /\ CalmInv => RunningIsLive
  <2> SUFFICES ASSUME Base, CalmInv, Calm, NEW k \in DOMAIN deploys, deploys[k].result = "running"
               PROVE  \/ dpc[deploys[k].of] \in Live
                      \/ dpc[deploys[k].of] = "dead" /\ agent # "serving"
    BY DEF RunningIsLive, Calm
  <2>1. RunningRight(k) /\ Timely
    BY DEF CalmInv, Settled, Recorded
  <2>2. Registration.kind = "register"
    BY DEF Registration, Message
  <2>3. QED
    BY <2>1, <2>2 DEF RunningRight, Timely
<1>2. QED
  BY <1>1, BaseHolds, CalmHolds, PTL

\* And the portal shows a node as deploying while its last deployment works, and by
\* the outcome of that one when the node is out of sight, with the same exception
\* (store.go:206-231, handlers.go:204-220).
THEOREM CalmPortalIsRight == Spec => []PortalIsRight
<1>1. Base /\ CalmInv => PortalIsRight
  <2> SUFFICES ASSUME Base, CalmInv, Calm, deploys # <<>>
               PROVE  /\ seen /\ dpc[Last.of] = "working" /\ Last.of \notin shut => Lifecycle = "deploying"
                      /\ ~seen /\ dpc[Last.of] = "over" /\ Last.of \notin shut
                           => Lifecycle = IF outcome[Last.of] = "completed" THEN "completed" ELSE "failed"
                      /\ Lifecycle = "completed" => outcome[Last.of] = "completed"
    BY DEF PortalIsRight, Calm, Last
  <2>1. Len(deploys) \in DOMAIN deploys /\ Last.of \in Deployments
    BY LastIsRecord DEF Base
  <2>2. /\ LastResult = Last.result
        /\ ResultRight(Len(deploys))
    BY <2>1 DEF CalmInv, Settled, Recorded, LastResult, Last
  <2>3. /\ LastResult \in {"completed", "failed"} => outcome[Last.of] = LastResult
        /\ dpc[Last.of] = "over" /\ Last.of \notin shut => LastResult = outcome[Last.of]
        /\ dpc[Last.of] = "working" /\ Last.of \notin shut => LastResult = "running"
    BY <2>2 DEF ResultRight, EndHandled, Last, Live
  <2>4. dpc[Last.of] = "over" => outcome[Last.of] \in {"completed", "failed", "cancelled"}
    BY <2>1 DEF Base, TypeOK, Running, Results
  <2>5. QED
    BY <2>3, <2>4 DEF Lifecycle, Base, TypeOK, StoreTypeOK
<1>2. QED
  BY <1>1, BaseHolds, CalmHolds, PTL
=============================================================================
