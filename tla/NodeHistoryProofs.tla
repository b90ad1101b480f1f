------------------------- MODULE NodeHistoryProofs -------------------------
(***************************************************************************)
(* Proofs about NodeHistory, for any number of deployments and boots:      *)
(* what holds whatever becomes of the reports.  That a start is sent once, *)
(* and only by a deployment that has no record, makes the history genuine; *)
(* that an end is handled once bounds its successes.                       *)
(***************************************************************************)
EXTENDS NodeHistory, SequenceTheorems, FiniteSetTheorems, TLAPS

\* Where the agent is, and what the outcome of a deployment can be by then.
Running ==
  /\ \A d \in Deployments :
       /\ dpc[d] \in Live => agent = "serving"
       /\ dpc[d] \in {"idle", "admitted", "starting", "working"} => outcome[d] = None
       /\ dpc[d] \in {"finished", "ending", "over"} => outcome[d] # None
       /\ outcome[d] # "running"
  /\ current # None => agent = "serving" /\ dpc[current] \notin {"idle", "dead"}
  /\ sd # "idle" => agent = "serving"

\* What a report says, and when it has been sent.  A deployment has no start to
\* come when it has a record.
Genuine(m) ==
  CASE m.kind = "start" ->
         /\ m.of \in Deployments /\ m = StartOf(m.of)
         /\ dpc[m.of] \notin {"idle", "admitted"}
         /\ \A k \in DOMAIN deploys : deploys[k].of # m.of
    [] m.kind = "end" /\ m.of # None ->
         /\ m = EndOf(m.of) /\ m.result # None
         /\ dpc[m.of] \notin {"idle", "admitted", "starting", "working", "finished"}
    [] m.kind = "end" /\ m.of = None -> m = Message("end", None, "cancelled", m.boot)
    [] m.kind = "register" -> m = Message("register", None, None, m.boot)
    [] m.kind = "heartbeat" -> TRUE

Sent == \A m \in net : Genuine(m)

Base == TypeOK /\ Running /\ Sent /\ HistoryIsGenuine

-----------------------------------------------------------------------------
(* Lemmas about the operators of NodeHistory and NodeStore.                *)

\* The fields of a report.
LEMMA MessageFields ==
  ASSUME NEW kind \in {"register", "heartbeat", "start", "end"},
         NEW d \in Deployments \cup {None}, NEW r \in Results \cup {None}, NEW b \in 0..MaxBoots
  PROVE  LET m == Message(kind, d, r, b)
         IN  /\ m \in Messages
             /\ m.kind = kind /\ m.of = d /\ m.result = r /\ m.boot = b
  BY DEF Message, Messages

\* A report is its four fields.
LEMMA MessageIsFields ==
  ASSUME NEW m \in Messages
  PROVE  m = Message(m.kind, m.of, m.result, m.boot)
  BY DEF Message, Messages

\* Setting the last result leaves the rest of the history alone.
LEMMA SetLastFacts ==
  ASSUME deploys \in Seq(DeployRecord), deploys # <<>>, NEW r \in Results
  PROVE  /\ SetLast(r) \in Seq(DeployRecord) /\ SetLast(r) # <<>>
         /\ Len(SetLast(r)) = Len(deploys) /\ DOMAIN SetLast(r) = DOMAIN deploys
         /\ \A k \in DOMAIN deploys :
              /\ SetLast(r)[k].of = deploys[k].of
              /\ SetLast(r)[k].result = IF k = Len(deploys) THEN r ELSE deploys[k].result
<1>1. Len(deploys) \in Nat /\ Len(deploys) # 0 /\ DOMAIN deploys = 1..Len(deploys)
  BY LenProperties, EmptySeq
<1>2. \A k \in 1..Len(deploys) : deploys[k] \in DeployRecord
  BY <1>1, ElementOfSeq
<1>3. Len(deploys) \in DOMAIN deploys
  BY <1>1
<1> DEFINE e == [deploys[Len(deploys)] EXCEPT !.result = r]
<1>4. e \in DeployRecord /\ e.of = deploys[Len(deploys)].of /\ e.result = r
  BY <1>1, <1>2, <1>3 DEF DeployRecord
<1>5. SetLast(r) = [deploys EXCEPT ![Len(deploys)] = e]
  BY DEF SetLast
<1> HIDE DEF e
<1>6. SetLast(r) \in Seq(DeployRecord) /\ Len(SetLast(r)) = Len(deploys)
  BY <1>1, <1>3, <1>4, <1>5, ExceptSeq
<1>7. DOMAIN SetLast(r) = DOMAIN deploys
  BY <1>5
<1>8. \A k \in DOMAIN deploys : SetLast(r)[k] = IF k = Len(deploys) THEN e ELSE deploys[k]
  BY <1>1, <1>5
<1>9. SetLast(r) # <<>>
  BY <1>1, <1>6, EmptySeq
<1>10. QED
  BY <1>4, <1>6, <1>7, <1>8, <1>9

\* A new record comes last.
LEMMA AppendFacts ==
  ASSUME deploys \in Seq(DeployRecord), NEW d \in Deployments
  PROVE  LET longer == Append(deploys, [of |-> d, result |-> "running"])
         IN  /\ longer \in Seq(DeployRecord) /\ longer # <<>>
             /\ Len(longer) = Len(deploys) + 1
             /\ DOMAIN longer = DOMAIN deploys \cup {Len(longer)}
             /\ Len(longer) \notin DOMAIN deploys
             /\ \A k \in DOMAIN deploys : longer[k] = deploys[k]
             /\ longer[Len(longer)].of = d /\ longer[Len(longer)].result = "running"
<1> DEFINE e == [of |-> d, result |-> "running"]
<1>1. e \in DeployRecord /\ e.of = d /\ e.result = "running"
  BY DEF DeployRecord, Results
<1>2. Len(deploys) \in Nat /\ DOMAIN deploys = 1..Len(deploys)
  BY LenProperties
<1> HIDE DEF e
<1>3. /\ Append(deploys, e) \in Seq(DeployRecord)
      /\ Len(Append(deploys, e)) = Len(deploys) + 1
      /\ \A k \in 1..Len(deploys) : Append(deploys, e)[k] = deploys[k]
      /\ Append(deploys, e)[Len(deploys) + 1] = e
      /\ DOMAIN Append(deploys, e) = 1..(Len(deploys) + 1)
  BY <1>1, <1>2, AppendProperties, LenProperties
<1>4. 1..(Len(deploys) + 1) = 1..Len(deploys) \cup {Len(deploys) + 1} /\ Len(deploys) + 1 \notin 1..Len(deploys)
  BY <1>2
<1>5. Append(deploys, e) # <<>>
  BY <1>2, <1>3, EmptySeq
<1>6. QED
  BY <1>1, <1>2, <1>3, <1>4, <1>5 DEF e

\* What a report does to the history, if anything.
LEMMA Delivered ==
  ASSUME TypeOK, Sent, NEW m \in net, Deliver(m)
  PROVE  /\ net' = net \ {m} /\ UNCHANGED <<agentVars, history>>
         /\ \/ deploys' = deploys
            \/ /\ m.kind = "start" /\ known
               /\ deploys' = Append(deploys, [of |-> m.of, result |-> "running"])
            \/ m.kind = "end" /\ known /\ deploys # <<>> /\ deploys' = SetLast(m.result)
            \/ m.kind = "register" /\ deploys # <<>> /\ LastResult = "running"
                 /\ deploys' = SetLast("cancelled")
<1>1. m \in Messages
  BY DEF TypeOK
<1>2. CASE m.kind = "register"
  BY <1>2 DEF Deliver, Handle, Register, Converged, LastResult
<1>3. CASE m.kind = "heartbeat"
  BY <1>3 DEF Deliver, Handle, Heartbeat
<1>4. CASE m.kind = "start"
  BY <1>4 DEF Deliver, Handle, DeployStart
<1>5. CASE m.kind = "end"
  BY <1>5 DEF Deliver, Handle, DeployEnd
<1>6. QED
  BY <1>1, <1>2, <1>3, <1>4, <1>5 DEF Messages

\* An end has a result.
LEMMA EndsHaveResults ==
  ASSUME TypeOK, Sent, NEW m \in net, m.kind = "end"
  PROVE  m.result \in Results
<1>1. m \in Messages /\ Genuine(m)
  BY DEF TypeOK, Sent
<1>2. m.of = None => m.result = "cancelled"
  BY <1>1 DEF Genuine, Message
<1>3. m.of # None => m.result # None
  BY <1>1 DEF Genuine
<1>4. QED
  BY <1>1, <1>2, <1>3 DEF Messages, Results

\* Unless it is a start that is handled, no record comes or goes but all at once.
LEMMA RecordsStay ==
  ASSUME TypeOK, Sent, NEW m \in net, Deliver(m), m.kind # "start"
  PROVE  /\ DOMAIN deploys' = DOMAIN deploys /\ Len(deploys') = Len(deploys)
         /\ \A k \in DOMAIN deploys : deploys'[k].of = deploys[k].of
         /\ deploys' \in Seq(DeployRecord)
         /\ deploys' = <<>> <=> deploys = <<>>
<1>1. deploys \in Seq(DeployRecord)
  BY DEF TypeOK, StoreTypeOK
<1>2. CASE deploys' = deploys
  BY <1>1, <1>2
<1>3. CASE m.kind = "end" /\ deploys # <<>> /\ deploys' = SetLast(m.result)
  BY <1>1, <1>3, SetLastFacts, EndsHaveResults
<1>4. CASE m.kind = "register" /\ deploys # <<>> /\ deploys' = SetLast("cancelled")
  <2>1. "cancelled" \in Results
    BY DEF Results
  <2>2. QED
    BY <1>1, <1>4, <2>1, SetLastFacts
<1>5. QED
  BY <1>2, <1>3, <1>4, Delivered

-----------------------------------------------------------------------------
(* Types and what has been sent.                                           *)

\* The initial state satisfies Base.
LEMMA BaseInit == Init => Base
<1> SUFFICES ASSUME Init PROVE Base
  OBVIOUS
<1>1. <<>> \in Seq(DeployRecord) /\ DOMAIN <<>> = {}
  BY EmptySeq
<1>2. TypeOK
  <2>1. 0 \in 0..MaxBoots
    BY HistoryAssumption
  <2>2. StoreTypeOK
    BY <1>1 DEF Init, StoreTypeOK, StoreInit
  <2>3. dpc \in [Deployments -> Places] /\ outcome \in [Deployments -> Results \cup {None}]
    BY DEF Init, Places
  <2>4. QED
    BY <2>1, <2>2, <2>3 DEF Init, TypeOK
<1>3. Running
  BY HistoryAssumption DEF Init, Running, Live, Results
<1>4. Sent /\ HistoryIsGenuine
  BY <1>1 DEF Init, StoreInit, Sent, HistoryIsGenuine
<1>5. QED
  BY <1>2, <1>3, <1>4 DEF Base

\* Every report that is sent is a message.
LEMMA SentAreMessages ==
  ASSUME TypeOK
  PROVE  /\ Registration \in Messages /\ Beat \in Messages /\ ShutdownEnd \in Messages
         /\ \A d \in Deployments : StartOf(d) \in Messages /\ EndOf(d) \in Messages
         /\ boots < MaxBoots => Message("register", None, None, boots + 1) \in Messages
<1>1. 0 \in 0..MaxBoots /\ boots \in 0..MaxBoots /\ (boots < MaxBoots => boots + 1 \in 0..MaxBoots)
  BY HistoryAssumption DEF TypeOK
<1>2. "cancelled" \in Results
  BY DEF Results
<1>3. \A d \in Deployments : outcome[d] \in Results \cup {None}
  BY DEF TypeOK
<1>4. QED
  BY <1>1, <1>2, <1>3, MessageFields DEF Registration, Beat, ShutdownEnd, StartOf, EndOf

\* The agent keeps the types.
LEMMA TypeAgent ==
  ASSUME TypeOK,
         \/ Boot \/ Serve \/ SendHeartbeat \/ CancelDeploy \/ ShutdownStep \/ GoDown
         \/ \E d \in Deployments : DeploymentStep(d)
  PROVE  TypeOK'
<1> USE DEF TypeOK
<1>1. storeVars' = storeVars => StoreTypeOK'
  BY DEF StoreTypeOK, storeVars
<1>2. CASE Boot
  <2>1. boots + 1 \in 0..MaxBoots
    BY <1>2, HistoryAssumption DEF Boot
  <2>2. net' \subseteq Messages
    BY <1>2, SentAreMessages DEF Boot
  <2>3. QED
    BY <1>1, <1>2, <2>1, <2>2 DEF Boot, managerVars, history
<1>3. CASE Serve \/ SendHeartbeat \/ CancelDeploy
  BY <1>1, <1>3, SentAreMessages
     DEF Serve, SendHeartbeat, CancelDeploy, EndCurrent, GoOn, Post, agentVars, managerVars, history
<1>4. CASE ShutdownStep
  BY <1>1, <1>4, SentAreMessages
     DEF ShutdownStep, ShutdownBegin, ShutdownCancel, ShutdownPost, ShutdownReported,
         IsRunning, EndCurrent, GoOn, Post, managerVars, history
<1>5. CASE GoDown
  <2>1. dpc' \in [Deployments -> Places]
    BY <1>5 DEF GoDown, Places
  <2>2. QED
    BY <1>1, <1>5, <2>1 DEF GoDown
<1>6. ASSUME NEW d \in Deployments, DeploymentStep(d)
      PROVE  TypeOK'
  <2>1. CASE \/ Admit(d) \/ PostStart(d) \/ Work(d) \/ PostEnd(d) \/ Leave(d)
             \/ SyncApplies(d) \/ SyncEnds(d)
    BY <1>1, <2>1, SentAreMessages
       DEF Admit, PostStart, Work, PostEnd, Leave, SyncApplies, SyncEnds, ShowRunning, GoOn, Post,
           managerVars, history, Places, Live
  <2>2. CASE Conclude(d)
    <3>1. outcome' \in [Deployments -> Results \cup {None}]
      BY <2>2 DEF Conclude, Results
    <3>2. QED
      BY <1>1, <2>2, <3>1 DEF Conclude, EndCurrent, history, Places, Live
  <2>3. QED
    BY <1>6, <2>1, <2>2 DEF DeploymentStep
<1>7. QED
  BY <1>2, <1>3, <1>4, <1>5, <1>6

\* So do the network and the server.
LEMMA TypeServer ==
  ASSUME TypeOK, Sent, ServerStep \/ \E m \in net : Deliver(m) \/ Lose(m)
  PROVE  TypeOK'
<1>1. CASE ServerStep
  <2>1. <<>> \in Seq(DeployRecord)
    BY EmptySeq
  <2>2. QED
    BY <1>1, <2>1 DEF ServerStep, DeleteNode, OnlineTimeout, TypeOK, StoreTypeOK, agentVars, managerVars, history
<1>2. ASSUME NEW m \in net, Lose(m)
      PROVE  TypeOK'
  BY <1>2 DEF Lose, TypeOK, StoreTypeOK, storeVars, agentVars, managerVars
<1>3. ASSUME NEW m \in net, Deliver(m)
      PROVE  TypeOK'
  <2>1. net' = net \ {m} /\ UNCHANGED <<agentVars, history>>
    BY <1>3 DEF Deliver
  <2>2. m \in Messages
    BY DEF TypeOK
  <2>3. deploys' \in Seq(DeployRecord)
    <3>1. CASE m.kind # "start"
      BY <1>3, <3>1, RecordsStay
    <3>2. CASE m.kind = "start"
      <4>1. m.of \in Deployments
        BY <3>2 DEF Sent, Genuine
      <4>2. deploys \in Seq(DeployRecord)
        BY DEF TypeOK, StoreTypeOK
      <4>3. Append(deploys, [of |-> m.of, result |-> "running"]) \in Seq(DeployRecord)
        BY <4>1, <4>2, AppendFacts
      <4>4. deploys' = deploys \/ deploys' = Append(deploys, [of |-> m.of, result |-> "running"])
        BY <1>3, <3>2, Delivered
      <4>5. QED
        BY <4>2, <4>3, <4>4
    <3>3. QED
      BY <3>1, <3>2
  <2>4. known' \in BOOLEAN /\ seen' \in BOOLEAN /\ (~known' => deploys' = <<>> /\ ~seen')
    <3>1. known \in BOOLEAN /\ (~known => deploys = <<>> /\ ~seen)
      BY DEF TypeOK, StoreTypeOK
    <3>2. CASE m.kind = "register"
      BY <1>3, <3>2 DEF Deliver, Handle, Register
    <3>3. CASE m.kind = "heartbeat"
      BY <1>3, <3>1, <3>3 DEF Deliver, Handle, Heartbeat
    <3>4. CASE m.kind = "start"
      BY <1>3, <3>1, <3>4 DEF Deliver, Handle, DeployStart
    <3>5. CASE m.kind = "end"
      BY <1>3, <3>1, <3>5 DEF Deliver, Handle, DeployEnd
    <3>6. QED
      BY <2>2, <3>2, <3>3, <3>4, <3>5 DEF Messages
  <2>5. QED
    BY <2>1, <2>3, <2>4 DEF TypeOK, StoreTypeOK, agentVars, managerVars, history
<1>4. QED
  BY <1>1, <1>2, <1>3

\* Where the agent is is kept.
LEMMA RunningStep ==
  ASSUME TypeOK, Running, [Next]_vars
  PROVE  Running'
<1> USE DEF Live
<1>1. CASE Boot \/ Serve \/ SendHeartbeat \/ CancelDeploy
  BY <1>1 DEF Boot, Serve, SendHeartbeat, CancelDeploy, Running, agentVars, managerVars
<1>2. CASE ShutdownStep
  BY <1>2 DEF ShutdownStep, ShutdownBegin, ShutdownCancel, ShutdownPost, ShutdownReported,
              Running, managerVars
<1>3. CASE GoDown
  BY <1>3 DEF GoDown, Running, TypeOK
<1>4. ASSUME NEW d \in Deployments, DeploymentStep(d)
      PROVE  Running'
  <2>1. CASE Admit(d)
    BY <2>1, HistoryAssumption DEF Admit, Running, TypeOK
  <2>2. CASE \/ PostStart(d) \/ Work(d) \/ PostEnd(d) \/ Leave(d)
             \/ SyncApplies(d) \/ SyncEnds(d)
    BY <2>2 DEF PostStart, Work, PostEnd, Leave, SyncApplies, SyncEnds, managerVars, Running, TypeOK
  <2>3. CASE Conclude(d)
    <3>1. PICK r \in {"completed", IF d \in cancelled THEN "cancelled" ELSE "failed"} :
            outcome' = [outcome EXCEPT ![d] = r]
      BY <2>3 DEF Conclude
    <3>2. r # None
      BY <3>1, HistoryAssumption DEF Results
    <3>3. r # "running"
      BY <3>1
    <3>4. /\ dpc[d] = "working" /\ dpc' = [dpc EXCEPT ![d] = "finished"]
          /\ UNCHANGED <<agent, current, sd>>
      BY <2>3 DEF Conclude
    <3>5. QED
      BY <3>1, <3>2, <3>3, <3>4 DEF Running, TypeOK
  <2>4. QED
    BY <1>4, <2>1, <2>2, <2>3 DEF DeploymentStep
<1>5. ASSUME ServerStep \/ UNCHANGED vars \/ \E m \in net : Deliver(m) \/ Lose(m)
      PROVE  Running'
  BY <1>5 DEF ServerStep, Deliver, Lose, vars, agentVars, managerVars, Running
<1>6. QED
  BY <1>1, <1>2, <1>3, <1>4, <1>5 DEF Next

\* Where a deployment may have been reported, and where it has an outcome.
Reported(d) == dpc[d] \notin {"idle", "admitted"}
Concluded(d) == dpc[d] \notin {"idle", "admitted", "starting", "working", "finished"}

\* No deployment goes back before its report or its end, and then its outcome stays.
LEMMA Onward ==
  ASSUME TypeOK, [Next]_vars, NEW d \in Deployments
  PROVE  /\ Reported(d) => Reported(d)'
         /\ Concluded(d) => Concluded(d)' /\ outcome'[d] = outcome[d]
<1> USE DEF Reported, Concluded, Live
<1>1. CASE Boot \/ Serve \/ SendHeartbeat \/ CancelDeploy \/ ShutdownStep
  BY <1>1 DEF Boot, Serve, SendHeartbeat, CancelDeploy, agentVars,
              ShutdownStep, ShutdownBegin, ShutdownCancel, ShutdownPost, ShutdownReported
<1>2. CASE GoDown
  BY <1>2 DEF GoDown, TypeOK
<1>3. ASSUME NEW e \in Deployments, DeploymentStep(e)
      PROVE  /\ Reported(d) => Reported(d)'
             /\ Concluded(d) => Concluded(d)' /\ outcome'[d] = outcome[d]
  <2>1. CASE \/ Admit(e) \/ PostStart(e) \/ Work(e) \/ PostEnd(e) \/ Leave(e)
             \/ SyncApplies(e) \/ SyncEnds(e)
    BY <2>1 DEF Admit, PostStart, Work, PostEnd, Leave, SyncApplies, SyncEnds, TypeOK
  <2>2. CASE Conclude(e)
    BY <2>2 DEF Conclude, TypeOK
  <2>3. QED
    BY <1>3, <2>1, <2>2 DEF DeploymentStep
<1>4. CASE ServerStep \/ UNCHANGED vars \/ \E m \in net : Deliver(m) \/ Lose(m)
  BY <1>4 DEF ServerStep, Deliver, Lose, vars, agentVars
<1>5. QED
  BY <1>1, <1>2, <1>3, <1>4 DEF Next

\* A report that has been sent stays genuine as long as no record is made of what
\* it reports.
LEMMA StaysGenuine ==
  ASSUME TypeOK, [Next]_vars, NEW m \in net, Genuine(m),
         m.kind = "start" => \A k \in DOMAIN deploys' : deploys'[k].of # m.of
  PROVE  Genuine(m)'
<1>1. m \in Messages
  BY DEF TypeOK
<1>2. CASE m.kind = "start"
  BY <1>2, Onward DEF Genuine, Reported, StartOf
<1>3. CASE m.kind = "end" /\ m.of # None
  <2>1. m.of \in Deployments
    BY <1>1, <1>3 DEF Messages
  <2>2. m.result # None /\ Concluded(m.of) /\ m = Message("end", m.of, outcome[m.of], 0)
    BY <1>3 DEF Genuine, Concluded, EndOf
  <2>3. Concluded(m.of)' /\ outcome'[m.of] = outcome[m.of]
    BY <2>1, <2>2, Onward
  <2>4. QED
    BY <1>3, <2>2, <2>3 DEF Genuine, Concluded, EndOf
<1>4. CASE m.kind = "end" /\ m.of = None
  BY <1>4 DEF Genuine
<1>5. CASE m.kind = "register" \/ m.kind = "heartbeat"
  BY <1>5 DEF Genuine
<1>6. QED
  BY <1>1, <1>2, <1>3, <1>4, <1>5 DEF Messages

\* Sent is kept when the history is left alone.
LEMMA SentQuietly ==
  ASSUME Base, [Next]_vars, UNCHANGED deploys, \A m \in net' \ net : Genuine(m)'
  PROVE  Sent'
<1> SUFFICES ASSUME NEW m \in net, m \in net' PROVE Genuine(m)'
  BY DEF Sent
<1>1. Genuine(m)
  BY DEF Base, Sent
<1>2. m.kind = "start" => \A k \in DOMAIN deploys' : deploys'[k].of # m.of
  BY <1>1 DEF Genuine
<1>3. QED
  BY <1>1, <1>2, StaysGenuine DEF Base

\* The agent sends reports of what it does.
LEMMA SentAgent ==
  ASSUME Base, [Next]_vars,
         \/ Boot \/ Serve \/ SendHeartbeat \/ CancelDeploy \/ ShutdownStep \/ GoDown
         \/ \E d \in Deployments : DeploymentStep(d)
  PROVE  Sent'
<1>1. UNCHANGED deploys
  BY DEF Boot, Serve, SendHeartbeat, CancelDeploy, GoDown,
                ShutdownStep, ShutdownBegin, ShutdownCancel, ShutdownPost, ShutdownReported,
         DeploymentStep, Admit, PostStart, Work, Conclude, PostEnd, Leave,
                SyncApplies, SyncEnds, storeVars
<1> SUFFICES ASSUME NEW m \in net', m \notin net PROVE Genuine(m)'
  BY <1>1, SentQuietly
<1>2. CASE \/ Serve \/ CancelDeploy \/ GoDown
           \/ ShutdownBegin \/ ShutdownCancel \/ ShutdownReported
  BY <1>2 DEF Serve, CancelDeploy, GoDown, ShutdownBegin, ShutdownCancel, ShutdownReported
<1>3. CASE Boot
  <2>1. m = Message("register", None, None, boots + 1)
    BY <1>3 DEF Boot
  <2>2. m.kind = "register" /\ m.boot = boots + 1
    BY <2>1 DEF Message
  <2>3. QED
    BY <2>1, <2>2 DEF Genuine
<1>4. CASE SendHeartbeat
  <2>1. m.kind = "heartbeat"
    BY <1>4 DEF SendHeartbeat, Post, Beat, Message
  <2>2. QED
    BY <2>1 DEF Genuine
<1>5. CASE ShutdownPost
  <2>1. m = Message("end", None, "cancelled", boots)
    BY <1>5 DEF ShutdownPost, Post, ShutdownEnd
  <2>2. m.kind = "end" /\ m.of = None /\ m.boot = boots
    BY <2>1 DEF Message
  <2>3. QED
    BY <2>1, <2>2 DEF Genuine
<1>6. ASSUME NEW d \in Deployments, DeploymentStep(d)
      PROVE  Genuine(m)'
  <2>1. d # None
    BY HistoryAssumption
  <2>2. CASE Admit(d) \/ Work(d) \/ Conclude(d) \/ Leave(d) \/ SyncApplies(d) \/ SyncEnds(d)
    BY <2>2 DEF Admit, Work, Conclude, Leave, SyncApplies, SyncEnds
  <2>3. CASE PostStart(d)
    <3>1. m = Message("start", d, None, 0) /\ dpc'[d] = "starting" /\ dpc[d] = "admitted"
      BY <2>3 DEF PostStart, Post, StartOf, Base, TypeOK
    <3>2. m.kind = "start" /\ m.of = d
      BY <3>1 DEF Message
    <3>3. \A k \in DOMAIN deploys : deploys[k].of # d
      BY <3>1 DEF Base, HistoryIsGenuine
    <3>4. QED
      BY <1>1, <3>1, <3>2, <3>3 DEF Genuine, StartOf
  <2>4. CASE PostEnd(d)
    <3>1. /\ m = Message("end", d, outcome[d], 0) /\ UNCHANGED outcome
          /\ dpc'[d] = "ending" /\ dpc[d] = "finished"
      BY <2>4 DEF PostEnd, Post, EndOf, Base, TypeOK
    <3>2. m.kind = "end" /\ m.of = d /\ m.result = outcome[d]
      BY <3>1 DEF Message
    <3>3. outcome[d] # None
      BY <3>1 DEF Base, Running
    <3>4. QED
      BY <2>1, <3>1, <3>2, <3>3 DEF Genuine, EndOf
  <2>5. QED
    BY <1>6, <2>2, <2>3, <2>4 DEF DeploymentStep
<1>7. QED
  BY <1>2, <1>3, <1>4, <1>5, <1>6 DEF ShutdownStep

\* The history stays genuine, and with it the reports that are still to come.
LEMMA GenuineServer ==
  ASSUME Base, [Next]_vars, ServerStep \/ UNCHANGED vars \/ \E m \in net : Deliver(m) \/ Lose(m)
  PROVE  Sent' /\ HistoryIsGenuine'
<1> USE DEF Base
<1>1. CASE UNCHANGED vars \/ (ServerStep /\ OnlineTimeout) \/ \E m \in net : Lose(m)
  <2>1. net' \subseteq net /\ UNCHANGED <<deploys, dpc>>
    BY <1>1 DEF vars, ServerStep, OnlineTimeout, Lose, storeVars, agentVars
  <2>2. Sent'
    BY <2>1, SentQuietly
  <2>3. QED
    BY <2>1, <2>2 DEF HistoryIsGenuine
<1>2. CASE ServerStep /\ DeleteNode
  <2>1. net' = net /\ deploys' = <<>> /\ DOMAIN deploys' = {}
    BY <1>2 DEF ServerStep, DeleteNode
  <2>2. Sent'
    BY <2>1, StaysGenuine DEF Sent
  <2>3. QED
    BY <2>1, <2>2 DEF HistoryIsGenuine
<1>3. ASSUME NEW m \in net, Deliver(m)
      PROVE  Sent' /\ HistoryIsGenuine'
  <2>1. net' = net \ {m} /\ UNCHANGED dpc
    BY <1>3 DEF Deliver, agentVars
  <2>2. deploys \in Seq(DeployRecord)
    BY DEF TypeOK, StoreTypeOK
  <2>3. CASE m.kind = "start" /\ deploys' = Append(deploys, [of |-> m.of, result |-> "running"])
    <3>1. m.of \in Deployments /\ m = StartOf(m.of) /\ Reported(m.of) /\ \A k \in DOMAIN deploys : deploys[k].of # m.of
      BY <2>3 DEF Sent, Genuine, Reported
    <3>2. /\ DOMAIN deploys' = DOMAIN deploys \cup {Len(deploys')} /\ Len(deploys') \notin DOMAIN deploys
          /\ \A k \in DOMAIN deploys : deploys'[k] = deploys[k]
          /\ deploys'[Len(deploys')].of = m.of
      BY <2>2, <2>3, <3>1, AppendFacts
    <3>3. HistoryIsGenuine'
      BY <2>1, <3>1, <3>2 DEF HistoryIsGenuine, Reported
    <3>4. ASSUME NEW o \in net'
          PROVE  Genuine(o)'
      <4>1. o \in net /\ o # m /\ Genuine(o)
        BY <2>1 DEF Sent
      <4>2. o.kind = "start" => o.of # m.of
        BY <3>1, <4>1 DEF Genuine
      <4>3. o.kind = "start" => \A k \in DOMAIN deploys' : deploys'[k].of # o.of
        BY <3>2, <4>1, <4>2 DEF Genuine
      <4>4. QED
        BY <4>1, <4>3, StaysGenuine
    <3>5. QED
      BY <3>3, <3>4 DEF Sent
  <2>4. CASE DOMAIN deploys' = DOMAIN deploys /\ \A k \in DOMAIN deploys : deploys'[k].of = deploys[k].of
    <3>1. HistoryIsGenuine'
      BY <2>1, <2>4 DEF HistoryIsGenuine
    <3>2. ASSUME NEW o \in net'
          PROVE  Genuine(o)'
      <4>1. o \in net /\ Genuine(o)
        BY <2>1 DEF Sent
      <4>2. o.kind = "start" => \A k \in DOMAIN deploys' : deploys'[k].of # o.of
        BY <2>4, <4>1 DEF Genuine
      <4>3. QED
        BY <4>1, <4>2, StaysGenuine
    <3>3. QED
      BY <3>1, <3>2 DEF Sent
  <2>5. QED
    <3>1. CASE m.kind = "start"
      BY <1>3, <2>3, <2>4, <3>1, Delivered
    <3>2. CASE m.kind # "start"
      BY <1>3, <2>4, <3>2, RecordsStay
    <3>3. QED
      BY <3>1, <3>2
<1>4. QED
  BY <1>1, <1>2, <1>3 DEF ServerStep

\* Base is inductive.
LEMMA BaseStep == Base /\ [Next]_vars => Base'
<1> SUFFICES ASSUME Base, [Next]_vars PROVE Base'
  OBVIOUS
<1> USE DEF Base
<1>1. Running'
  BY RunningStep
<1>2. CASE \/ Boot \/ Serve \/ SendHeartbeat \/ CancelDeploy \/ ShutdownStep \/ GoDown
           \/ \E d \in Deployments : DeploymentStep(d)
  <2>1. deploys' = deploys
    BY <1>2 DEF Boot, Serve, SendHeartbeat, CancelDeploy, GoDown,
                ShutdownStep, ShutdownBegin, ShutdownCancel, ShutdownPost, ShutdownReported,
                DeploymentStep, Admit, PostStart, Work, Conclude, PostEnd, Leave,
                SyncApplies, SyncEnds, storeVars
  <2>2. \A k \in DOMAIN deploys : deploys[k].of \in Deployments
    <3>1. deploys \in Seq(DeployRecord)
      BY DEF TypeOK, StoreTypeOK
    <3>2. \A k \in DOMAIN deploys : deploys[k] \in DeployRecord
      BY <3>1, ElementOfSeq, LenProperties
    <3>3. QED
      BY <3>2 DEF DeployRecord
  <2>3. HistoryIsGenuine'
    BY <2>1, <2>2, Onward DEF HistoryIsGenuine, Reported
  <2>4. QED
    BY <1>1, <1>2, <2>3, TypeAgent, SentAgent
<1>3. CASE ServerStep \/ \E m \in net : Deliver(m) \/ Lose(m)
  BY <1>1, <1>3, TypeServer, GenuineServer
<1>4. CASE UNCHANGED vars
  <2>1. TypeOK'
    BY <1>4 DEF vars, TypeOK, StoreTypeOK, storeVars, agentVars, managerVars, history
  <2>2. QED
    BY <1>1, <1>4, <2>1, GenuineServer
<1>5. QED
  BY <1>2, <1>3, <1>4 DEF Next

\* Base holds, for any number of deployments and boots.
LEMMA BaseHolds == Spec => []Base
  BY BaseInit, BaseStep, PTL DEF Spec

\* Every variable keeps its type, for any number of deployments and boots.
THEOREM TypeCorrect == Spec => []TypeOK
  BY BaseHolds, PTL DEF Base

\* Whatever is lost, late or overtaken, the history on the server lists
\* deployments that took place, each once (store.go:139-172, report.go:81-94).
THEOREM HistoryStaysGenuine == Spec => []HistoryIsGenuine
  BY BaseHolds, PTL DEF Base

-----------------------------------------------------------------------------
(***************************************************************************)
(* Successes are not inflated.  Which end made a record a success is not   *)
(* to be seen in it: an end may hit the record of another deployment.  So  *)
(* the records are not traced, but counted, against the successful         *)
(* deployments whose end is not to come any more.                          *)
(***************************************************************************)
Successes == {d \in Deployments : outcome[d] = "completed"}

Told == {d \in Successes : dpc[d] # "finished" /\ EndOf(d) \notin net}

Entered == {k \in DOMAIN deploys : deploys[k].result = "completed"}

Counted == IsFiniteSet(Successes) /\ Cardinality(Entered) <= Cardinality(Told)

\* These sets can be counted.
LEMMA CountedSets ==
  ASSUME TypeOK, IsFiniteSet(Successes)
  PROVE  /\ IsFiniteSet(Told) /\ Cardinality(Told) \in Nat
         /\ IsFiniteSet(Entered) /\ Cardinality(Entered) \in Nat
<1>1. Told \subseteq Successes
  BY DEF Told
<1>2. deploys \in Seq(DeployRecord)
  BY DEF TypeOK, StoreTypeOK
<1>3. Len(deploys) \in Nat /\ DOMAIN deploys = 1..Len(deploys)
  BY <1>2, LenProperties
<1>4. Entered \subseteq 1..Len(deploys)
  BY <1>3 DEF Entered
<1>5. IsFiniteSet(1..Len(deploys))
  BY <1>3, FS_Interval
<1>6. IsFiniteSet(Told) /\ IsFiniteSet(Entered)
  BY <1>1, <1>4, <1>5, FS_Subset
<1>7. QED
  BY <1>6, FS_CardinalityType

\* A larger set has as many elements and a smaller one no more.
LEMMA StillNoMore ==
  ASSUME NEW S, NEW T, IsFiniteSet(S), Cardinality(S) <= Cardinality(T),
         NEW S2 \in SUBSET S, NEW T2, T \subseteq T2, IsFiniteSet(T2)
  PROVE  Cardinality(S2) <= Cardinality(T2)
<1>1. /\ Cardinality(S2) <= Cardinality(S) /\ Cardinality(T) <= Cardinality(T2)
      /\ IsFiniteSet(S2) /\ IsFiniteSet(T)
  BY FS_Subset
<1>2. /\ Cardinality(S) \in Nat /\ Cardinality(S2) \in Nat
      /\ Cardinality(T) \in Nat /\ Cardinality(T2) \in Nat
  BY <1>1, FS_CardinalityType
<1>3. QED
  BY <1>1, <1>2

\* One more on either side.
LEMMA OneMoreEach ==
  ASSUME NEW S, NEW T, IsFiniteSet(S), IsFiniteSet(T), Cardinality(S) <= Cardinality(T),
         NEW x, NEW y, y \notin T,
         NEW S2 \in SUBSET (S \cup {x}), NEW T2, T \cup {y} \subseteq T2, IsFiniteSet(T2)
  PROVE  Cardinality(S2) <= Cardinality(T2)
<1>1. /\ Cardinality(S \cup {x}) \in {Cardinality(S), Cardinality(S) + 1}
      /\ Cardinality(T \cup {y}) = Cardinality(T) + 1
      /\ IsFiniteSet(S \cup {x}) /\ IsFiniteSet(T \cup {y})
  BY FS_AddElement
<1>2. Cardinality(S) \in Nat /\ Cardinality(T) \in Nat
  BY FS_CardinalityType
<1>3. Cardinality(S \cup {x}) <= Cardinality(T \cup {y})
  BY <1>1, <1>2
<1>4. QED
  BY <1>1, <1>3, StillNoMore

\* A deployment that succeeded has concluded.
LEMMA SuccessIsOver ==
  ASSUME TypeOK, Running, NEW d \in Successes
  PROVE  d \in Deployments /\ dpc[d] \in {"finished", "ending", "over", "dead"}
  BY HistoryAssumption DEF Successes, Running, TypeOK, Places, Live, Results

\* Nobody is told less by what the agent does.
LEMMA ToldStays ==
  ASSUME Base, [Next]_vars,
         \/ Boot \/ Serve \/ SendHeartbeat \/ CancelDeploy \/ ShutdownStep \/ GoDown
         \/ \E d \in Deployments : DeploymentStep(d)
  PROVE  Told \subseteq Told' /\ (IsFiniteSet(Successes) => IsFiniteSet(Successes'))
<1> USE DEF Base
<1>1. ASSUME Told \subseteq Successes', UNCHANGED <<outcome, dpc>>,
             \A m \in net' \ net : m.kind = "end" => m.of = None
      PROVE  Told \subseteq Told'
  <2> SUFFICES ASSUME NEW d \in Told PROVE d \in Told'
    OBVIOUS
  <2>1. d \in Deployments /\ d # None /\ dpc[d] # "finished" /\ EndOf(d) \notin net
    BY HistoryAssumption DEF Told, Successes
  <2>2. EndOf(d).kind = "end" /\ EndOf(d).of = d
    BY DEF EndOf, Message
  <2>3. EndOf(d) \notin net'
    BY <1>1, <2>1, <2>2
  <2>4. EndOf(d)' = EndOf(d)
    BY <1>1 DEF EndOf
  <2>5. QED
    BY <1>1, <2>1, <2>3, <2>4 DEF Told
<1>2. UNCHANGED outcome => Successes' = Successes /\ Told \subseteq Successes'
  BY DEF Successes, Told
<1>3. CASE Boot \/ Serve \/ SendHeartbeat \/ CancelDeploy \/ ShutdownStep
  <2>1. UNCHANGED <<outcome, dpc>>
    BY <1>3 DEF Boot, Serve, SendHeartbeat, CancelDeploy, agentVars,
              ShutdownStep, ShutdownBegin, ShutdownCancel, ShutdownPost, ShutdownReported
  <2>2. \A m \in net' \ net : m.kind = "end" => m.of = None
    BY <1>3 DEF Boot, Serve, SendHeartbeat, CancelDeploy, Post,
                ShutdownStep, ShutdownBegin, ShutdownCancel, ShutdownPost, ShutdownReported,
                Beat, ShutdownEnd, Message
  <2>3. QED
    BY <1>1, <1>2, <2>1, <2>2
<1>4. CASE GoDown
  <2>1. UNCHANGED <<outcome, net>> /\ \A d \in Deployments : dpc'[d] \in {dpc[d], "dead"}
    BY <1>4 DEF GoDown
  <2>2. \A d \in Deployments : EndOf(d)' = EndOf(d)
    BY <2>1 DEF EndOf
  <2>3. QED
    BY <1>2, <2>1, <2>2 DEF Told, Successes
<1>5. ASSUME NEW e \in Deployments, DeploymentStep(e)
      PROVE  Told \subseteq Told' /\ (IsFiniteSet(Successes) => IsFiniteSet(Successes'))
  <2>1. CASE \/ Admit(e) \/ Work(e) \/ Leave(e) \/ PostStart(e)
             \/ SyncApplies(e) \/ SyncEnds(e)
    <3>1. UNCHANGED outcome /\ \A d \in Deployments : dpc[d] # "finished" => dpc'[d] # "finished"
      BY <2>1 DEF Admit, Work, Leave, PostStart, SyncApplies, SyncEnds, TypeOK
    <3>2. \A d \in Deployments : EndOf(d)' = EndOf(d) /\ EndOf(d) # StartOf(e)
      BY <3>1 DEF EndOf, StartOf, Message
    <3>3. net' \subseteq net \cup {StartOf(e)}
      BY <2>1 DEF Admit, Work, Leave, PostStart, SyncApplies, SyncEnds, Post
    <3>4. QED
      BY <1>2, <3>1, <3>2, <3>3 DEF Told, Successes
  <2>2. CASE PostEnd(e)
    <3>1. /\ dpc[e] = "finished" /\ UNCHANGED outcome /\ net' = net \cup {EndOf(e)}
          /\ dpc' = [dpc EXCEPT ![e] = "ending"]
      BY <2>2 DEF PostEnd, Post
    <3>2. \A d \in Deployments : EndOf(d)' = EndOf(d) /\ (d # e => EndOf(d) # EndOf(e))
      BY <3>1 DEF EndOf, Message
    <3>3. \A d \in Deployments : dpc[d] # "finished" => d # e /\ dpc'[d] # "finished"
      BY <3>1 DEF TypeOK
    <3>4. QED
      BY <1>2, <3>1, <3>2, <3>3 DEF Told, Successes
  <2>3. CASE Conclude(e)
    <3>1. /\ dpc[e] = "working" /\ net' = net /\ dpc' = [dpc EXCEPT ![e] = "finished"]
          /\ \A d \in Deployments : d # e => outcome'[d] = outcome[d]
      BY <2>3 DEF Conclude, TypeOK
    <3>2. e \notin Successes
      BY <3>1, SuccessIsOver
    <3>3. \A d \in Successes : d # e /\ d \in Successes' /\ dpc'[d] = dpc[d] /\ EndOf(d)' = EndOf(d)
      BY <3>1, <3>2 DEF Successes, EndOf, TypeOK
    <3>4. Told \subseteq Told'
      BY <3>1, <3>3 DEF Told
    <3>5. Successes' \subseteq Successes \cup {e}
      BY <3>1 DEF Successes
    <3>6. QED
      BY <3>4, <3>5, FS_AddElement, FS_Subset
  <2>4. QED
    BY <1>5, <2>1, <2>2, <2>3 DEF DeploymentStep
<1>6. QED
  BY <1>3, <1>4, <1>5

\* Every step keeps the count.
LEMMA CountedStep == Base /\ Counted /\ [Next]_vars => Counted'
<1> SUFFICES ASSUME Base, Counted, [Next]_vars PROVE Counted'
  OBVIOUS
<1> USE DEF Counted
<1>1. TypeOK /\ TypeOK' /\ Base'
  BY BaseStep DEF Base
<1>2. IsFiniteSet(Entered)
  BY <1>1, CountedSets
<1>3. ASSUME IsFiniteSet(Successes'), Told \subseteq Told', Entered' \subseteq Entered
      PROVE  Counted'
  <2>1. IsFiniteSet(Told')
    BY <1>3, FS_Subset DEF Told
  <2>2. QED
    BY <1>2, <1>3, <2>1, StillNoMore
<1>4. CASE \/ Boot \/ Serve \/ SendHeartbeat \/ CancelDeploy \/ ShutdownStep \/ GoDown
           \/ \E d \in Deployments : DeploymentStep(d)
  <2>1. UNCHANGED deploys
    BY <1>4 DEF Boot, Serve, SendHeartbeat, CancelDeploy, GoDown,
                ShutdownStep, ShutdownBegin, ShutdownCancel, ShutdownPost, ShutdownReported,
                DeploymentStep, Admit, PostStart, Work, Conclude, PostEnd, Leave,
                SyncApplies, SyncEnds, storeVars
  <2>2. Entered' = Entered
    BY <2>1 DEF Entered
  <2>3. QED
    BY <1>3, <1>4, <2>2, ToldStays
<1>5. ASSUME UNCHANGED <<outcome, dpc>>, net' \subseteq net
      PROVE  Told \subseteq Told' /\ IsFiniteSet(Successes')
  <2>1. Successes' = Successes /\ \A d \in Deployments : EndOf(d)' = EndOf(d)
    BY <1>5 DEF Successes, EndOf
  <2>2. QED
    BY <1>5, <2>1 DEF Told, Successes
<1>6. CASE ServerStep \/ UNCHANGED vars \/ \E m \in net : Lose(m)
  <2>1. UNCHANGED <<outcome, dpc>> /\ net' \subseteq net /\ (deploys' = deploys \/ deploys' = <<>>)
    BY <1>6 DEF ServerStep, DeleteNode, OnlineTimeout, Lose, vars, agentVars, storeVars
  <2>2. Entered' \subseteq Entered
    BY <2>1 DEF Entered
  <2>3. QED
    BY <1>3, <1>5, <2>1, <2>2
<1>7. ASSUME NEW m \in net, Deliver(m)
      PROVE  Counted'
  <2>1. net' = net \ {m} /\ UNCHANGED <<outcome, dpc>>
    BY <1>7 DEF Deliver, agentVars
  <2>2. deploys \in Seq(DeployRecord) /\ m \in Messages /\ Genuine(m)
    BY <1>1 DEF TypeOK, StoreTypeOK, Base, Sent
  <2>3. CASE m.kind = "start" /\ deploys' = Append(deploys, [of |-> m.of, result |-> "running"])
    <3>1. m.of \in Deployments
      BY <2>2, <2>3 DEF Genuine
    <3>2. /\ DOMAIN deploys' = DOMAIN deploys \cup {Len(deploys')}
          /\ \A k \in DOMAIN deploys : deploys'[k] = deploys[k]
          /\ deploys'[Len(deploys')].result = "running"
      BY <2>2, <2>3, <3>1, AppendFacts
    <3>3. Entered' \subseteq Entered
      BY <3>2 DEF Entered
    <3>4. Told \subseteq Told' /\ IsFiniteSet(Successes')
      BY <1>5, <2>1
    <3>5. QED
      BY <1>3, <3>3, <3>4
  <2>4. ASSUME NEW r \in Results, r # "completed", deploys # <<>>, deploys' = SetLast(r)
        PROVE  Counted'
    <3>1. Entered' \subseteq Entered
      BY <2>2, <2>4, SetLastFacts DEF Entered
    <3>2. QED
      BY <1>3, <1>5, <2>1, <3>1
  <2>5. CASE m.kind = "end" /\ m.result = "completed" /\ deploys # <<>> /\ deploys' = SetLast("completed")
    <3>1. m.of # None
      <4>1. m.of = None => m = Message("end", None, "cancelled", m.boot)
        BY <2>2, <2>5 DEF Genuine
      <4>2. Message("end", None, "cancelled", m.boot).result = "cancelled"
        BY DEF Message
      <4>3. QED
        BY <2>5, <4>1, <4>2
    <3>2. m.of \in Deployments /\ m = EndOf(m.of) /\ dpc[m.of] # "finished"
      <4>1. m.of \in Deployments
        BY <2>2, <3>1 DEF Messages
      <4>2. m = EndOf(m.of) /\ dpc[m.of] # "finished"
        BY <2>2, <2>5, <3>1 DEF Genuine
      <4>3. QED
        BY <4>1, <4>2
    <3>3. outcome[m.of] = "completed"
      BY <2>5, <3>2 DEF EndOf, Message
    <3>4. m.of \notin Told
      BY <3>2 DEF Told
    <3>5. m.of \in Told'
      <4>1. EndOf(m.of)' = m
        BY <2>1, <3>2 DEF EndOf
      <4>2. QED
        BY <2>1, <3>2, <3>3, <4>1 DEF Told, Successes
    <3>6. Entered' \subseteq Entered \cup {Len(deploys)}
      <4>1. "completed" \in Results
        BY DEF Results
      <4>2. QED
        BY <2>2, <2>5, <4>1, SetLastFacts DEF Entered
    <3>7. Told \cup {m.of} \subseteq Told' /\ IsFiniteSet(Successes')
      BY <1>5, <2>1, <3>5
    <3>8. IsFiniteSet(Told') /\ IsFiniteSet(Told)
      BY <3>7, FS_Subset DEF Told
    <3>9. QED
      BY <1>2, <3>4, <3>6, <3>7, <3>8, OneMoreEach
  <2>6. CASE deploys' = deploys
    <3>1. Entered' = Entered
      BY <2>6 DEF Entered
    <3>2. QED
      BY <1>3, <1>5, <2>1, <3>1
  <2>7. QED
    <3>1. "cancelled" \in Results /\ "cancelled" # "completed"
      BY DEF Results
    <3>2. m.kind = "end" => m.result \in Results
      BY EndsHaveResults DEF Base
    <3>3. QED
      BY <1>7, <2>3, <2>4, <2>5, <2>6, <3>1, <3>2, Delivered DEF Base
<1>8. QED
  BY <1>4, <1>6, <1>7 DEF Next

\* The initial state has no successes.
LEMMA CountedInit == Init => Counted
<1> SUFFICES ASSUME Init PROVE Counted
  OBVIOUS
<1>1. Successes = {} /\ Told = {} /\ Entered = {}
  BY HistoryAssumption DEF Init, StoreInit, Successes, Told, Entered, Results
<1>2. QED
  BY <1>1, FS_EmptySet DEF Counted

\* Whatever becomes of the reports, the history on the server never has more
\* successes than there were (store.go:154-172).
THEOREM NoMoreSuccesses == Spec => []SuccessesNotInflated
<1>1. Base /\ Counted => SuccessesNotInflated
  <2> SUFFICES ASSUME Base, Counted PROVE SuccessesNotInflated
    OBVIOUS
  <2>1. Told \subseteq Successes /\ IsFiniteSet(Successes)
    BY DEF Told, Counted
  <2>2. IsFiniteSet(Entered)
    BY <2>1, CountedSets DEF Base
  <2>3. Cardinality(Entered) <= Cardinality(Successes)
    BY <2>1, <2>2, StillNoMore DEF Counted
  <2>4. QED
    BY <2>3 DEF SuccessesNotInflated, Entered, Successes
<1>2. QED
  BY <1>1, BaseInit, BaseStep, CountedInit, CountedStep, PTL DEF Spec
=============================================================================
