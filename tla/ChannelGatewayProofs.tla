------------------------ MODULE ChannelGatewayProofs ------------------------
(***************************************************************************)
(* Proofs about ChannelGateway: the handlers use the registry as it is     *)
(* meant to be used, and so inherit what is proved about it; and rows, late *)
(* updates and posts agree, whatever times out, fails, crashes or arrives  *)
(* twice.                                                                  *)
(***************************************************************************)
EXTENDS ChannelGateway, TurnRegistryProofs

\* Moves inside a turn leave the registry alone or end the turn.
LEMMA TurnMoves ==
  ASSUME NEW w \in Works, NEW from, NEW to
  PROVE  /\ Step(w, from, to) => UNCHANGED registry
         /\ Answer(w, from, to) => EndTurn(w)
BY DEF Step, Answer

\* The steps of the event loop and of PostgreSQL.
LEMMA LoopSteps ==
  ASSUME NEW w \in Works, Loop(w)
  PROVE  [RegistryNext]_registry
<1>1. Submit(w) \/ EndTurn(w) => RegistryNext
  BY DEF RegistryNext
<1>2. CASE RecordInbound(w) \/ SubmitTurn(w) \/ StartExpired(w)
  BY <1>1, <1>2 DEF RecordInbound, SubmitTurn, StartExpired
<1>3. CASE Reserve(w) \/ StartSend(w) \/ MarkDelivered(w)
  BY <1>3, TurnMoves DEF Reserve, StartSend, MarkDelivered
<1>4. CASE Delivered(w) \/ MarkDeliveryFailed(w)
  BY <1>1, <1>4, TurnMoves DEF Delivered, MarkDeliveryFailed
<1>5. CASE \E s \in {"delivered", "failed", "ambiguous"} : LateUpdate(w, s)
  BY <1>5 DEF LateUpdate
<1> QED
  BY <1>2, <1>3, <1>4, <1>5 DEF Loop

\* The deadline, the world outside and failing statements.
LEMMA OtherSteps ==
  ASSUME NEW w \in Works, RunCallback(w) \/ Timer(w) \/ Outside(w) \/ Fault(w)
  PROVE  [RegistryNext]_registry
<1>1. EndTurn(w) \/ Callback(w) => RegistryNext
  BY DEF RegistryNext
<1>2. CASE RunCallback(w) \/ Timer(w)
  BY <1>1, <1>2 DEF RunCallback, Timer, Expire
<1>3. CASE Outside(w)
  BY <1>1, <1>3, TurnMoves DEF Outside, Arrive, Respond, Post, SendFails, SendReturns
<1>4. CASE Fault(w)
  BY <1>1, <1>4, TurnMoves DEF Fault, StorageFault, LateFault
<1> QED
  BY <1>2, <1>3, <1>4

\* A step of the gateway is a step of the registry or leaves it alone.
LEMMA GatewaySteps == [Next]_vars => [RegistryNext]_registry
<1>1. CASE \E w \in Works : Loop(w) \/ RunCallback(w) \/ Timer(w) \/ Outside(w) \/ Fault(w)
  BY <1>1, LoopSteps, OtherSteps
<1>2. CASE Shutdown \/ Die
  BY <1>2 DEF Shutdown, Die, Crash, RegistryNext
<1>3. CASE UNCHANGED vars
  BY <1>3 DEF vars
<1> QED
  BY <1>1, <1>2, <1>3 DEF Next

\* The gateway with its deadlines, deliveries and crashes drives the registry
\* only through its operations.
THEOREM GatewayUsesRegistry == Spec => RegistrySpec
<1>1. Init => RegistryInit
  BY DEF Init
<1> QED
  BY <1>1, GatewaySteps, PTL DEF Spec, RegistrySpec

\* No two turns of a conversation are under way in the gateway at a time, not
\* even when a deadline ends a turn whose statements still run.
THEOREM GatewayOneTurn == Spec => []OneTurn
BY GatewayUsesRegistry, OneTurnAlways, PTL


-----------------------------------------------------------------------------
(* Deliveries.                                                               *)

\* What the parts of the invariant say of one arrival.
LEMMA InvFacts ==
  ASSUME DeliveryInv, NEW w \in Works
  PROVE  /\ OrderInv /\ GatewayTypeOK /\ RegistryTypeOK
         /\ pc[w] \in Stage /\ record[w] \in RecordStatus /\ sent[w] \in {0, 1}
         /\ Fits(pc[w], record[w], sent[w])
         /\ LateTrue(w) /\ SettledLater(w) /\ ClaimedOnce(w)
BY DEF DeliveryInv, GatewayTypeOK, Fits

\* No update is late while the turn goes on, nor does one say what was not posted.
LEMMA NoneLate ==
  ASSUME DeliveryInv, NEW w \in Works, pc[w] # "timed_out",
         NEW s \in {"delivered", "failed", "ambiguous"}
  PROVE  <<w, s>> \notin late
BY InvFacts DEF LateTrue

\* An arrival of which nothing changes is as true as before.
LEMMA OthersTrue ==
  ASSUME DeliveryInv, NEW v \in Works,
         pc'[v] = pc[v], record'[v] = record[v], sent'[v] = sent[v],
         \A s \in {"delivered", "failed", "ambiguous"} : <<v, s>> \in late' <=> <<v, s>> \in late,
         crashes' = 0 /\ faults' = 0 => crashes = 0 /\ faults = 0
  PROVE  Fits(pc[v], record[v], sent[v])' /\ LateTrue(v)' /\ SettledLater(v)'
<1>1. Fits(pc[v], record[v], sent[v]) /\ LateTrue(v) /\ SettledLater(v)
  BY InvFacts
<1>2. Fits(pc[v], record[v], sent[v])'
  BY <1>1
<1>3. LateTrue(v)'
  BY <1>1 DEF LateTrue
<1>4. SettledLater(v)'
  BY <1>1 DEF SettledLater
<1> QED
  BY <1>2, <1>3, <1>4

\* Where no arrival claims its message anew, messages stay claimed once.
LEMMA ClaimsKept ==
  ASSUME \A v \in Works : ClaimedOnce(v), \A v \in Works : Claimed(v)' => Claimed(v),
         inbound \subseteq inbound'
  PROVE  \A v \in Works : ClaimedOnce(v)'
<1> SUFFICES ASSUME NEW w \in Works, Claimed(w)'
             PROVE  /\ Message[w] \in inbound'
                    /\ \A v \in Works : v # w /\ Message[v] = Message[w] => ~ Claimed(v)'
  BY DEF ClaimedOnce
<1> QED
  BY DEF ClaimedOnce

\* One arrival moves to await or answer l, with row r and n posts.
LEMMA HandlerMoves ==
  ASSUME DeliveryInv, OrderInv', NEW w \in Works,
         NEW l \in Stage, NEW r \in RecordStatus, NEW n \in {0, 1},
         pc[w] # "timed_out", l = "timed_out" => n = 0, Fits(l, r, n),
         pc' = [pc EXCEPT ![w] = l],
         record' = [record EXCEPT ![w] = r],
         sent' = [sent EXCEPT ![w] = n],
         UNCHANGED <<inbound, late, crashes>>, expired' \subseteq Works,
         faults' \in 0..MaxFaults, faults' >= faults,
         \A v \in Works \ {w} : work'[v] = work[v],
         l \in InTurn <=> work'[w] \in {"queued", "running"},
         n = 1 \/ l \in {"inserted"} \cup InTurn => Claimed(w)
  PROVE  DeliveryInv'
<1>0. /\ GatewayTypeOK /\ OrderInv /\ \A v \in Works : ClaimedOnce(v)
      /\ faults \in Nat /\ RegistryTypeOK'
  BY BoundAssumption DEF DeliveryInv, GatewayTypeOK, OrderInv, RegistryInv
<1>1. /\ pc'[w] = l /\ record'[w] = r /\ sent'[w] = n
      /\ \A v \in Works \ {w} : pc'[v] = pc[v] /\ record'[v] = record[v] /\ sent'[v] = sent[v]
  BY <1>0 DEF GatewayTypeOK
<1>2. GatewayTypeOK'
  <2>1. pc' \in [Works -> Stage] /\ record' \in [Works -> RecordStatus] /\ sent' \in [Works -> Nat]
    BY <1>0 DEF GatewayTypeOK
  <2>2. \A v \in Works : pc'[v] \in InTurn <=> work'[v] \in {"queued", "running"}
    BY <1>0, <1>1 DEF GatewayTypeOK
  <2> QED
    BY <1>0, <2>1, <2>2 DEF GatewayTypeOK
<1>3. ASSUME NEW v \in Works
      PROVE  Fits(pc[v], record[v], sent[v])' /\ LateTrue(v)' /\ SettledLater(v)'
  <2>1. CASE v # w
    BY <1>0, <1>1, <2>1, OthersTrue
  <2>2. CASE v = w
    <3>1. \A s \in {"delivered", "failed", "ambiguous"} : <<w, s>> \notin late'
      BY NoneLate
    <3> QED
      BY <1>1, <2>2, <3>1 DEF LateTrue, SettledLater
  <2> QED
    BY <2>1, <2>2
<1>4. \A v \in Works : Claimed(v)' => Claimed(v)
  <2>1. Claimed(w)' => n = 1 \/ l \in {"inserted"} \cup InTurn
    <3>1. n > 0 => n = 1
      OBVIOUS
    <3> QED
      BY <1>1, <3>1 DEF Claimed
  <2>2. \A v \in Works \ {w} : Claimed(v)' => Claimed(v)
    BY <1>1 DEF Claimed
  <2> QED
    BY <2>1, <2>2
<1>5. \A v \in Works : ClaimedOnce(v)'
  BY <1>0, <1>4, ClaimsKept
<1> QED
  BY <1>2, <1>3, <1>5 DEF DeliveryInv

\* Steps of the registry alone do not begin or end what a handler awaits.
LEMMA TablesStay ==
  ASSUME DeliveryInv, OrderInv', UNCHANGED <<handlers, tables, crashes, faults>>,
         \A v \in Works : work'[v] \in {"queued", "running"} <=> work[v] \in {"queued", "running"}
  PROVE  DeliveryInv'
<1>0. /\ GatewayTypeOK /\ OrderInv /\ RegistryTypeOK' /\ \A v \in Works : ClaimedOnce(v)
      /\ UNCHANGED <<pc, expired, inbound, record, sent, late, crashes, faults>>
  BY DEF DeliveryInv, OrderInv, RegistryInv, handlers, tables
<1>1. GatewayTypeOK'
  BY <1>0 DEF GatewayTypeOK
<1>2. \A v \in Works : Fits(pc[v], record[v], sent[v])' /\ LateTrue(v)' /\ SettledLater(v)'
  BY <1>0, OthersTrue
<1>3. \A v \in Works : Claimed(v)' => Claimed(v)
  BY <1>0 DEF Claimed
<1>4. \A v \in Works : ClaimedOnce(v)'
  BY <1>0, <1>3, ClaimsKept
<1> QED
  BY <1>1, <1>2, <1>4 DEF DeliveryInv

\* From one await of a turn to the next, or to its answer, with row r and n posts.
LEMMA TurnGoesOn ==
  ASSUME DeliveryInv, OrderInv', NEW w \in Works, NEW from, NEW l \in Stage,
         NEW r \in RecordStatus, NEW n \in {0, 1},
         \/ Step(w, from, l) /\ l \in InTurn
         \/ Answer(w, from, l) /\ l \notin InTurn,
         from \in InTurn, l # "timed_out", Fits(l, r, n),
         record' = [record EXCEPT ![w] = r],
         sent' = [sent EXCEPT ![w] = n],
         UNCHANGED <<inbound, late, crashes>>,
         faults' \in 0..MaxFaults, faults' >= faults
  PROVE  DeliveryInv'
<1>0. GatewayTypeOK /\ RegistryTypeOK
  BY InvFacts
<1>1. /\ pc[w] = from /\ work[w] = "running" /\ pc' = [pc EXCEPT ![w] = l] /\ expired' = expired
      /\ work' = work \/ work' = [work EXCEPT ![w] = "ended"]
      /\ l \in InTurn <=> work' = work
  <2>1. CASE Step(w, from, l) /\ l \in InTurn
    BY <2>1 DEF Step, Awaits, Goto, registry
  <2>2. CASE Answer(w, from, l) /\ l \notin InTurn
    <3>1. pc[w] = from /\ work[w] = "running" /\ pc' = [pc EXCEPT ![w] = l] /\ expired' = expired
      BY <2>2 DEF Answer, Awaits, Goto
    <3>2. work' = [work EXCEPT ![w] = "ended"]
      BY <2>2 DEF Answer, EndTurn
    <3>3. work' # work
      BY <1>0, <3>1, <3>2 DEF RegistryTypeOK
    <3> QED
      BY <2>2, <3>1, <3>2, <3>3
  <2> QED
    BY <2>1, <2>2
<1>2. /\ \A v \in Works \ {w} : work'[v] = work[v]
      /\ l \in InTurn <=> work'[w] \in {"queued", "running"}
  BY <1>0, <1>1 DEF RegistryTypeOK
<1>3. pc[w] # "timed_out" /\ Claimed(w) /\ expired' \subseteq Works
  BY <1>0, <1>1 DEF Claimed, InTurn, Delivering, GatewayTypeOK
<1> HIDE DEF Fits
<1> QED
  BY <1>1, <1>2, <1>3, HandlerMoves

\* The turn answers, and asks for the row of its response.
LEMMA RespondTrue ==
  ASSUME DeliveryInv, OrderInv', NEW w \in Works, Outside(w), Respond(w)
  PROVE  DeliveryInv'
<1>0. /\ GatewayTypeOK /\ Fits(pc[w], record[w], sent[w])
      /\ UNCHANGED <<inbound, record, sent, late, crashes, faults>>
  BY InvFacts DEF Outside, Respond, tables
<1>1. PICK l \in {"reserve", "blocked", "no_response"} :
        \/ Step(w, "turn", l) /\ l \in InTurn
        \/ Answer(w, "turn", l) /\ l \notin InTurn
  BY DEF Respond, InTurn, Delivering
<1>2. pc[w] = "turn"
  BY <1>1 DEF Step, Answer, Awaits
<1>3. record[w] = "none" /\ sent[w] = 0
  BY <1>0, <1>2 DEF Fits, Unsent, Unreserved
<1>4. /\ record' = [record EXCEPT ![w] = "none"] /\ sent' = [sent EXCEPT ![w] = 0]
      /\ faults' \in 0..MaxFaults /\ faults' >= faults
  BY <1>0, <1>3, BoundAssumption DEF GatewayTypeOK
<1>5. Fits(l, "none", 0)
  BY <1>1 DEF Fits, Unsent, Unreserved
<1>6. /\ l \in Stage /\ "turn" \in InTurn /\ l # "timed_out" /\ "none" \in RecordStatus
  BY <1>1 DEF Stage, Answered, InTurn, Delivering, RecordStatus
<1> QED
  BY <1>0, <1>1, <1>4, <1>5, <1>6, TurnGoesOn

\* The steps of a delivery keep row, platform and handler in agreement.
LEMMA DeliverTrue ==
  ASSUME DeliveryInv, OrderInv', NEW w \in Works, UNCHANGED <<crashes, faults>>,
         \/ Reserve(w) \/ StartSend(w) \/ Post(w) \/ SendFails(w) \/ SendReturns(w)
         \/ MarkDelivered(w) \/ Delivered(w) \/ MarkDeliveryFailed(w)
  PROVE  DeliveryInv'
<1>0. /\ GatewayTypeOK /\ Fits(pc[w], record[w], sent[w]) /\ sent[w] \in {0, 1}
      /\ record[w] \in RecordStatus /\ faults' \in 0..MaxFaults /\ faults' >= faults
  BY InvFacts, BoundAssumption DEF GatewayTypeOK
<1>1. ASSUME NEW from \in Delivering, NEW l \in Stage, l # "timed_out",
             NEW r \in RecordStatus, NEW n \in {0, 1},
             \/ Step(w, from, l) /\ l \in InTurn
             \/ Answer(w, from, l) /\ l \notin InTurn,
             Fits(from, record[w], sent[w]) => Fits(l, r, n),
             record' = [record EXCEPT ![w] = r], sent' = [sent EXCEPT ![w] = n],
             UNCHANGED <<inbound, late>>
      PROVE  DeliveryInv'
  <2>1. pc[w] = from
    BY <1>1 DEF Step, Answer, Awaits
  <2>2. from \in InTurn
    BY DEF InTurn
  <2>3. Fits(l, r, n)
    BY <1>0, <1>1, <2>1
  <2> QED
    BY <1>0, <1>1, <2>2, <2>3, TurnGoesOn
<1>2. record = [record EXCEPT ![w] = record[w]] /\ sent = [sent EXCEPT ![w] = sent[w]]
  BY <1>0 DEF GatewayTypeOK
<1>3. /\ Delivering \cup {"delivered", "failed", "ambiguous"} \subseteq Stage
      /\ Delivering \subseteq InTurn
      /\ {"delivered", "failed", "ambiguous"} \cap InTurn = {}
  BY DEF Delivering, Stage, InTurn, Answered
<1>4. {"reserve", "reserved", "send", "posted", "mark", "marked", "mark_failed",
       "mark_ambiguous"} = Delivering
  BY DEF Delivering
<1>5. RecordStatus = {"none", "pending", "delivered", "failed", "ambiguous"}
  BY DEF RecordStatus
<1> DEFINE Moves(from, l, r, n) == Fits(from, record[w], sent[w]) => Fits(l, r, n)
<1>6. CASE Reserve(w)
  <2>1. Moves("reserve", "reserved", "pending", sent[w])
    BY <1>0 DEF Fits, Unsent, Unreserved
  <2>2. /\ Step(w, "reserve", "reserved") /\ UNCHANGED <<inbound, late>>
        /\ record' = [record EXCEPT ![w] = "pending"] /\ sent' = [sent EXCEPT ![w] = sent[w]]
    BY <1>2, <1>6 DEF Reserve
  <2>3. /\ "reserve" \in Delivering /\ "reserved" \in Stage \cap InTurn
        /\ "pending" \in RecordStatus /\ "reserved" # "timed_out"
    BY <1>3, <1>4, <1>5
  <2> QED
    BY <1>0, <1>1, <2>1, <2>2, <2>3
<1>7. CASE StartSend(w)
  <2>1. Moves("reserved", "send", record[w], sent[w])
    BY <1>0 DEF Fits, Unsent, Unreserved
  <2>2. /\ Step(w, "reserved", "send") /\ UNCHANGED <<inbound, late>>
        /\ record' = [record EXCEPT ![w] = record[w]] /\ sent' = [sent EXCEPT ![w] = sent[w]]
    BY <1>2, <1>7 DEF StartSend, tables
  <2> QED
    BY <1>0, <1>1, <1>3, <1>4, <2>1, <2>2
<1>8. CASE Post(w)
  <2>1. Moves("send", "posted", record[w], 1)
    BY <1>0 DEF Fits, Unsent, Unreserved
  <2>2. pc[w] = "send" /\ sent[w] = 0
    BY <1>0, <1>8 DEF Post, Step, Awaits, Fits, Unsent
  <2>3. /\ Step(w, "send", "posted") /\ UNCHANGED <<inbound, late>>
        /\ record' = [record EXCEPT ![w] = record[w]] /\ sent' = [sent EXCEPT ![w] = 1]
    BY <1>2, <1>8, <2>2 DEF Post
  <2> QED
    BY <1>0, <1>1, <1>3, <1>4, <2>1, <2>3
<1>9. CASE SendFails(w)
  <2>1. PICK from \in {"send", "posted"}, to \in {"mark_failed", "mark_ambiguous"} :
          Step(w, from, to)
    BY <1>9 DEF SendFails
  <2>2. Moves(from, to, record[w], sent[w])
    BY <1>0 DEF Fits, Unsent, Unreserved
  <2>3. /\ UNCHANGED <<inbound, late>>
        /\ record' = [record EXCEPT ![w] = record[w]] /\ sent' = [sent EXCEPT ![w] = sent[w]]
    BY <1>2, <1>9 DEF SendFails, tables
  <2>4. from \in Delivering /\ to \in Stage \cap InTurn /\ to # "timed_out"
    BY <1>3, <1>4
  <2> QED
    BY <1>0, <1>1, <2>1, <2>2, <2>3, <2>4
<1>10. CASE SendReturns(w)
  <2>1. Moves("posted", "mark", record[w], sent[w])
    BY <1>0 DEF Fits, Unsent, Unreserved
  <2>2. /\ Step(w, "posted", "mark") /\ UNCHANGED <<inbound, late>>
        /\ record' = [record EXCEPT ![w] = record[w]] /\ sent' = [sent EXCEPT ![w] = sent[w]]
    BY <1>2, <1>10 DEF SendReturns, tables
  <2> QED
    BY <1>0, <1>1, <1>3, <1>4, <2>1, <2>2
<1>11. CASE MarkDelivered(w)
  <2>1. Moves("mark", "marked", "delivered", sent[w])
    BY <1>0 DEF Fits, Unsent, Unreserved
  <2>2. /\ Step(w, "mark", "marked") /\ UNCHANGED <<inbound, late>>
        /\ record' = [record EXCEPT ![w] = "delivered"] /\ sent' = [sent EXCEPT ![w] = sent[w]]
    BY <1>2, <1>11 DEF MarkDelivered
  <2>3. /\ "mark" \in Delivering /\ "marked" \in Stage \cap InTurn
        /\ "delivered" \in RecordStatus /\ "marked" # "timed_out"
    BY <1>3, <1>4, <1>5
  <2> QED
    BY <1>0, <1>1, <2>1, <2>2, <2>3
<1>12. CASE Delivered(w)
  <2>1. Moves("marked", "delivered", record[w], sent[w])
    BY <1>0 DEF Fits, Unsent, Unreserved
  <2>2. /\ Answer(w, "marked", "delivered") /\ UNCHANGED <<inbound, late>>
        /\ record' = [record EXCEPT ![w] = record[w]] /\ sent' = [sent EXCEPT ![w] = sent[w]]
    BY <1>2, <1>12 DEF Delivered, tables
  <2> QED
    BY <1>0, <1>1, <1>3, <1>4, <2>1, <2>2, ZenonT(30)
<1>13. CASE MarkDeliveryFailed(w)
  <2>1. PICK s \in {"failed", "ambiguous"} :
          /\ Answer(w, IF s = "failed" THEN "mark_failed" ELSE "mark_ambiguous", s)
          /\ record' = [record EXCEPT ![w] = s]
    BY <1>13 DEF MarkDeliveryFailed
  <2>2. PICK from \in {"mark_failed", "mark_ambiguous"} : Answer(w, from, s)
    BY <2>1
  <2>3. Moves(from, s, s, sent[w])
    BY <1>0 DEF Fits, Unsent, Unreserved
  <2>4. UNCHANGED <<inbound, late>> /\ sent' = [sent EXCEPT ![w] = sent[w]]
    BY <1>2, <1>13 DEF MarkDeliveryFailed
  <2>5. /\ from \in Delivering /\ s \in Stage \ InTurn /\ s # "timed_out"
        /\ s \in RecordStatus
    BY <1>3, <1>4, <1>5
  <2> QED
    BY <1>0, <1>1, <2>1, <2>2, <2>3, <2>4, <2>5
<1> QED
  BY <1>6, <1>7, <1>8, <1>9, <1>10, <1>11, <1>12, <1>13

\* A message comes in.
LEMMA ArriveTrue ==
  ASSUME DeliveryInv, OrderInv', NEW w \in Works, Arrive(w), UNCHANGED <<crashes, faults>>
  PROVE  DeliveryInv'
<1>0. /\ GatewayTypeOK /\ Fits(pc[w], record[w], sent[w]) /\ sent[w] \in {0, 1}
      /\ record[w] \in RecordStatus /\ pc[w] = "away"
      /\ pc' = [pc EXCEPT ![w] = "insert"]
      /\ UNCHANGED <<expired, work, inbound, record, sent, late>>
  BY InvFacts DEF Arrive, Goto, tables, registry
<1>1. record' = [record EXCEPT ![w] = record[w]] /\ sent' = [sent EXCEPT ![w] = sent[w]]
  BY <1>0 DEF GatewayTypeOK
<1>2. Fits("insert", record[w], sent[w])
  BY <1>0 DEF Fits, Unsent, Unreserved
<1>3. "insert" \in Stage /\ "insert" \notin {"inserted"} \cup InTurn /\ "away" \notin InTurn
  BY DEF Stage, AtTheDoor, InTurn, Delivering
<1>4. /\ work'[w] \notin {"queued", "running"} /\ expired' \subseteq Works
      /\ faults' \in 0..MaxFaults /\ faults' >= faults
  BY <1>0, <1>3, BoundAssumption DEF GatewayTypeOK
<1>5. sent[w] # 1
  BY <1>0 DEF Fits, Unsent, Unreserved
<1> QED
  BY <1>0, <1>1, <1>2, <1>3, <1>4, <1>5, HandlerMoves, ZenonT(30)

\* The arrival that inserts the row of a message has the message to itself.
LEMMA RecordInboundTrue ==
  ASSUME DeliveryInv, OrderInv', NEW w \in Works, RecordInbound(w), UNCHANGED <<crashes, faults>>
  PROVE  DeliveryInv'
<1>0. /\ GatewayTypeOK /\ Fits(pc[w], record[w], sent[w]) /\ pc[w] = "insert"
      /\ \A v \in Works : ClaimedOnce(v)
  BY InvFacts DEF RecordInbound
<1>1. PICK l \in {"duplicate", "inserted"} :
        /\ l = "inserted" => Message[w] \notin inbound
        /\ pc' = [pc EXCEPT ![w] = l]
        /\ inbound' = inbound \cup {Message[w]}
        /\ UNCHANGED <<expired, work, record, sent, late>>
  BY DEF RecordInbound, Goto, registry
<1>2. l \in Stage /\ l \notin InTurn /\ "insert" \notin InTurn
  BY DEF Stage, AtTheDoor, Answered, InTurn, Delivering
<1>3. /\ pc'[w] = l /\ sent[w] = 0
      /\ \A v \in Works \ {w} : pc'[v] = pc[v]
  BY <1>0, <1>1 DEF GatewayTypeOK, Fits, Unsent, Unreserved
<1>4. RegistryTypeOK'
  BY DEF OrderInv, RegistryInv
<1>5. GatewayTypeOK'
  <2>1. pc' \in [Works -> Stage] /\ inbound' \subseteq {Message[v] : v \in Works}
    BY <1>0, <1>1, <1>2 DEF GatewayTypeOK
  <2>2. \A v \in Works : pc'[v] \in InTurn <=> work'[v] \in {"queued", "running"}
    BY <1>0, <1>1, <1>2, <1>3 DEF GatewayTypeOK
  <2> QED
    BY <1>0, <1>1, <1>4, <2>1, <2>2 DEF GatewayTypeOK
<1>6. ASSUME NEW v \in Works
      PROVE  Fits(pc[v], record[v], sent[v])' /\ LateTrue(v)' /\ SettledLater(v)'
  <2>1. CASE v # w
    BY <1>1, <1>3, <2>1, OthersTrue
  <2>2. CASE v = w
    <3>1. \A s \in {"delivered", "failed", "ambiguous"} : <<w, s>> \notin late'
      BY <1>0, <1>1, NoneLate
    <3>2. Fits(l, record[w], sent[w])
      BY <1>0 DEF Fits, Unsent, Unreserved
    <3> QED
      BY <1>1, <1>3, <2>2, <3>1, <3>2 DEF LateTrue, SettledLater
  <2> QED
    BY <2>1, <2>2
<1>7. ASSUME NEW v \in Works PROVE ClaimedOnce(v)'
  <2>1. \A u \in Works \ {w} : Claimed(u)' <=> Claimed(u)
    BY <1>1, <1>3 DEF Claimed
  <2>2. Claimed(w)' => l = "inserted"
    BY <1>1, <1>2, <1>3 DEF Claimed
  <2>3. Claimed(w)' => \A u \in Works : Message[u] = Message[w] => ~ Claimed(u)
    BY <1>0, <1>1, <2>2 DEF ClaimedOnce
  <2>4. CASE v = w
    BY <1>1, <2>1, <2>3, <2>4 DEF ClaimedOnce
  <2>5. CASE v # w
    <3>1. SUFFICES ASSUME Claimed(v)'
                   PROVE  /\ Message[v] \in inbound'
                          /\ \A u \in Works : u # v /\ Message[u] = Message[v] => ~ Claimed(u)'
      BY DEF ClaimedOnce
    <3>2. Claimed(v) /\ Message[v] \in inbound
      BY <1>0, <2>1, <2>5, <3>1 DEF ClaimedOnce
    <3>3. Message[w] = Message[v] => ~ Claimed(w)'
      BY <2>3, <3>2
    <3>4. \A u \in Works \ {w} : u # v /\ Message[u] = Message[v] => ~ Claimed(u)'
      BY <1>0, <2>1, <3>2 DEF ClaimedOnce
    <3> QED
      BY <1>1, <3>2, <3>3, <3>4
  <2> QED
    BY <2>4, <2>5
<1> QED
  BY <1>5, <1>6, <1>7 DEF DeliveryInv

\* The arrival submits its turn, or is told that the gateway closes.
LEMMA SubmitTurnTrue ==
  ASSUME DeliveryInv, OrderInv', NEW w \in Works, SubmitTurn(w), UNCHANGED <<crashes, faults>>
  PROVE  DeliveryInv'
<1>0. /\ GatewayTypeOK /\ RegistryTypeOK /\ Fits(pc[w], record[w], sent[w]) /\ sent[w] \in {0, 1}
      /\ record[w] \in RecordStatus /\ pc[w] = "inserted"
      /\ UNCHANGED <<expired, inbound, record, sent, late>>
  BY InvFacts DEF SubmitTurn, Goto, tables
<1>1. PICK l \in {"turn", "closed"} :
        /\ l = IF gate = "open" THEN "turn" ELSE "closed"
        /\ pc' = [pc EXCEPT ![w] = l]
  BY DEF SubmitTurn, Goto
<1>2. PICK k \in {"refused", "queued", "running"} :
        work' = [work EXCEPT ![w] = k] /\ (k = "refused" <=> gate # "open")
  BY DEF SubmitTurn, Submit
<1>3. record' = [record EXCEPT ![w] = record[w]] /\ sent' = [sent EXCEPT ![w] = sent[w]]
  BY <1>0 DEF GatewayTypeOK
<1>4. Fits(l, record[w], sent[w])
  BY <1>0, <1>1 DEF Fits, Unsent, Unreserved
<1>5. l \in Stage /\ (l \in InTurn <=> l = "turn") /\ l # "timed_out" /\ Claimed(w)
  BY <1>0, <1>1 DEF Stage, Answered, InTurn, Delivering, Claimed
<1>6. /\ l \in InTurn <=> work'[w] \in {"queued", "running"}
      /\ \A v \in Works \ {w} : work'[v] = work[v]
  BY <1>0, <1>1, <1>2, <1>5 DEF RegistryTypeOK
<1>7. expired' \subseteq Works /\ faults' \in 0..MaxFaults /\ faults' >= faults
  BY <1>0, BoundAssumption DEF GatewayTypeOK
<1> QED
  BY <1>0, <1>1, <1>3, <1>4, <1>5, <1>6, <1>7, HandlerMoves, ZenonT(30)

\* A statement of a handler fails.
LEMMA StorageFaultTrue ==
  ASSUME DeliveryInv, OrderInv', NEW w \in Works, StorageFault(w),
         faults' \in 0..MaxFaults, faults' >= faults, crashes' = crashes
  PROVE  DeliveryInv'
<1>0. /\ GatewayTypeOK /\ Fits(pc[w], record[w], sent[w])
      /\ UNCHANGED <<inbound, record, sent, late, crashes>>
  BY InvFacts DEF StorageFault, tables
<1>1. PICK r \in RecordStatus : r = record[w]
  BY InvFacts
<1>2. PICK n \in {0, 1} : n = sent[w]
  BY InvFacts
<1>3. /\ record' = [record EXCEPT ![w] = r] /\ sent' = [sent EXCEPT ![w] = n]
      /\ UNCHANGED <<inbound, late, crashes>>
  BY <1>0, <1>1, <1>2 DEF GatewayTypeOK
<1>4. PICK threw \in Stage : threw = "threw" /\ threw # "timed_out" /\ threw \notin InTurn
  BY DEF Stage, Answered, InTurn, Delivering
<1>5. CASE pc[w] = "insert" /\ Goto(w, "threw") /\ UNCHANGED registry
  <2>1. /\ pc' = [pc EXCEPT ![w] = threw] /\ work' = work /\ expired' \subseteq Works
    BY <1>0, <1>4, <1>5 DEF Goto, registry, GatewayTypeOK
  <2>2. Fits(threw, r, n) /\ n # 1
    BY <1>0, <1>1, <1>2, <1>4, <1>5 DEF Fits, Unsent, Unreserved
  <2>3. work'[w] \notin {"queued", "running"} /\ threw \notin {"inserted"}
    BY <1>0, <1>4, <1>5, <2>1 DEF GatewayTypeOK, InTurn, Delivering
  <2>4. pc[w] # "timed_out"
    BY <1>5
  <2> QED
    BY <1>0, <1>3, <1>4, <2>1, <2>2, <2>3, <2>4, HandlerMoves
<1>6. CASE \E from \in {"reserve", "mark_failed", "mark_ambiguous"} : Answer(w, from, "threw")
  <2>1. PICK from \in {"reserve", "mark_failed", "mark_ambiguous"} : Answer(w, from, threw)
    BY <1>4, <1>6
  <2>2. pc[w] = from /\ from \in InTurn
    BY <2>1 DEF Answer, Awaits, InTurn, Delivering
  <2>3. Fits(threw, r, n)
    BY <1>0, <1>1, <1>2, <1>4, <2>2 DEF Fits, Unsent, Unreserved
  <2>4. \/ Step(w, from, threw) /\ threw \in InTurn
        \/ Answer(w, from, threw) /\ threw \notin InTurn
    BY <1>4, <2>1
  <2> QED
    BY <1>3, <1>4, <2>2, <2>3, <2>4, TurnGoesOn
<1>7. CASE Step(w, "mark", "mark_failed")
  <2>1. PICK l \in Stage : l = "mark_failed" /\ l # "timed_out" /\ l \in InTurn
    BY DEF Stage, InTurn, Delivering
  <2>2. PICK from \in InTurn : from = "mark"
    BY DEF InTurn, Delivering
  <2>3. Step(w, from, l)
    BY <1>7, <2>1, <2>2
  <2>4. Fits(l, r, n)
    BY <1>0, <1>1, <1>2, <2>1, <2>2, <2>3 DEF Fits, Unsent, Unreserved, Step, Awaits
  <2>5. \/ Step(w, from, l) /\ l \in InTurn
        \/ Answer(w, from, l) /\ l \notin InTurn
    BY <2>1, <2>3
  <2>6. from \in InTurn /\ l # "timed_out"
    BY <2>1
  <2> QED
    BY <1>3, <2>4, <2>5, <2>6, TurnGoesOn
<1> QED
  BY <1>5, <1>6, <1>7 DEF StorageFault

\* A turn that expired in the queue, and a timer that only marks a queued turn.
LEMMA ExpiredInQueue ==
  ASSUME DeliveryInv, OrderInv', NEW w \in Works, UNCHANGED <<crashes, faults>>,
         StartExpired(w) \/ (Expire(w) /\ work[w] = "queued")
  PROVE  DeliveryInv'
<1>0. /\ GatewayTypeOK /\ RegistryTypeOK /\ Fits(pc[w], record[w], sent[w]) /\ sent[w] \in {0, 1}
      /\ record[w] \in RecordStatus /\ pc[w] \in Stage
  BY InvFacts
<1>1. faults' \in 0..MaxFaults /\ faults' >= faults
  BY <1>0, BoundAssumption DEF GatewayTypeOK
<1>2. CASE StartExpired(w)
  <2>1. /\ pc[w] = "turn" /\ UNCHANGED <<expired, inbound, record, sent, late>>
        /\ pc' = [pc EXCEPT ![w] = "timed_out"]
    BY <1>2 DEF StartExpired, Goto, tables
  <2>2. work' = [work EXCEPT ![w] = "ended"]
    BY <1>2 DEF StartExpired, EndTurn
  <2>3. PICK l \in Stage : l = "timed_out" /\ l \notin InTurn /\ l \notin {"inserted"}
    BY DEF Stage, Answered, InTurn, Delivering
  <2>4. PICK n \in {0, 1} : n = sent[w] /\ n = 0
    BY <1>0, <2>1 DEF Fits, Unsent, Unreserved
  <2>5. PICK r \in RecordStatus : r = record[w]
    BY <1>0
  <2>6. Fits(l, r, n)
    BY <1>0, <2>1, <2>3, <2>4, <2>5 DEF Fits, Unsent, Unreserved
  <2>7. /\ record' = [record EXCEPT ![w] = r] /\ sent' = [sent EXCEPT ![w] = n]
        /\ pc' = [pc EXCEPT ![w] = l] /\ expired' \subseteq Works
    BY <1>0, <2>1, <2>3, <2>4, <2>5 DEF GatewayTypeOK
  <2>8. work'[w] \notin {"queued", "running"} /\ \A v \in Works \ {w} : work'[v] = work[v]
    BY <1>0, <2>2 DEF RegistryTypeOK
  <2>9. pc[w] # "timed_out" /\ n # 1
    BY <2>1, <2>4
  <2> QED
    BY <1>1, <2>1, <2>3, <2>4, <2>6, <2>7, <2>8, <2>9, HandlerMoves, ZenonT(30)
<1>3. CASE Expire(w) /\ work[w] = "queued"
  <2>1. /\ pc[w] \in InTurn /\ expired' = expired \cup {w}
        /\ UNCHANGED <<work, pc, inbound, record, sent, late>>
    BY <1>3 DEF Expire, tables, registry
  <2>2. /\ record' = [record EXCEPT ![w] = record[w]] /\ sent' = [sent EXCEPT ![w] = sent[w]]
        /\ pc' = [pc EXCEPT ![w] = pc[w]] /\ expired' \subseteq Works
    BY <1>0, <2>1 DEF GatewayTypeOK
  <2>3. pc[w] # "timed_out" /\ Claimed(w) /\ work'[w] \in {"queued", "running"}
    BY <1>0, <1>3, <2>1 DEF InTurn, Delivering, Claimed
  <2> QED
    BY <1>0, <1>1, <2>1, <2>2, <2>3, HandlerMoves
<1> QED
  BY <1>2, <1>3

\* The deadline ends a running turn; what its statements still do is late.
LEMMA ExpireTrue ==
  ASSUME DeliveryInv, OrderInv', NEW w \in Works, Expire(w), work[w] # "queued",
         UNCHANGED <<crashes, faults>>
  PROVE  DeliveryInv'
<1>0. /\ GatewayTypeOK /\ RegistryTypeOK /\ Fits(pc[w], record[w], sent[w]) /\ sent[w] \in {0, 1}
      /\ record[w] \in RecordStatus /\ pc[w] \in InTurn /\ \A v \in Works : ClaimedOnce(v)
  BY InvFacts DEF Expire
<1>1. PICK l \in InTurn : l = pc[w]
  BY <1>0
<1>2. /\ pc' = [pc EXCEPT ![w] = "timed_out"] /\ expired' = expired \cup {w}
      /\ inbound' = inbound
      /\ late' = late \cup {<<w, s>> : s \in LateUpdates(l)}
      /\ \/ UNCHANGED <<record, sent>>
         \/ /\ l = "reserve"
            /\ record' = [record EXCEPT ![w] = "pending"]
            /\ UNCHANGED sent
         \/ /\ l = "send"
            /\ sent' = [sent EXCEPT ![w] = @ + 1]
            /\ UNCHANGED record
  BY <1>1 DEF Expire
<1>3. work' = [work EXCEPT ![w] = "ended"]
  BY DEF Expire, EndTurn
<1>4. PICK r \in RecordStatus, n \in {0, 1} :
        /\ record' = [record EXCEPT ![w] = r] /\ sent' = [sent EXCEPT ![w] = n]
        /\ \/ r = record[w] /\ n = sent[w]
           \/ l = "reserve" /\ r = "pending" /\ n = sent[w]
           \/ l = "send" /\ r = record[w] /\ n = 1
  <2>1. /\ record = [record EXCEPT ![w] = record[w]] /\ sent = [sent EXCEPT ![w] = sent[w]]
        /\ "pending" \in RecordStatus
    BY <1>0 DEF GatewayTypeOK, RecordStatus
  <2>2. CASE UNCHANGED <<record, sent>>
    BY <1>0, <2>1, <2>2
  <2>3. CASE l = "reserve" /\ record' = [record EXCEPT ![w] = "pending"] /\ UNCHANGED sent
    BY <1>0, <2>1, <2>3
  <2>4. CASE l = "send" /\ sent' = [sent EXCEPT ![w] = @ + 1] /\ UNCHANGED record
    <3>1. sent[w] = 0
      BY <1>0, <1>1, <2>4 DEF Fits, Unsent
    <3>2. sent' = [sent EXCEPT ![w] = 1]
      BY <2>4, <3>1
    <3> QED
      BY <1>0, <2>1, <2>4, <3>2
  <2> QED
    BY <1>2, <2>2, <2>3, <2>4
<1>5. /\ pc'[w] = "timed_out" /\ record'[w] = r /\ sent'[w] = n
      /\ \A v \in Works \ {w} : pc'[v] = pc[v] /\ record'[v] = record[v] /\ sent'[v] = sent[v]
  BY <1>0, <1>2, <1>4 DEF GatewayTypeOK
<1>6. Fits(l, record[w], sent[w])
  BY <1>0, <1>1
<1>7. /\ Fits("timed_out", r, n)
      /\ \A s \in LateUpdates(l) : r # "none" /\ (s = "delivered" => n = 1)
      /\ n = 1 /\ r = "pending" => LateUpdates(l) # {}
  <2>1. Fits("timed_out", r, n)
    BY <1>4, <1>6 DEF Fits, Unsent, Unreserved
  <2>2. \A s \in LateUpdates(l) : r # "none" /\ (s = "delivered" => n = 1)
    BY <1>4, <1>6 DEF Fits, LateUpdates
  <2>3. ASSUME n = 1, r = "pending" PROVE LateUpdates(l) # {}
    <3>1. l \notin {"turn", "reserve", "reserved"}
      BY <1>4, <1>6, <2>3 DEF Fits, Unsent, Unreserved
    <3>2. CASE l = "mark_failed"
      <4>1. "failed" \in LateUpdates(l)
        BY <3>2 DEF LateUpdates
      <4> QED
        BY <4>1
    <3>3. CASE l # "mark_failed"
      <4>1. l \in {"send", "posted", "mark", "marked", "mark_ambiguous"}
        BY <3>1, <3>3 DEF InTurn, Delivering
      <4>2. "ambiguous" \in LateUpdates(l)
        BY <4>1 DEF LateUpdates
      <4> QED
        BY <4>2
    <3> QED
      BY <3>2, <3>3
  <2> QED
    BY <2>1, <2>2, <2>3
<1>8. LateUpdates(l) \subseteq {"delivered", "failed", "ambiguous"}
  BY DEF LateUpdates
<1>9. \A v \in Works, s \in {"delivered", "failed", "ambiguous"} :
        <<v, s>> \in late' <=> <<v, s>> \in late \/ (v = w /\ s \in LateUpdates(l))
  BY <1>2
<1>10. \A s \in {"delivered", "failed", "ambiguous"} : <<w, s>> \notin late
  <2>1. pc[w] # "timed_out"
    BY <1>0 DEF InTurn, Delivering
  <2> QED
    BY <2>1, NoneLate
<1> HIDE DEF Fits
<1>11. GatewayTypeOK'
  <2>1. "timed_out" \in Stage /\ "timed_out" \notin InTurn
    BY DEF Stage, Answered, InTurn, Delivering
  <2>2. pc' \in [Works -> Stage] /\ record' \in [Works -> RecordStatus] /\ sent' \in [Works -> Nat]
    BY <1>0, <1>2, <1>4, <2>1 DEF GatewayTypeOK
  <2>3. \A v \in Works : pc'[v] \in InTurn <=> work'[v] \in {"queued", "running"}
    BY <1>0, <1>3, <1>5, <2>1 DEF GatewayTypeOK, RegistryTypeOK
  <2>4. late' \subseteq Works \X {"delivered", "failed", "ambiguous"}
    BY <1>0, <1>2, <1>8 DEF GatewayTypeOK
  <2>5. RegistryTypeOK'
    BY DEF OrderInv, RegistryInv
  <2> QED
    BY <1>0, <1>2, <2>2, <2>3, <2>4, <2>5 DEF GatewayTypeOK
<1>12. ASSUME NEW v \in Works
       PROVE  Fits(pc[v], record[v], sent[v])' /\ LateTrue(v)' /\ SettledLater(v)'
  <2>1. CASE v # w
    <3>1. \A s \in {"delivered", "failed", "ambiguous"} : <<v, s>> \in late' <=> <<v, s>> \in late
      BY <1>9, <2>1
    <3> QED
      BY <1>5, <2>1, <3>1, OthersTrue
  <2>2. CASE v = w
    <3>1. Fits(pc[w], record[w], sent[w])'
      BY <1>5, <1>7
    <3>2. LateTrue(w)'
      BY <1>5, <1>7, <1>9, <1>10 DEF LateTrue
    <3>3. SettledLater(w)'
      <4>1. SUFFICES ASSUME n > 0, r = "pending"
                     PROVE  \E s \in {"delivered", "failed", "ambiguous"} : <<w, s>> \in late'
        BY <1>5 DEF SettledLater
      <4>2. PICK s \in LateUpdates(l) : TRUE
        BY <1>7, <4>1
      <4>3. s \in {"delivered", "failed", "ambiguous"} /\ <<w, s>> \in late'
        BY <1>8, <1>9
      <4> QED
        BY <4>3
    <3> QED
      BY <2>2, <3>1, <3>2, <3>3
  <2> QED
    BY <2>1, <2>2
<1>13. \A v \in Works : Claimed(v)' => Claimed(v)
  <2>1. Claimed(w)
    BY <1>0 DEF Claimed
  <2>2. \A v \in Works \ {w} : Claimed(v)' => Claimed(v)
    BY <1>5 DEF Claimed
  <2> QED
    BY <2>1, <2>2
<1>14. \A v \in Works : ClaimedOnce(v)'
  BY <1>0, <1>2, <1>13, ClaimsKept
<1> QED
  BY <1>11, <1>12, <1>14 DEF DeliveryInv

\* A late update is applied, or fails.
LEMMA LateTrueStep ==
  ASSUME DeliveryInv, OrderInv', NEW w \in Works, NEW s \in {"delivered", "failed", "ambiguous"},
         \/ LateUpdate(w, s) /\ faults' = faults
         \/ LateFault(w, s) /\ faults' = faults + 1 /\ faults < MaxFaults,
         crashes' = crashes
  PROVE  DeliveryInv'
<1>0. /\ GatewayTypeOK /\ Fits(pc[w], record[w], sent[w]) /\ sent[w] \in {0, 1}
      /\ record[w] \in RecordStatus /\ LateTrue(w) /\ SettledLater(w)
      /\ \A v \in Works : ClaimedOnce(v)
  BY InvFacts
<1>1. /\ <<w, s>> \in late /\ late' = late \ {<<w, s>>}
      /\ UNCHANGED <<work, pc, expired, inbound, sent>>
  BY DEF LateUpdate, LateFault, handlers, registry
<1>2. PICK r \in RecordStatus :
        /\ record' = [record EXCEPT ![w] = r]
        /\ \/ r = s
           \/ r = record[w] /\ faults' # 0
  <2>1. CASE LateUpdate(w, s)
    BY <2>1 DEF LateUpdate, RecordStatus
  <2>2. CASE LateFault(w, s) /\ faults' = faults + 1
    <3>1. record' = [record EXCEPT ![w] = record[w]]
      BY <1>0, <2>2 DEF LateFault, GatewayTypeOK
    <3>2. faults' # 0
      BY <1>0, <2>2, BoundAssumption DEF GatewayTypeOK
    <3> QED
      BY <1>0, <3>1, <3>2
  <2> QED
    BY <2>1, <2>2
<1>3. pc[w] = "timed_out" /\ record[w] # "none" /\ (s = "delivered" => sent[w] = 1)
  BY <1>0, <1>1 DEF LateTrue
<1>4. Fits("timed_out", r, sent[w]) /\ r # "none"
  BY <1>0, <1>2, <1>3 DEF Fits, Unsent, Unreserved
<1>5. record'[w] = r /\ \A v \in Works \ {w} : record'[v] = record[v]
  BY <1>0, <1>2 DEF GatewayTypeOK
<1>6. /\ faults' \in 0..MaxFaults
      /\ crashes' = 0 /\ faults' = 0 => crashes = 0 /\ faults = 0
  BY <1>0, BoundAssumption DEF GatewayTypeOK
<1>7. GatewayTypeOK'
  <2>1. record' \in [Works -> RecordStatus] /\ late' \subseteq Works \X {"delivered", "failed", "ambiguous"}
    BY <1>0, <1>1, <1>2 DEF GatewayTypeOK
  <2>2. RegistryTypeOK'
    BY DEF OrderInv, RegistryInv
  <2> QED
    BY <1>0, <1>1, <1>6, <2>1, <2>2 DEF GatewayTypeOK
<1>8. ASSUME NEW v \in Works
      PROVE  Fits(pc[v], record[v], sent[v])' /\ LateTrue(v)' /\ SettledLater(v)'
  <2>1. CASE v # w
    <3>1. \A k \in {"delivered", "failed", "ambiguous"} : <<v, k>> \in late' <=> <<v, k>> \in late
      BY <1>1, <2>1
    <3> QED
      BY <1>1, <1>5, <1>6, <2>1, <3>1, OthersTrue
  <2>2. CASE v = w
    <3>1. Fits(pc[w], record[w], sent[w])'
      BY <1>1, <1>3, <1>4, <1>5
    <3>2. LateTrue(w)'
      BY <1>0, <1>1, <1>3, <1>4, <1>5 DEF LateTrue
    <3>3. faults' = 0 => r # "pending"
      BY <1>2
    <3>4. SettledLater(w)'
      BY <1>5, <3>3 DEF SettledLater
    <3> QED
      BY <2>2, <3>1, <3>2, <3>4
  <2> QED
    BY <2>1, <2>2
<1>9. \A v \in Works : Claimed(v)' => Claimed(v)
  BY <1>1 DEF Claimed
<1>10. \A v \in Works : ClaimedOnce(v)'
  BY <1>0, <1>1, <1>9, ClaimsKept
<1> QED
  BY <1>7, <1>8, <1>10 DEF DeliveryInv

\* A crash loses the handlers and their statements, and keeps the tables.
LEMMA DieTrue ==
  ASSUME DeliveryInv, OrderInv', Die
  PROVE  DeliveryInv'
<1>0. /\ GatewayTypeOK /\ RegistryTypeOK /\ \A v \in Works : ClaimedOnce(v)
  BY DEF DeliveryInv, GatewayTypeOK
<1>1. /\ pc' = [w \in Works |-> IF pc[w] \in AtTheDoor \cup InTurn THEN "lost" ELSE pc[w]]
      /\ late' = {} /\ UNCHANGED <<expired, inbound, record, sent, faults>>
      /\ crashes' = crashes + 1 /\ crashes < MaxCrashes
      /\ work' = [w \in Works |-> IF work[w] = "new" THEN "new" ELSE "ended"]
  BY DEF Die, Crash, Restart
<1>2. \A v \in Works : pc'[v] \in {"lost", pc[v]} /\ pc'[v] \notin AtTheDoor \cup InTurn
  BY <1>1 DEF AtTheDoor, InTurn, Delivering
<1>3. crashes' \in 0..MaxCrashes /\ crashes' # 0
  BY <1>0, <1>1, BoundAssumption DEF GatewayTypeOK
<1>4. GatewayTypeOK'
  <2>1. pc' \in [Works -> Stage]
    BY <1>0, <1>1 DEF GatewayTypeOK, Stage
  <2>2. \A v \in Works : pc'[v] \in InTurn <=> work'[v] \in {"queued", "running"}
    BY <1>1, <1>2
  <2>3. RegistryTypeOK'
    BY DEF OrderInv, RegistryInv
  <2> QED
    BY <1>0, <1>1, <1>3, <2>1, <2>2, <2>3 DEF GatewayTypeOK
<1>5. ASSUME NEW v \in Works
      PROVE  Fits(pc[v], record[v], sent[v])' /\ LateTrue(v)' /\ SettledLater(v)'
  <2>1. Fits(pc[v], record[v], sent[v])
    BY InvFacts
  <2>2. Fits(pc'[v], record[v], sent[v])
    BY <1>2, <2>1 DEF Fits, Unsent, Unreserved
  <2> QED
    BY <1>1, <1>3, <2>2 DEF LateTrue, SettledLater
<1>6. \A v \in Works : Claimed(v)' => Claimed(v)
  BY <1>1, <1>2 DEF Claimed, AtTheDoor
<1>7. \A v \in Works : ClaimedOnce(v)'
  BY <1>0, <1>1, <1>6, ClaimsKept
<1> QED
  BY <1>4, <1>5, <1>7 DEF DeliveryInv

\* A callback starts a turn whose handler waits for it; shutdown starts none.
LEMMA RegistryAlone ==
  ASSUME DeliveryInv, OrderInv', UNCHANGED <<handlers, tables, crashes, faults>>,
         (\E s \in Works : Callback(s)) \/ Shutdown \/ UNCHANGED work
  PROVE  DeliveryInv'
<1>0. RegistryTypeOK /\ QueuesTrue
  BY DEF DeliveryInv, OrderInv, RegistryInv
<1>1. ASSUME NEW s \in Works, DrainNext(s)
      PROVE  \A v \in Works : work'[v] \in {"queued", "running"} <=> work[v] \in {"queued", "running"}
  <2>1. PICK q \in Seq(Works) : q = slots[s].queue
    BY <1>0 DEF RegistryTypeOK, Slot
  <2>2. q # <<>> /\ work' = [work EXCEPT ![Head(q)] = "running"]
    BY <1>1, <2>1 DEF DrainNext
  <2>3. Head(q) \in Works /\ Head(q) = q[1] /\ 1 \in 1..Len(q)
    BY <2>2
  <2>4. work[Head(q)] = "queued"
    BY <1>0, <2>1, <2>3 DEF QueuesTrue
  <2> QED
    BY <1>0, <2>2, <2>3, <2>4 DEF RegistryTypeOK
<1>2. \A v \in Works : work'[v] \in {"queued", "running"} <=> work[v] \in {"queued", "running"}
  BY <1>1 DEF Callback, Settle, LoopOn, EndDrain, Shutdown, Close, Closed
<1> QED
  BY <1>2, TablesStay

-----------------------------------------------------------------------------
\* Handlers, delivery rows, late updates and the platform agree, whatever fails, times
\* out, crashes or is delivered twice.
THEOREM DeliveryInvariant == Spec => []DeliveryInv
<1>1. Init => DeliveryInv
  <2> SUFFICES ASSUME Init PROVE DeliveryInv
    OBVIOUS
  <2>1. OrderInv /\ RegistryTypeOK
    BY InitOrder DEF Init, OrderInv, RegistryInv
  <2>2. GatewayTypeOK
    BY <2>1, BoundAssumption DEF Init, RegistryInit, GatewayTypeOK, Stage, InTurn, Delivering,
       RecordStatus
  <2>3. ASSUME NEW w \in Works
        PROVE  /\ Fits(pc[w], record[w], sent[w]) /\ LateTrue(w) /\ SettledLater(w)
               /\ ~ Claimed(w)
    BY DEF Init, Fits, Unsent, Unreserved, LateTrue, SettledLater, Claimed, InTurn, Delivering
  <2> QED
    BY <2>1, <2>2, <2>3 DEF DeliveryInv, ClaimedOnce
<1>2. DeliveryInv /\ [Next]_vars => DeliveryInv'
  <2> SUFFICES ASSUME DeliveryInv, [Next]_vars PROVE DeliveryInv'
    OBVIOUS
  <2>1. OrderInv'
    BY OrderStep, GatewaySteps DEF DeliveryInv
  <2>2. ASSUME NEW w \in Works, Loop(w) PROVE DeliveryInv'
    <3>1. UNCHANGED <<crashes, faults>>
      BY <2>2 DEF Loop
    <3> QED
      BY <2>1, <2>2, <3>1, RecordInboundTrue, SubmitTurnTrue, DeliverTrue, ExpiredInQueue,
         LateTrueStep DEF Loop
  <2>3. ASSUME NEW w \in Works, Outside(w) PROVE DeliveryInv'
    <3>1. UNCHANGED <<crashes, faults>>
      BY <2>3 DEF Outside
    <3> QED
      BY <2>1, <2>3, <3>1, ArriveTrue, RespondTrue, DeliverTrue DEF Outside
  <2>4. ASSUME NEW w \in Works, Timer(w) PROVE DeliveryInv'
    BY <2>1, <2>4, ExpireTrue, ExpiredInQueue DEF Timer
  <2>5. ASSUME NEW w \in Works, Fault(w) PROVE DeliveryInv'
    <3>1. faults' \in 0..MaxFaults /\ faults' >= faults /\ crashes' = crashes
      BY <2>5, BoundAssumption DEF Fault, DeliveryInv, GatewayTypeOK
    <3> QED
      BY <2>1, <2>5, <3>1, StorageFaultTrue, LateTrueStep DEF Fault
  <2>6. ASSUME NEW w \in Works, RunCallback(w) PROVE DeliveryInv'
    BY <2>1, <2>6, RegistryAlone DEF RunCallback
  <2>7. CASE Shutdown /\ UNCHANGED <<handlers, tables, crashes, faults>>
    BY <2>1, <2>7, RegistryAlone
  <2>8. CASE UNCHANGED vars
    BY <2>1, <2>8, RegistryAlone DEF vars, registry
  <2> QED
    BY <2>1, <2>2, <2>3, <2>4, <2>5, <2>6, <2>7, <2>8, DieTrue DEF Next
<1> QED
  BY <1>1, <1>2, PTL DEF Spec

\* FinalDeliveryHandler posts the response to a platform message at most once, however
\* often the message arrives and wherever the process crashes.
THEOREM PostedOnceAlways == Spec => []PostedOnce
<1>1. DeliveryInv => PostedOnce
  <2> SUFFICES ASSUME DeliveryInv PROVE PostedOnce
    OBVIOUS
  <2>1. \A w \in Works : sent[w] \in {0, 1} /\ ClaimedOnce(w)
    BY InvFacts
  <2>2. \A v, w \in Works :
          v # w /\ Message[v] = Message[w] => ~ (sent[v] > 0) \/ ~ (sent[w] > 0)
    BY <2>1 DEF ClaimedOnce, Claimed
  <2>3. ASSUME NEW w \in Works PROVE sent[w] <= 1 /\ (~ (sent[w] > 0) => sent[w] = 0)
    <3>1. sent[w] \in {0, 1}
      BY <2>1
    <3> QED
      BY <3>1
  <2> QED
    BY <2>2, <2>3 DEF PostedOnce
<1> QED
  BY <1>1, DeliveryInvariant, PTL

\* reserveDelivery comes before the send, so a response that was posted has a row.
THEOREM PostLeavesTraceAlways == Spec => []PostLeavesTrace
<1>1. DeliveryInv => PostLeavesTrace
  <2> SUFFICES ASSUME DeliveryInv, NEW w \in Works, sent[w] > 0 PROVE record[w] # "none"
    BY DEF PostLeavesTrace
  <2>1. sent[w] \in {0, 1} /\ Fits(pc[w], record[w], sent[w])
    BY InvFacts
  <2>2. sent[w] = 1
    BY <2>1
  <2> QED
    BY <2>1, <2>2 DEF Fits
<1> QED
  BY <1>1, DeliveryInvariant, PTL

\* A row that says delivered follows a post, and the answer of handleInbound is what the
\* row says, also with late updates under way.
THEOREM RecordTruthfulAlways == Spec => []RecordTruthful
<1>1. DeliveryInv => RecordTruthful
  <2> SUFFICES ASSUME DeliveryInv, NEW w \in Works
               PROVE  /\ record[w] = "delivered" => sent[w] = 1
                      /\ pc[w] \in {"delivered", "failed", "ambiguous"} => record[w] = pc[w]
                      /\ pc[w] \in {"blocked", "no_response", "closed", "duplicate"} => sent[w] = 0
    BY DEF RecordTruthful
  <2>1. Fits(pc[w], record[w], sent[w])
    BY InvFacts
  <2> QED
    BY <2>1 DEF Fits, Unsent, Unreserved
<1> QED
  BY <1>1, DeliveryInvariant, PTL

\* A turn that its deadline ended after the post leaves a settled row once its late
\* updates are done, when no statement failed and no process died.
THEOREM TimeoutIsRecordedAlways == Spec => []TimeoutIsRecorded
<1>1. DeliveryInv => TimeoutIsRecorded
  BY DEF DeliveryInv, SettledLater, TimeoutIsRecorded
<1> QED
  BY <1>1, DeliveryInvariant, PTL

\* The gateway serves the turns of a conversation in the order it submitted them.
THEOREM GatewayServesInOrder == Spec => []FirstComeFirstServed
BY GatewayUsesRegistry, FirstComeFirstServedAlways, PTL
=============================================================================
