--------------------------- MODULE ChannelGateway ---------------------------
(***************************************************************************)
(* ChannelGateway.handleInbound with the turn it submits and the delivery  *)
(* that ends it (FinalDeliveryHandler over PostgresDeliveryRepository).    *)
(*                                                                         *)
(* A work of the registry is one arrival of a platform message; a message  *)
(* that the platform delivers twice is two of them.  Every await of a turn *)
(* races the deadline of the turn.  When the deadline wins, the turn ends, *)
(* but what it was waiting for is still under way: the statements that may *)
(* yet change the delivery record are in "late".                           *)
(***************************************************************************)
EXTENDS TurnRegistry

CONSTANTS
  Message,     \* the platform message an arrival carries
  MaxCrashes,  \* bound on crashes of the process
  MaxFaults    \* bound on statements that fail

ASSUME BoundAssumption == MaxCrashes \in Nat /\ MaxFaults \in Nat

VARIABLES
  pc,        \* what the handler of an arrival awaits, or what it answered
  expired,   \* arrivals whose deadline passed
  inbound,   \* messages with a row in channel_messages
  record,    \* status of the delivery row, "none" while there is no row
  sent,      \* how often the platform posted the response
  late,      \* updates of delivery rows whose handler is gone
  crashes, faults

handlers == <<pc, expired>>
tables == <<inbound, record, sent, late>>
vars == <<registry, handlers, tables, crashes, faults>>

\* Awaits of handleInbound before the turn.
AtTheDoor == {"insert", "inserted"}

\* Awaits of a turn; "queued" arrivals are in "turn" as well.
Delivering == {"reserve", "reserved", "send", "posted", "mark", "marked",
               "mark_failed", "mark_ambiguous"}
InTurn == {"turn"} \cup Delivering

\* Answers of handleInbound; "threw" is a rejected promise.
Answered == {"duplicate", "closed", "timed_out", "no_response", "blocked",
             "delivered", "failed", "ambiguous", "threw"}

Stage == {"away", "lost"} \cup AtTheDoor \cup InTurn \cup Answered

RecordStatus == {"none", "pending", "delivered", "failed", "ambiguous"}

\* A handler is in its turn while the registry has its turn.
GatewayTypeOK ==
  /\ RegistryTypeOK
  /\ pc \in [Works -> Stage]
  /\ \A w \in Works : pc[w] \in InTurn <=> work[w] \in {"queued", "running"}
  /\ expired \subseteq Works
  /\ inbound \subseteq {Message[w] : w \in Works}
  /\ record \in [Works -> RecordStatus]
  /\ sent \in [Works -> Nat]
  /\ late \subseteq Works \X {"delivered", "failed", "ambiguous"}
  /\ crashes \in 0..MaxCrashes
  /\ faults \in 0..MaxFaults

Init ==
  /\ RegistryInit
  /\ pc = [w \in Works |-> "away"]
  /\ expired = {}
  /\ inbound = {}
  /\ record = [w \in Works |-> "none"]
  /\ sent = [w \in Works |-> 0]
  /\ late = {}
  /\ crashes = 0
  /\ faults = 0

-----------------------------------------------------------------------------
Goto(w, l) ==
  /\ pc' = [pc EXCEPT ![w] = l]
  /\ UNCHANGED expired

\* The turn of w is running and awaits l, and its deadline has not passed.
Awaits(w, l) == pc[w] = l /\ work[w] = "running" /\ w \notin expired

\* From one await of the turn to the next, on what the database did meanwhile.
Step(w, from, to) ==
  /\ Awaits(w, from)
  /\ Goto(w, to)
  /\ UNCHANGED registry

\* The turn ends with answer a.
Answer(w, from, a) ==
  /\ Awaits(w, from)
  /\ EndTurn(w)
  /\ Goto(w, a)

-----------------------------------------------------------------------------
(* handleInbound.                                                            *)

Arrive(w) ==
  /\ pc[w] = "away"
  /\ gate # "closed"
  /\ Goto(w, "insert")
  /\ UNCHANGED <<registry, tables>>

\* (seeded fault: the row is looked up and not inserted under its constraint)
InsertAlways(w) ==
  /\ pc[w] = "insert"
  /\ inbound' = inbound \cup {Message[w]}
  /\ Goto(w, "inserted")
  /\ UNCHANGED <<registry, record, sent, late>>

\* recordInboundMessage: INSERT ... ON CONFLICT DO NOTHING.
RecordInbound(w) ==
  /\ pc[w] = "insert"
  /\ inbound' = inbound \cup {Message[w]}
  /\ Goto(w, IF Message[w] \in inbound THEN "duplicate" ELSE "inserted")
  /\ UNCHANGED <<registry, record, sent, late>>

\* The deadline starts, and the turn is submitted.
SubmitTurn(w) ==
  /\ pc[w] = "inserted"
  /\ Submit(w)
  /\ Goto(w, IF gate = "open" THEN "turn" ELSE "closed")
  /\ UNCHANGED tables

-----------------------------------------------------------------------------
(* runRecordedTurn and deliver, up to the answer of each await.              *)

\* The orchestrator answers; the output processors may block the response.
Respond(w) ==
  /\ \/ Step(w, "turn", "reserve")
     \/ Answer(w, "turn", "blocked")
     \/ Answer(w, "turn", "no_response")
  /\ UNCHANGED tables

\* reserveDelivery inserts the row; its answer lets the send begin.
Reserve(w) ==
  /\ Step(w, "reserve", "reserved")
  /\ record' = [record EXCEPT ![w] = "pending"]
  /\ UNCHANGED <<inbound, sent, late>>

\* (seeded fault: the send does not wait for the reservation)
SendAtOnce(w) ==
  /\ Step(w, "reserve", "send") \/ Step(w, "reserved", "send")
  /\ UNCHANGED tables

StartSend(w) ==
  /\ Step(w, "reserved", "send")
  /\ UNCHANGED tables

\* The platform posts the message.
Post(w) ==
  /\ Step(w, "send", "posted")
  /\ sent' = [sent EXCEPT ![w] = @ + 1]
  /\ UNCHANGED <<inbound, record, late>>

\* It refuses it, or its answer is lost, or is an error, or cannot be read: a
\* lost connection is ambiguous, every other error counts as a failure.
SendFails(w) ==
  /\ \E from \in {"send", "posted"}, to \in {"mark_failed", "mark_ambiguous"} :
       Step(w, from, to)
  /\ UNCHANGED tables

\* (seeded fault: an answer that refuses the message counts as a success)
SendReturnsAnyway(w) ==
  /\ Step(w, "send", "mark") \/ Step(w, "posted", "mark")
  /\ UNCHANGED tables

SendReturns(w) ==
  /\ Step(w, "posted", "mark")
  /\ UNCHANGED tables

MarkDelivered(w) ==
  /\ Step(w, "mark", "marked")
  /\ record' = [record EXCEPT ![w] = "delivered"]
  /\ UNCHANGED <<inbound, sent, late>>

Delivered(w) ==
  /\ Answer(w, "marked", "delivered")
  /\ UNCHANGED tables

MarkDeliveryFailed(w) ==
  /\ \E s \in {"failed", "ambiguous"} :
       /\ Answer(w, IF s = "failed" THEN "mark_failed" ELSE "mark_ambiguous", s)
       /\ record' = [record EXCEPT ![w] = s]
  /\ UNCHANGED <<inbound, sent, late>>

-----------------------------------------------------------------------------
(* The deadline.                                                             *)

\* (seeded fault: an aborted send is not recorded)
LateUpdatesOfMark(l) ==
  {s \in {"delivered", "failed", "ambiguous"} :
     \/ s = "ambiguous" /\ l \in {"mark", "mark_ambiguous"}
     \/ s = "delivered" /\ l = "mark"
     \/ s = "failed" /\ l = "mark_failed"}

\* The updates still under way when the deadline ends an await of the turn: an
\* aborted send is recorded as ambiguous, an UPDATE goes on.
LateUpdates(l) ==
  {s \in {"delivered", "failed", "ambiguous"} :
     \/ s = "ambiguous" /\ l \in {"send", "posted", "mark", "marked", "mark_ambiguous"}
     \/ s = "delivered" /\ l = "mark"
     \/ s = "failed" /\ l = "mark_failed"}

\* The timer of a queued turn only marks it.  An aborted INSERT or send may
\* still have happened.
Expire(w) ==
  /\ pc[w] \in InTurn
  /\ w \notin expired
  /\ expired' = expired \cup {w}
  /\ IF work[w] = "queued"
     THEN UNCHANGED <<registry, pc, tables>>
     ELSE /\ EndTurn(w)
          /\ pc' = [pc EXCEPT ![w] = "timed_out"]
          /\ late' = late \cup {<<w, s>> : s \in LateUpdates(pc[w])}
          /\ \/ UNCHANGED <<record, sent>>
             \/ /\ pc[w] = "reserve"
                /\ record' = [record EXCEPT ![w] = "pending"]
                /\ UNCHANGED sent
             \/ /\ pc[w] = "send"
                /\ sent' = [sent EXCEPT ![w] = @ + 1]
                /\ UNCHANGED record
          /\ UNCHANGED inbound

\* A turn that expired in the queue ends when its time comes.
StartExpired(w) ==
  /\ pc[w] = "turn" /\ work[w] = "running" /\ w \in expired
  /\ EndTurn(w)
  /\ Goto(w, "timed_out")
  /\ UNCHANGED tables

LateUpdate(w, s) ==
  /\ <<w, s>> \in late
  /\ late' = late \ {<<w, s>>}
  /\ record' = [record EXCEPT ![w] = s]
  /\ UNCHANGED <<registry, handlers, inbound, sent>>

-----------------------------------------------------------------------------
(* Faults, shutdown, restart.                                                *)

\* A statement fails.  deliver takes a failed markDelivered for a failed send.
StorageFault(w) ==
  /\ \/ pc[w] = "insert" /\ Goto(w, "threw") /\ UNCHANGED registry
     \/ Answer(w, "reserve", "threw")
     \/ Step(w, "mark", "mark_failed")
     \/ Answer(w, "mark_failed", "threw")
     \/ Answer(w, "mark_ambiguous", "threw")
  /\ UNCHANGED tables

LateFault(w, s) ==
  /\ <<w, s>> \in late
  /\ late' = late \ {<<w, s>>}
  /\ UNCHANGED <<registry, handlers, inbound, record, sent>>

\* The process dies, or ends after its shutdown, and is started again.
Crash ==
  /\ Restart
  /\ pc' = [w \in Works |-> IF pc[w] \in AtTheDoor \cup InTurn THEN "lost" ELSE pc[w]]
  /\ late' = {}
  /\ UNCHANGED <<expired, inbound, record, sent>>

-----------------------------------------------------------------------------
\* Steps of the event loop and of PostgreSQL.
Loop(w) ==
  /\ \/ RecordInbound(w) \/ SubmitTurn(w)
     \/ Reserve(w) \/ StartSend(w) \/ MarkDelivered(w) \/ Delivered(w)
     \/ MarkDeliveryFailed(w) \/ StartExpired(w)
     \/ \E s \in {"delivered", "failed", "ambiguous"} : LateUpdate(w, s)
  /\ UNCHANGED <<crashes, faults>>

RunCallback(s) == Callback(s) /\ UNCHANGED <<handlers, tables, crashes, faults>>

Timer(w) == Expire(w) /\ UNCHANGED <<crashes, faults>>

\* Steps of the platform, of the model and of the operator.
Outside(w) ==
  /\ \/ Arrive(w) \/ Respond(w) \/ Post(w) \/ SendFails(w) \/ SendReturns(w)
  /\ UNCHANGED <<crashes, faults>>

Fault(w) ==
  /\ faults < MaxFaults
  /\ faults' = faults + 1
  /\ StorageFault(w) \/ \E s \in {"delivered", "failed", "ambiguous"} : LateFault(w, s)
  /\ UNCHANGED crashes

Die == crashes < MaxCrashes /\ crashes' = crashes + 1 /\ Crash /\ UNCHANGED faults

Shutdown == Close \/ Closed

Next ==
  \/ \E w \in Works : Loop(w) \/ RunCallback(w) \/ Timer(w) \/ Outside(w) \/ Fault(w)
  \/ Shutdown /\ UNCHANGED <<handlers, tables, crashes, faults>>
  \/ Die

Spec == Init /\ [][Next]_vars

\* The event loop runs its callbacks and timers.  Neither the model nor the
\* platform nor the database need ever answer.
FairSpec ==
  /\ Spec
  /\ \A w \in Works : WF_vars(RunCallback(w)) /\ WF_vars(Timer(w))
  /\ \A w \in Works : WF_vars(StartExpired(w) /\ UNCHANGED <<crashes, faults>>)

-----------------------------------------------------------------------------
(* Properties.                                                               *)

\* The response to a platform message is posted at most once, although the
\* platform may deliver the message twice and the process may crash.
PostedOnce ==
  /\ \A w \in Works : sent[w] <= 1
  /\ \A v, w \in Works :
       v # w /\ Message[v] = Message[w] => sent[v] = 0 \/ sent[w] = 0

\* A response that was posted has left a delivery record, whatever crashed.
PostLeavesTrace == \A w \in Works : sent[w] > 0 => record[w] # "none"

\* The record agrees with the platform, and the answer of the handler with the
\* record, also when late updates of expired turns are still under way.
RecordTruthful ==
  \A w \in Works :
    /\ record[w] = "delivered" => sent[w] = 1
    /\ pc[w] \in {"delivered", "failed", "ambiguous"} => record[w] = pc[w]
    /\ pc[w] \in {"blocked", "no_response", "closed", "duplicate"} => sent[w] = 0

\* When nothing but the deadline went wrong, a turn that ended by its deadline
\* after its response was posted leaves a settled record, never a pending one.
TimeoutIsRecorded ==
  \A w \in Works :
    pc[w] = "timed_out" /\ sent[w] > 0 /\ late = {} /\ crashes = 0 /\ faults = 0 =>
      record[w] # "pending"

-----------------------------------------------------------------------------
(* The inductive invariant behind the properties of deliveries.              *)

\* Awaits and answers before the row is reserved, and before the send can post.
Unreserved == {"away", "insert", "inserted", "turn", "reserve",
               "duplicate", "closed", "blocked", "no_response"}
Unsent == Unreserved \cup {"reserved", "send"}

\* What the handler awaits or has answered, the row and the platform agree.
Fits(l, r, n) ==
  /\ n \in {0, 1}
  /\ l \in Unsent => n = 0
  /\ l \in {"posted", "mark", "marked"} => n = 1
  /\ l \in Unreserved => r = "none"
  /\ l \in {"reserved", "send", "posted", "mark", "mark_failed", "mark_ambiguous"} =>
       r = "pending"
  /\ l = "marked" => r = "delivered"
  /\ l \in {"delivered", "failed", "ambiguous"} => r = l
  /\ n = 1 => r # "none"
  /\ r = "delivered" => n = 1

\* Updates are late for turns that their deadline ended; one that says delivered
\* follows a post.
LateTrue(w) ==
  \A s \in {"delivered", "failed", "ambiguous"} : <<w, s>> \in late =>
    /\ pc[w] = "timed_out" /\ record[w] # "none"
    /\ s = "delivered" => sent[w] = 1

\* After a post the deadline leaves a settled row, or an update that will settle it.
SettledLater(w) ==
  pc[w] = "timed_out" /\ sent[w] > 0 /\ crashes = 0 /\ faults = 0 =>
    record[w] # "pending" \/ \E s \in {"delivered", "failed", "ambiguous"} : <<w, s>> \in late

\* An arrival has its message to itself once it has inserted the row of the message.
Claimed(w) == sent[w] > 0 \/ pc[w] \in {"inserted"} \cup InTurn
ClaimedOnce(w) ==
  Claimed(w) =>
    /\ Message[w] \in inbound
    /\ \A v \in Works : v # w /\ Message[v] = Message[w] => ~ Claimed(v)

\* Turns are in order, and every arrival agrees with its row and with the platform.
DeliveryInv ==
  /\ OrderInv
  /\ GatewayTypeOK
  /\ \A w \in Works : /\ Fits(pc[w], record[w], sent[w])
                      /\ LateTrue(w) /\ SettledLater(w) /\ ClaimedOnce(w)
=============================================================================
