------------------------- MODULE TurnRegistryProofs -------------------------
(***************************************************************************)
(* Proofs about TurnRegistry: for any number of turns and conversations no *)
(* two turns of one conversation run at the same time, also when a call    *)
(* overtakes the callback that settles the turn before it; turns start in  *)
(* the order they were accepted, and shutdown returns after the last one.  *)
(***************************************************************************)
EXTENDS TurnRegistry, TLAPS

\* A new queue has its type.
LEMMA EmptyQueue == <<>> \in Seq(Works)
OBVIOUS

\* A new slot has its type.
LEMMA NewSlotType == NewSlot \in Slot
BY EmptyQueue DEF NewSlot, Slot, Job

\* The three ways a slot changes its fields keep it a slot.
LEMMA SlotUpdate ==
  ASSUME NEW sl \in Slot, NEW w \in Works
  PROVE  /\ [sl EXCEPT !.queue = Append(@, w)] \in Slot
         /\ [sl EXCEPT !.active = w] \in Slot
         /\ \A j \in Job : [sl EXCEPT !.active = None, !.job = j] \in Slot
         /\ \A j \in Job : [sl EXCEPT !.job = j] \in Slot
         /\ \A j \in Job : [sl EXCEPT !.draining = FALSE, !.job = j] \in Slot
<1>1. [sl EXCEPT !.queue = Append(@, w)] \in Slot
  <2>1. Append(sl.queue, w) \in Seq(Works)
    BY DEF Slot
  <2> QED
    BY <2>1 DEF Slot
<1>2. [sl EXCEPT !.active = w] \in Slot
  BY DEF Slot
<1>3. \A j \in Job : [sl EXCEPT !.active = None, !.job = j] \in Slot
  BY DEF Slot
<1>4. \A j \in Job : [sl EXCEPT !.job = j] \in Slot
  BY DEF Slot
<1>5. \A j \in Job : [sl EXCEPT !.draining = FALSE, !.job = j] \in Slot
  BY DEF Slot
<1> QED
  BY <1>1, <1>2, <1>3, <1>4, <1>5

\* An empty registry agrees with itself.
LEMMA InitInv == RegistryInit => RegistryInv
<1> SUFFICES ASSUME RegistryInit PROVE RegistryInv
  OBVIOUS
<1> USE WorkAssumption DEF RegistryInit
<1>1. RegistryTypeOK
  <2>1. slots \in [Works -> Slot]
    BY NewSlotType
  <2>2. order \in [Conversations -> Seq(Works)]
    BY EmptyQueue
  <2> QED
    BY <2>1, <2>2 DEF RegistryTypeOK, NewSlot, WorkStatus
<1>2. SlotsKept
  BY DEF SlotsKept, Busy, NewSlot
<1>3. JobsIdle /\ RunningInSlot /\ QueueOfConversation
  BY DEF JobsIdle, RunningInSlot, QueueOfConversation, NewSlot
<1> QED
  BY <1>1, <1>2, <1>3 DEF RegistryInv

\* submit refuses, queues in the slot of its conversation, or runs in an idle one.
LEMMA SubmitInv ==
  ASSUME RegistryInv, NEW w \in Works, Submit(w)
  PROVE  RegistryInv'
<1> DEFINE c == Conv[w]
           s == IF slotAt[c] = None THEN w ELSE slotAt[c]
<1> USE WorkAssumption
<1>0. /\ RegistryTypeOK /\ SlotsKept /\ JobsIdle /\ RunningInSlot /\ QueueOfConversation
      /\ work[w] = "new" /\ c \in Conversations
  BY DEF RegistryInv, Submit
<1>1. s \in Works /\ Conv[s] = c
  BY <1>0 DEF RegistryTypeOK, SlotsKept
<1>2. \A r \in Works : slots[r].active # w
  BY <1>0 DEF RunningInSlot
<1>3. CASE gate # "open"
  <2>1. work' = [work EXCEPT ![w] = "refused"] /\ UNCHANGED <<gate, slotAt, slots, order, coupled>>
    BY <1>3 DEF Submit
  <2>2. RegistryTypeOK'
    BY <1>0, <2>1 DEF RegistryTypeOK, WorkStatus
  <2>3. RunningInSlot'
    BY <1>0, <1>2, <2>1 DEF RunningInSlot, RegistryTypeOK
  <2>4. SlotsKept' /\ JobsIdle' /\ QueueOfConversation'
    BY <1>0, <2>1 DEF SlotsKept, Busy, JobsIdle, QueueOfConversation
  <2> QED
    BY <2>2, <2>3, <2>4 DEF RegistryInv
<1>4. CASE gate = "open" /\ Busy(s)
  <2>1. /\ slotAt' = [slotAt EXCEPT ![c] = s]
        /\ order' = [order EXCEPT ![c] = Append(@, w)]
        /\ coupled' = (coupled \/ Unsettled(s))
        /\ slots' = [slots EXCEPT ![s].queue = Append(@, w)]
        /\ work' = [work EXCEPT ![w] = "queued"]
        /\ gate' = gate
    BY <1>4 DEF Submit
  <2>2. RegistryTypeOK'
    <3>1. slots' \in [Works -> Slot]
      BY <1>0, <1>1, <2>1, SlotUpdate DEF RegistryTypeOK
    <3>2. order' \in [Conversations -> Seq(Works)]
      <4>1. Append(order[c], w) \in Seq(Works)
        BY <1>0 DEF RegistryTypeOK
      <4> QED
        BY <1>0, <2>1, <4>1 DEF RegistryTypeOK
    <3>3. \A r \in Works : slots'[r].job = slots[r].job /\ slots'[r].draining = slots[r].draining
      BY <1>0, <1>1, <2>1 DEF RegistryTypeOK, Slot
    <3> QED
      BY <1>0, <1>1, <2>1, <3>1, <3>2, <3>3 DEF RegistryTypeOK, WorkStatus, Unsettled
  <2>3. SlotsKept' /\ JobsIdle'
    <3>1. /\ \A r \in Works : slots'[r].job = slots[r].job /\ slots'[r].active = slots[r].active
                               /\ slots'[r].draining = slots[r].draining
          /\ \A r \in Works \ {s} : slots'[r].queue = slots[r].queue
      BY <1>0, <1>1, <2>1 DEF RegistryTypeOK, Slot
    <3>2. /\ slotAt'[c] = s
          /\ \A d \in Conversations \ {c} : slotAt'[d] = slotAt[d]
      BY <1>0, <2>1 DEF RegistryTypeOK
    <3>3. Conv[s] = c /\ \A r \in Works : Conv[r] \in Conversations
      BY <1>1
    <3>4. JobsIdle'
      BY <1>0, <3>1 DEF JobsIdle
    <3>5. ASSUME NEW r \in Works \ {s}, Busy(r)' \/ slots'[r].queue # <<>> \/ slots'[r].job # "none"
          PROVE  slotAt'[Conv[r]] = r
      <4>1. slotAt[Conv[r]] = r
        BY <1>0, <3>1, <3>5 DEF SlotsKept, Busy
      <4> QED
        BY <3>2, <3>3, <4>1, WorkAssumption
    <3>6. \A d \in Conversations : slotAt'[d] # None => Conv[slotAt'[d]] = d
      BY <1>0, <3>2, <3>3 DEF SlotsKept
    <3> QED
      BY <3>2, <3>3, <3>4, <3>5, <3>6 DEF SlotsKept
  <2>4. RunningInSlot'
    BY <1>0, <1>1, <1>2, <2>1, SMTT(30) DEF RunningInSlot, RegistryTypeOK, Slot
  <2>5. QueueOfConversation'
    <3>1. slots[s].queue \in Seq(Works) /\ slots'[s].queue = Append(slots[s].queue, w)
      BY <1>0, <1>1, <2>1 DEF RegistryTypeOK, Slot
    <3>2. \A r \in Works \ {s} : slots'[r] = slots[r]
      BY <1>0, <1>1, <2>1 DEF RegistryTypeOK
    <3>3. \A i \in 1..Len(slots'[s].queue) : Conv[slots'[s].queue[i]] = Conv[s]
      <4> DEFINE q == slots[s].queue
      <4>1. q \in Seq(Works) /\ slots'[s].queue = Append(q, w)
        BY <3>1
      <4>2. \A i \in 1..Len(q) : Conv[q[i]] = Conv[s]
        BY <1>0, <1>1 DEF QueueOfConversation
      <4> HIDE DEF q
      <4>3. Len(Append(q, w)) = Len(q) + 1 /\ \A i \in 1..Len(q) : Append(q, w)[i] = q[i]
            /\ Append(q, w)[Len(q) + 1] = w /\ Len(q) \in Nat
        BY <4>1
      <4> QED
        BY <1>1, <4>1, <4>2, <4>3
    <3> QED
      BY <1>0, <3>2, <3>3 DEF QueueOfConversation
  <2> QED
    BY <2>2, <2>3, <2>4, <2>5 DEF RegistryInv
<1>5. CASE gate = "open" /\ ~ Busy(s)
  <2>1. /\ slotAt' = [slotAt EXCEPT ![c] = s]
        /\ order' = [order EXCEPT ![c] = Append(@, w)]
        /\ coupled' = (coupled \/ Unsettled(s))
        /\ slots' = [slots EXCEPT ![s].active = w]
        /\ work' = [work EXCEPT ![w] = "running"]
        /\ gate' = gate
    BY <1>5 DEF Submit
  <2>2. RegistryTypeOK'
    <3>1. slots' \in [Works -> Slot]
      BY <1>0, <1>1, <2>1, SlotUpdate DEF RegistryTypeOK
    <3>2. order' \in [Conversations -> Seq(Works)]
      <4>1. Append(order[c], w) \in Seq(Works)
        BY <1>0 DEF RegistryTypeOK
      <4> QED
        BY <1>0, <2>1, <4>1 DEF RegistryTypeOK
    <3>3. \A r \in Works : slots'[r].job = slots[r].job /\ slots'[r].draining = slots[r].draining
      BY <1>0, <1>1, <2>1 DEF RegistryTypeOK, Slot
    <3> QED
      BY <1>0, <1>1, <2>1, <3>1, <3>2, <3>3 DEF RegistryTypeOK, WorkStatus, Unsettled
  <2>3. SlotsKept'
    BY <1>0, <1>1, <2>1 DEF SlotsKept, Busy, RegistryTypeOK, Slot
  <2>4. JobsIdle'
    BY <1>0, <1>1, <1>5, <2>1 DEF JobsIdle, Busy, RegistryTypeOK, Slot
  <2>5. RunningInSlot'
    BY <1>0, <1>1, <1>2, <1>5, <2>1 DEF RunningInSlot, RegistryTypeOK, Slot, Busy
  <2>6. QueueOfConversation'
    BY <1>0, <1>1, <2>1 DEF QueueOfConversation, RegistryTypeOK, Slot
  <2> QED
    BY <2>2, <2>3, <2>4, <2>5, <2>6 DEF RegistryInv
<1> QED
  BY <1>3, <1>4, <1>5 DEF Submit

\* The turn that ends runs in one slot only, which keeps its place in the Map.
LEMMA EndTurnInv ==
  ASSUME RegistryInv, NEW w \in Works, EndTurn(w)
  PROVE  RegistryInv'
<1> USE WorkAssumption
<1>0. RegistryTypeOK /\ SlotsKept /\ JobsIdle /\ RunningInSlot /\ QueueOfConversation
  BY DEF RegistryInv
<1>1. PICK s \in Works :
        /\ slots[s].active = w
        /\ slots[s].job = "none"
        /\ slots' = [slots EXCEPT ![s].active = None,
                       ![s].job = IF slots[s].draining THEN "loop" ELSE "direct"]
        /\ work' = [work EXCEPT ![w] = "ended"]
        /\ UNCHANGED <<gate, slotAt, order, coupled>>
  BY DEF EndTurn
<1>2. \A r \in Works : slots[r].active = w => r = s
  BY <1>0, <1>1 DEF RunningInSlot, SlotsKept, Busy
<1>3. RegistryTypeOK'
  <2>1. slots' \in [Works -> Slot]
    BY <1>0, <1>1, SlotUpdate DEF RegistryTypeOK, Job
  <2> QED
    BY <1>0, <1>1, <2>1 DEF RegistryTypeOK, WorkStatus, Slot
<1>4. SlotsKept'
  BY <1>0, <1>1 DEF SlotsKept, Busy, RegistryTypeOK, Slot
<1>5. JobsIdle'
  BY <1>0, <1>1 DEF JobsIdle, RegistryTypeOK, Slot
<1>6. RunningInSlot'
  <2>1. /\ slots'[s].active = None /\ work'[w] = "ended"
        /\ \A r \in Works \ {s} : slots'[r] = slots[r]
        /\ \A v \in Works \ {w} : work'[v] = work[v]
    BY <1>0, <1>1 DEF RegistryTypeOK, Slot
  <2>2. \A r \in Works \ {s} : slots[r].active # w /\ slots[r].active \in Works \cup {None}
    BY <1>0, <1>2 DEF RegistryTypeOK, Slot
  <2>3. ASSUME NEW r \in Works, slots'[r].active # None
        PROVE  work'[slots'[r].active] = "running" /\ Conv[slots'[r].active] = Conv[r]
    BY <1>0, <2>1, <2>2, <2>3 DEF RunningInSlot
  <2>4. ASSUME NEW v \in Works, work'[v] = "running"
        PROVE  \E r \in Works : slots'[r].active = v
    <3>1. PICK r \in Works : slots[r].active = v
      BY <1>0, <2>1, <2>4 DEF RunningInSlot
    <3>2. r # s
      BY <1>1, <2>1, <2>4, <3>1
    <3> QED
      BY <2>1, <3>1, <3>2
  <2> QED
    BY <2>3, <2>4 DEF RunningInSlot
<1>7. QueueOfConversation'
  BY <1>0, <1>1 DEF QueueOfConversation, RegistryTypeOK, Slot
<1> QED
  BY <1>3, <1>4, <1>5, <1>6, <1>7 DEF RegistryInv

\* The drain starts the head of the queue in a slot where nothing runs.
LEMMA DrainNextInv ==
  ASSUME RegistryInv, NEW s \in Works, DrainNext(s), slots[s].active = None,
         UNCHANGED <<gate, order, coupled>>
  PROVE  RegistryInv'
<1> DEFINE q == slots[s].queue
           w == Head(q)
<1> USE WorkAssumption
<1>0. /\ RegistryTypeOK /\ SlotsKept /\ JobsIdle /\ RunningInSlot /\ QueueOfConversation
      /\ q # <<>> /\ q \in Seq(Works)
  BY DEF RegistryInv, DrainNext, RegistryTypeOK, Slot
<1>1. w \in Works /\ Conv[w] = Conv[s]
  BY <1>0 DEF QueueOfConversation
<1>2. Tail(q) \in Seq(Works) /\ \A i \in 1..Len(Tail(q)) : Conv[Tail(q)[i]] = Conv[s]
  BY <1>0 DEF QueueOfConversation
<1>3. /\ slots' = [slots EXCEPT ![s] = [active |-> w, queue |-> Tail(q),
                                       draining |-> TRUE, job |-> "none"]]
      /\ work' = [work EXCEPT ![w] = "running"]
      /\ UNCHANGED <<gate, slotAt, order, coupled>>
  BY <1>0 DEF DrainNext, RegistryTypeOK
<1>4. [active |-> w, queue |-> Tail(q), draining |-> TRUE, job |-> "none"] \in Slot
  BY <1>1, <1>2 DEF Slot, Job
<1> HIDE DEF w, q
<1>5. RegistryTypeOK'
  BY <1>0, <1>1, <1>3, <1>4 DEF RegistryTypeOK, WorkStatus
<1>6. SlotsKept'
  BY <1>0, <1>3 DEF SlotsKept, Busy, RegistryTypeOK, q
<1>7. JobsIdle'
  BY <1>0, <1>3 DEF JobsIdle, RegistryTypeOK
<1>8. RunningInSlot'
  BY <1>0, <1>1, <1>3 DEF RunningInSlot, RegistryTypeOK, Slot
<1>9. QueueOfConversation'
  BY <1>0, <1>2, <1>3 DEF QueueOfConversation, RegistryTypeOK
<1> QED
  BY <1>5, <1>6, <1>7, <1>8, <1>9 DEF RegistryInv

\* A slot comes to rest after its last job.
LEMMA RestInv ==
  ASSUME RegistryInv, NEW s \in Works, NEW d \in BOOLEAN,
         slots[s].job # "none", d => slots[s].draining,
         slots' = [slots EXCEPT ![s].draining = d, ![s].job = "none"],
         DropSlot(s), Busy(s)' \/ slots[s].queue = <<>>,
         UNCHANGED <<gate, work, order, coupled>>
  PROVE  RegistryInv'
<1> USE WorkAssumption
<1>0. RegistryTypeOK /\ SlotsKept /\ JobsIdle /\ RunningInSlot /\ QueueOfConversation
  BY DEF RegistryInv
<1>1. RegistryTypeOK'
  <2>1. [slots[s] EXCEPT !.draining = d, !.job = "none"] \in Slot
    BY <1>0 DEF RegistryTypeOK, Slot, Job
  <2>2. slots' \in [Works -> Slot]
    BY <1>0, <2>1 DEF RegistryTypeOK
  <2>3. slotAt' \in [Conversations -> Works \cup {None}]
    BY <1>0 DEF RegistryTypeOK, DropSlot
  <2> QED
    BY <1>0, <2>2, <2>3 DEF RegistryTypeOK, Slot
<1>2. slotAt[Conv[s]] = s
  BY <1>0 DEF SlotsKept
<1>3. \A r \in Works \ {s} : slots'[r] = slots[r]
  BY <1>0 DEF RegistryTypeOK
<1>4. /\ slots'[s].active = slots[s].active /\ slots'[s].queue = slots[s].queue
      /\ slots'[s].job = "none"
  BY <1>0 DEF RegistryTypeOK, Slot
<1>5. SlotsKept'
  BY <1>0, <1>2, <1>3, <1>4 DEF SlotsKept, DropSlot, Busy, RegistryTypeOK
<1>6. JobsIdle'
  BY <1>0, <1>3, <1>4 DEF JobsIdle
<1>7. RunningInSlot'
  <2>1. \A r \in Works : slots'[r].active = slots[r].active
    BY <1>3, <1>4
  <2>2. ASSUME NEW r \in Works, slots'[r].active # None
        PROVE  work'[slots'[r].active] = "running" /\ Conv[slots'[r].active] = Conv[r]
    BY <1>0, <2>1, <2>2 DEF RunningInSlot
  <2>3. ASSUME NEW w \in Works, work'[w] = "running"
        PROVE  \E r \in Works : slots'[r].active = w
    <3>1. PICK r \in Works : slots[r].active = w
      BY <1>0, <2>3 DEF RunningInSlot
    <3> QED
      BY <2>1, <3>1
  <2> QED
    BY <2>2, <2>3 DEF RunningInSlot
<1>8. QueueOfConversation'
  <2>1. \A r \in Works : slots'[r].queue = slots[r].queue
    BY <1>3, <1>4
  <2> QED
    BY <1>0, <2>1, ZenonT(30) DEF QueueOfConversation
<1> QED
  BY <1>1, <1>5, <1>6, <1>7, <1>8 DEF RegistryInv

\* The jobs after a turn, between two turns of a drain, and after the drain.
LEMMA CallbackInv ==
  ASSUME RegistryInv, NEW s \in Works, Callback(s)
  PROVE  RegistryInv'
<1>0. RegistryTypeOK /\ JobsIdle /\ slots[s] \in Slot /\ UNCHANGED <<gate, order, coupled>>
  BY DEF RegistryInv, RegistryTypeOK, Callback
<1>1. CASE Settle(s)
  <2>1. CASE ~ Busy(s) /\ DrainNext(s)
    BY <1>0, <2>1, DrainNextInv DEF Busy
  <2>2. CASE (Busy(s) \/ slots[s].queue = <<>>) /\ slots' = [slots EXCEPT ![s].job = "none"]
             /\ DropSlot(s) /\ UNCHANGED work
    <3>1. slots' = [slots EXCEPT ![s].draining = slots[s].draining, ![s].job = "none"]
      BY <1>0, <2>2 DEF RegistryTypeOK, Slot
    <3>2. slots[s].draining \in BOOLEAN /\ (Busy(s) => Busy(s)')
      BY <1>0, <2>2 DEF Busy, RegistryTypeOK, Slot
    <3> QED
      BY <1>0, <1>1, <2>2, <3>1, <3>2, RestInv DEF Settle
  <2> QED
    BY <1>1, <2>1, <2>2 DEF Settle
<1>2. CASE LoopOn(s)
  <2>1. CASE DrainNext(s)
    BY <1>0, <1>2, <2>1, DrainNextInv DEF JobsIdle, LoopOn
  <2>2. CASE slots' = [slots EXCEPT ![s].job = "drained"] /\ UNCHANGED <<slotAt, work>>
    <3>1. /\ slots[s].job = "loop"
          /\ SlotsKept /\ RunningInSlot /\ QueueOfConversation
      BY <1>2 DEF LoopOn, RegistryInv
    <3>2. /\ \A r \in Works \ {s} : slots'[r] = slots[r]
          /\ slots'[s] = [slots[s] EXCEPT !.job = "drained"]
          /\ slots'[s] \in Slot /\ slots' \in [Works -> Slot]
      BY <1>0, <2>2 DEF RegistryTypeOK, Slot, Job
    <3>3. RegistryTypeOK'
      BY <1>0, <2>2, <3>1, <3>2 DEF RegistryTypeOK, Slot
    <3>4. SlotsKept' /\ JobsIdle'
      BY <1>0, <2>2, <3>1, <3>2 DEF SlotsKept, JobsIdle, Busy, Slot
    <3>5. RunningInSlot' /\ QueueOfConversation'
      BY <1>0, <2>2, <3>1, <3>2 DEF RunningInSlot, QueueOfConversation, Slot
    <3> QED
      BY <3>3, <3>4, <3>5 DEF RegistryInv
  <2> QED
    BY <1>2, <2>1, <2>2 DEF LoopOn
<1>3. CASE EndDrain(s)
  <2>1. CASE DrainNext(s)
    BY <1>0, <1>3, <2>1, DrainNextInv DEF JobsIdle, EndDrain
  <2>2. CASE slots[s].queue = <<>>
             /\ slots' = [slots EXCEPT ![s].draining = FALSE, ![s].job = "none"]
             /\ DropSlot(s) /\ UNCHANGED work
    BY <1>0, <1>3, <2>2, RestInv DEF EndDrain
  <2> QED
    BY <1>3, <2>1, <2>2 DEF EndDrain
<1> QED
  BY <1>1, <1>2, <1>3 DEF Callback

\* shutdown changes no slot.
LEMMA CloseInv ==
  ASSUME RegistryInv, Close \/ Closed
  PROVE  RegistryInv'
<1>1. /\ UNCHANGED <<slotAt, slots, work, order>>
      /\ gate' \in {"closing", "closed"} /\ coupled' \in BOOLEAN
  BY DEF Close, Closed, RegistryInv, RegistryTypeOK
<1> QED
  BY <1>1 DEF RegistryInv, RegistryTypeOK, SlotsKept, Busy, JobsIdle, RunningInSlot,
     QueueOfConversation

\* A new process starts with an empty registry.
LEMMA RestartInv ==
  ASSUME RegistryInv, Restart
  PROVE  RegistryInv'
<1> USE WorkAssumption DEF Restart
<1>1. RegistryTypeOK'
  <2>1. slots' \in [Works -> Slot]
    BY NewSlotType
  <2>2. order' \in [Conversations -> Seq(Works)]
    BY EmptyQueue
  <2> QED
    BY <2>1, <2>2 DEF RegistryTypeOK, NewSlot, WorkStatus
<1>2. SlotsKept'
  BY DEF SlotsKept, Busy, NewSlot
<1>3. JobsIdle' /\ RunningInSlot' /\ QueueOfConversation'
  BY DEF JobsIdle, RunningInSlot, QueueOfConversation, NewSlot
<1> QED
  BY <1>1, <1>2, <1>3 DEF RegistryInv

\* The invariant speaks of the variables of the registry alone.
LEMMA StutterInv ==
  ASSUME RegistryInv, UNCHANGED registry
  PROVE  RegistryInv'
BY DEF registry, RegistryInv, RegistryTypeOK, SlotsKept, Busy, JobsIdle, RunningInSlot,
   QueueOfConversation

-----------------------------------------------------------------------------
\* Whatever calls arrive and however they interleave with the jobs that end
\* turns and drains, the bookkeeping of the registry agrees with itself.
THEOREM RegistryInvariant == RegistrySpec => []RegistryInv
<1>1. RegistryInit => RegistryInv
  BY InitInv
<1>2. RegistryInv /\ [RegistryNext]_registry => RegistryInv'
  BY SubmitInv, EndTurnInv, CallbackInv, CloseInv, RestartInv, StutterInv DEF RegistryNext
<1> QED
  BY <1>1, <1>2, PTL DEF RegistrySpec

\* Two running turns of a conversation are in the slot that the conversation
\* maps to, and a slot runs one turn.
LEMMA InvOneTurn == RegistryInv => OneTurn
<1> SUFFICES ASSUME RegistryInv, NEW v \in Works, NEW w \in Works,
                    Conv[v] = Conv[w], work[v] = "running", work[w] = "running"
             PROVE  v = w
  BY DEF OneTurn
<1>1. PICK r \in Works : slots[r].active = v
  BY DEF RegistryInv, RunningInSlot
<1>2. PICK s \in Works : slots[s].active = w
  BY DEF RegistryInv, RunningInSlot
<1>3. slotAt[Conv[v]] = r /\ slotAt[Conv[w]] = s
  BY <1>1, <1>2, WorkAssumption DEF RegistryInv, RunningInSlot, SlotsKept, Busy
<1> QED
  BY <1>1, <1>2, <1>3

\* ActiveTurnRegistry never runs two turns of one conversation at a time.
THEOREM OneTurnAlways == RegistrySpec => []OneTurn
BY RegistryInvariant, InvOneTurn, PTL

\* The registry keeps its types, and the jobs of a slot fit its drain.
THEOREM RegistryTypes == RegistrySpec => []RegistryTypeOK
<1>1. RegistryInv => RegistryTypeOK
  BY DEF RegistryInv
<1> QED
  BY RegistryInvariant, <1>1, PTL

-----------------------------------------------------------------------------
(* The order of the turns.                                                   *)

\* An empty registry has no turns in the wrong order.
LEMMA InitOrder == RegistryInit => OrderInv
<1> SUFFICES ASSUME RegistryInit PROVE OrderInv
  OBVIOUS
<1> USE WorkAssumption DEF RegistryInit
<1>1. QueuesTrue /\ ClosedMeansEnded
  BY DEF QueuesTrue, ClosedMeansEnded, NewSlot
<1>2. SlotsRest
  BY DEF SlotsRest, NewSlot
<1>3. ASSUME NEW c \in Conversations PROVE StartedBefore(c)
  <2>1. Waiting(c) = <<>> /\ order[c] = <<>>
    BY DEF Waiting
  <2> QED
    BY <2>1 DEF StartedBefore
<1> QED
  BY <1>1, <1>2, <1>3, InitInv DEF OrderInv

\* Where neither the turns of a conversation nor its queue change, started turns
\* only have to stay started.
LEMMA StillStarted ==
  ASSUME RegistryTypeOK, NEW c \in Conversations, StartedBefore(c),
         order'[c] = order[c], Waiting(c)' = Waiting(c),
         \A v \in Works : work[v] \notin {"new", "queued"} => work'[v] \notin {"new", "queued"}
  PROVE  StartedBefore(c)'
<1>1. order[c] \in Seq(Works) /\ Len(Waiting(c)) \in Nat
  <2>1. order[c] \in Seq(Works)
    BY DEF RegistryTypeOK
  <2>2. Waiting(c) \in Seq(Works)
    BY EmptyQueue DEF Waiting, RegistryTypeOK, Slot
  <2> QED
    BY <2>1, <2>2
<1> DEFINE n == Len(order[c]) - Len(Waiting(c))
<1>2. /\ n \in Nat
      /\ \A i \in 1..n : work[order[c][i]] \notin {"new", "queued"}
      /\ \A i \in 1..Len(Waiting(c)) : order[c][n + i] = Waiting(c)[i]
  BY DEF StartedBefore
<1>3. n <= Len(order[c])
  BY <1>1, <1>2
<1>4. n' = n
  OBVIOUS
<1>5. \A i \in 1..n : order[c][i] \in Works
  BY <1>1, <1>2, <1>3
<1>6. \A i \in 1..n : work'[order[c][i]] \notin {"new", "queued"}
  BY <1>2, <1>5
<1> HIDE DEF n
<1>7. /\ n' \in Nat
      /\ \A i \in 1..n' : work'[order'[c][i]] \notin {"new", "queued"}
      /\ \A i \in 1..Len(Waiting(c)') : order'[c][n' + i] = Waiting(c)'[i]
  BY <1>2, <1>4, <1>6
<1> QED
  BY <1>7 DEF StartedBefore, n

\* The slot of a conversation is where its turns wait.
LEMMA WaitsInSlot ==
  ASSUME RegistryInv, NEW s \in Works,
         Busy(s) \/ slots[s].queue # <<>> \/ slots[s].job # "none"
  PROVE  Waiting(Conv[s]) = slots[s].queue
<1>1. slotAt[Conv[s]] = s /\ s # None
  BY WorkAssumption DEF RegistryInv, SlotsKept
<1> QED
  BY <1>1 DEF Waiting

\* A change of one slot, and of its place in the Map, leaves the queues of the other
\* conversations alone.
LEMMA OthersWait ==
  ASSUME RegistryInv, NEW s \in Works, NEW c \in Conversations, c # Conv[s],
         slotAt'[c] = slotAt[c], \A r \in Works \ {s} : slots'[r] = slots[r]
  PROVE  Waiting(c)' = Waiting(c)
<1>1. slotAt[c] # None => slotAt[c] \in Works \ {s}
  BY DEF RegistryInv, RegistryTypeOK, SlotsKept
<1> QED
  BY <1>1 DEF Waiting

\* An unsettled slot apart, a slot where nothing runs has nothing to do.
LEMMA FreeSlot ==
  ASSUME OrderInv, ~ coupled, NEW s \in Works, ~ Busy(s), ~ Unsettled(s)
  PROVE  slots[s].queue = <<>>
<1>1. slots[s].job \in Job /\ (slots[s].job \in {"loop", "drained"} => slots[s].draining)
  BY DEF OrderInv, RegistryInv, RegistryTypeOK, Slot
<1>2. slots[s].job = "none"
  BY <1>1 DEF Busy, Unsettled, Job
<1> QED
  BY <1>2 DEF OrderInv, SlotsRest


\* A turn waits in one slot only.
LEMMA WaitsOnce ==
  ASSUME RegistryInv, NEW r \in Works, NEW s \in Works,
         NEW i \in 1..Len(slots[r].queue), NEW j \in 1..Len(slots[s].queue),
         slots[r].queue[i] = slots[s].queue[j]
  PROVE  r = s
<1>1. slots[r].queue \in Seq(Works) /\ slots[s].queue \in Seq(Works)
  BY DEF RegistryInv, RegistryTypeOK, Slot
<1>2. Conv[r] = Conv[s]
  BY DEF RegistryInv, QueueOfConversation
<1>3. slots[r].queue # <<>> /\ slots[s].queue # <<>>
  BY <1>1
<1> QED
  BY <1>2, <1>3 DEF RegistryInv, SlotsKept

\* A turn that is queued is the last one in the queue of its slot.
LEMMA QueueOrder ==
  ASSUME OrderInv, RegistryInv', NEW w \in Works, NEW s \in Works, NEW c \in Conversations,
         Conv[w] = c, Conv[s] = c, work[w] = "new", gate = "open", Busy(s),
         slotAt' = [slotAt EXCEPT ![c] = s],
         order' = [order EXCEPT ![c] = Append(@, w)],
         coupled' = (coupled \/ Unsettled(s)),
         slots' = [slots EXCEPT ![s].queue = Append(@, w)],
         work' = [work EXCEPT ![w] = "queued"],
         gate' = gate
  PROVE  OrderInv'
<1>a. /\ RegistryInv /\ RegistryTypeOK /\ SlotsKept /\ QueuesTrue /\ ClosedMeansEnded
      /\ work[w] = "new" /\ c \in Conversations
  BY DEF OrderInv, RegistryInv
<1>b. s \in Works /\ Conv[s] = c
  OBVIOUS
<1>c. slots[s] \in Slot /\ slots[s].queue \in Seq(Works)
  BY <1>a DEF RegistryTypeOK, Slot
<1>d. \A r \in Works : \A i \in 1..Len(slots[r].queue) : slots[r].queue[i] # w
  BY <1>a DEF QueuesTrue
<1>e. order[c] \in Seq(Works)
  BY <1>a DEF RegistryTypeOK
<1>f. RegistryInv'
  OBVIOUS
<1>g. gate = "open" /\ Busy(s)
  OBVIOUS
<1>q. PICK q : q = slots[s].queue
  OBVIOUS
<1>p. PICK p : p = order[c]
  OBVIOUS
<1>r. q \in Seq(Works) /\ p \in Seq(Works)
  BY <1>c, <1>e, <1>q, <1>p
<1>2. /\ work'[w] = "queued"
      /\ \A v \in Works \ {w} : work'[v] = work[v]
      /\ \A r \in Works \ {s} : slots'[r] = slots[r]
      /\ slots'[s].queue = Append(q, w)
      /\ slots'[s].active = slots[s].active
      /\ slots'[s].draining = slots[s].draining
      /\ slots'[s].job = slots[s].job
      /\ slotAt[c] = s /\ slotAt' = slotAt
  BY <1>a, <1>b, <1>q, <1>r, <1>c, <1>g DEF RegistryTypeOK, Slot, SlotsKept
<1>3. QueuesTrue'
  <2>1. ASSUME NEW r \in Works, r # s
        PROVE  /\ \A i \in 1..Len(slots'[r].queue) : work'[slots'[r].queue[i]] = "queued"
               /\ \A i, j \in 1..Len(slots'[r].queue) :
                    i # j => slots'[r].queue[i] # slots'[r].queue[j]
    <3>1. slots'[r].queue = slots[r].queue /\ slots[r].queue \in Seq(Works)
      BY <1>a, <1>2, <2>1 DEF RegistryTypeOK, Slot
    <3> QED
      BY <1>a, <1>d, <1>2, <3>1 DEF QueuesTrue
  <2>2. /\ \A i \in 1..Len(q) : q[i] # w /\ work[q[i]] = "queued" /\ q[i] \in Works
        /\ \A i, j \in 1..Len(q) : i # j => q[i] # q[j]
    BY <1>a, <1>b, <1>q, <1>r, <1>c, <1>d DEF QueuesTrue
  <2>3. /\ \A i \in 1..Len(Append(q, w)) : work'[Append(q, w)[i]] = "queued"
        /\ \A i, j \in 1..Len(Append(q, w)) :
              i # j => Append(q, w)[i] # Append(q, w)[j]
    BY <1>q, <1>r, <1>c, <1>2, <2>2
  <2>4. ASSUME NEW v \in Works, work'[v] = "queued"
        PROVE  \E r \in Works : \E i \in 1..Len(slots'[r].queue) : slots'[r].queue[i] = v
    <3>1. CASE v = w
      <4>1. /\ Len(q) + 1 \in 1..Len(slots'[s].queue)
            /\ slots'[s].queue[Len(q) + 1] = v
        BY <1>q, <1>r, <1>c, <1>2, <3>1
      <4> QED
        BY <1>b, <4>1
    <3>2. CASE v # w
      <4>1. PICK r \in Works : \E i \in 1..Len(slots[r].queue) : slots[r].queue[i] = v
        BY <1>a, <1>2, <2>4, <3>2 DEF QueuesTrue
      <4>2. PICK i \in 1..Len(slots[r].queue) : slots[r].queue[i] = v
        BY <4>1
      <4>3. CASE r = s
        <5>1. i \in 1..Len(slots'[s].queue) /\ slots'[s].queue[i] = v
          BY <1>q, <1>r, <1>c, <1>2, <4>2, <4>3
        <5> QED
          BY <1>b, <5>1
      <4>4. CASE r # s
        BY <1>2, <4>2, <4>4
      <4> QED
        BY <4>3, <4>4
    <3> QED
      BY <3>1, <3>2
  <2> QED
    BY <1>2, <2>1, <2>3, <2>4, SMTT(30) DEF QueuesTrue
<1>4. ClosedMeansEnded'
  BY <1>g DEF ClosedMeansEnded
<1>5. ASSUME ~ coupled' PROVE SlotsRest' /\ \A k \in Conversations : StartedBefore(k)'
  <2>0. ~ coupled /\ SlotsRest /\ \A k \in Conversations : StartedBefore(k)
    BY <1>5 DEF OrderInv
  <2>1. SlotsRest'
    <3>1. \A r \in Works : Busy(r)' = Busy(r) /\ slots'[r].job = slots[r].job
      BY <1>2 DEF Busy
    <3> QED
      BY <1>g, <1>2, <2>0, <3>1 DEF SlotsRest
  <2>2. ASSUME NEW k \in Conversations, k # c PROVE StartedBefore(k)'
    <3>1. Waiting(k)' = Waiting(k) /\ order'[k] = order[k]
      BY <1>a, <1>b, <1>2, <2>2, OthersWait DEF RegistryTypeOK
    <3> QED
      BY <1>a, <1>2, <2>0, <3>1, StillStarted
  <2>3. StartedBefore(c)'
    <3>1. Waiting(c) = q
      BY <1>a, <1>b, <1>g, <1>q, WaitsInSlot
    <3>2. Waiting(c)' = Append(q, w)
      BY <1>a, <1>b, <1>q, <1>2, WorkAssumption DEF Waiting
    <3>3. order'[c] = Append(p, w)
      BY <1>a, <1>p DEF RegistryTypeOK
    <3>4. PICK n : n = Len(p) - Len(q)
      OBVIOUS
    <3>5. /\ n \in Nat
          /\ \A i \in 1..n : work[p[i]] \notin {"new", "queued"}
          /\ \A i \in 1..Len(q) : p[n + i] = q[i]
      BY <1>p, <2>0, <3>1, <3>4 DEF StartedBefore
    <3>6. Len(Append(p, w)) - Len(Append(q, w)) = n
      BY <1>r, <3>4
    <3>7. ASSUME NEW i \in 1..n
          PROVE  work'[Append(p, w)[i]] \notin {"new", "queued"}
      <4>1. Append(p, w)[i] = p[i] /\ p[i] \in Works
        BY <1>r, <3>4, <3>5
      <4>2. work[p[i]] \notin {"new", "queued"}
        BY <3>5
      <4>3. p[i] # w
        BY <1>a, <4>2
      <4> QED
        BY <1>2, <4>1, <4>2, <4>3
    <3>8. ASSUME NEW i \in 1..Len(Append(q, w))
          PROVE  Append(p, w)[n + i] = Append(q, w)[i]
      <4>1. CASE i \in 1..Len(q)
        <5>1. n + i \in 1..Len(p)
          BY <1>r, <3>4, <3>5, <4>1
        <5>2. Append(p, w)[n + i] = p[n + i] /\ Append(q, w)[i] = q[i]
          BY <1>r, <4>1, <5>1
        <5> QED
          BY <3>5, <4>1, <5>2
      <4>2. CASE i = Len(q) + 1
        <5>1. n + i = Len(p) + 1
          BY <1>r, <3>4, <4>2
        <5> QED
          BY <1>r, <4>2, <5>1
      <4>3. i \in 1..Len(q) \/ i = Len(q) + 1
        <5>1. PICK m \in Nat : m = Len(q)
          BY <1>r
        <5>2. Len(Append(q, w)) = m + 1
          BY <1>r, <5>1
        <5>3. i \in 1..(m + 1)
          BY <5>2
        <5>4. i \in 1..m \/ i = m + 1
          BY <5>3
        <5> QED
          BY <5>1, <5>4
      <4> QED
        BY <4>1, <4>2, <4>3
    <3> QED
      BY <3>2, <3>3, <3>5, <3>6, <3>7, <3>8 DEF StartedBefore
  <2> QED
    BY <2>1, <2>2, <2>3
<1> QED
  BY <1>f, <1>3, <1>4, <1>5 DEF OrderInv

\* A turn that runs at once has none before it that waits.
LEMMA RunOrder ==
  ASSUME OrderInv, RegistryInv', NEW w \in Works, NEW s \in Works, NEW c \in Conversations,
         Conv[w] = c, Conv[s] = c, work[w] = "new", gate = "open", ~ Busy(s),
         slotAt[c] \in {s, None},
         slotAt' = [slotAt EXCEPT ![c] = s],
         order' = [order EXCEPT ![c] = Append(@, w)],
         coupled' = (coupled \/ Unsettled(s)),
         slots' = [slots EXCEPT ![s].active = w],
         work' = [work EXCEPT ![w] = "running"],
         gate' = gate
  PROVE  OrderInv'
<1>a. /\ RegistryInv /\ RegistryTypeOK /\ SlotsKept /\ QueuesTrue /\ ClosedMeansEnded
      /\ work[w] = "new" /\ c \in Conversations
  BY DEF OrderInv, RegistryInv
<1>b. s \in Works /\ Conv[s] = c
  OBVIOUS
<1>c. slots[s] \in Slot /\ slots[s].queue \in Seq(Works)
  BY <1>a DEF RegistryTypeOK, Slot
<1>d. \A r \in Works : \A i \in 1..Len(slots[r].queue) : slots[r].queue[i] # w
  BY <1>a DEF QueuesTrue
<1>e. order[c] \in Seq(Works)
  BY <1>a DEF RegistryTypeOK
<1>f. RegistryInv'
  OBVIOUS
<1>g. gate = "open" /\ ~ Busy(s)
  OBVIOUS
<1>2. /\ work'[w] = "running"
      /\ \A v \in Works \ {w} : work'[v] = work[v]
      /\ \A r \in Works \ {s} : slots'[r] = slots[r]
      /\ \A r \in Works : slots'[r].queue = slots[r].queue /\ slots'[r].job = slots[r].job
      /\ slots'[s].active = w
      /\ slotAt'[c] = s /\ \A k \in Conversations \ {c} : slotAt'[k] = slotAt[k]
  BY <1>a, <1>b, <1>c DEF RegistryTypeOK, Slot
<1>3. QueuesTrue'
  <2>1. \A r \in Works : \A i \in 1..Len(slots[r].queue) : slots[r].queue[i] \in Works \ {w}
    BY <1>a, <1>d DEF RegistryTypeOK, Slot
  <2>2. \A v \in Works : work'[v] = "queued" => work[v] = "queued"
    BY <1>2
  <2> QED
    BY <1>a, <1>2, <2>1, <2>2 DEF QueuesTrue
<1>4. ClosedMeansEnded'
  BY <1>g DEF ClosedMeansEnded
<1>5. ASSUME ~ coupled' PROVE SlotsRest' /\ \A k \in Conversations : StartedBefore(k)'
  <2>0. ~ coupled /\ ~ Unsettled(s) /\ SlotsRest /\ \A k \in Conversations : StartedBefore(k)
    BY <1>5 DEF OrderInv
  <2>1. SlotsRest'
    <3>1. slots[s].job # "direct"
      BY <2>0 DEF Unsettled
    <3>2. Busy(s)'
      BY <1>2, WorkAssumption DEF Busy
    <3>3. \A r \in Works \ {s} : Busy(r)' = Busy(r)
      BY <1>2 DEF Busy
    <3> QED
      BY <1>2, <2>0, <3>1, <3>2, <3>3 DEF SlotsRest
  <2>2. ASSUME NEW k \in Conversations, k # c PROVE StartedBefore(k)'
    <3>1. Waiting(k)' = Waiting(k) /\ order'[k] = order[k]
      BY <1>a, <1>b, <1>2, <2>2, OthersWait DEF RegistryTypeOK
    <3> QED
      BY <1>a, <1>2, <2>0, <3>1, StillStarted
  <2>3. StartedBefore(c)'
    <3>1. slots[s].queue = <<>>
      BY <1>b, <1>g, <2>0, FreeSlot
    <3>2. Waiting(c) = <<>> /\ Waiting(c)' = <<>>
      BY <1>a, <1>b, <1>2, <3>1, WorkAssumption DEF Waiting
    <3>3. PICK p \in Seq(Works) : p = order[c]
      BY <1>e
    <3>4. order'[c] = Append(p, w)
      BY <1>a, <3>3 DEF RegistryTypeOK
    <3>5. \A i \in 1..Len(p) : work[p[i]] \notin {"new", "queued"}
      BY <2>0, <3>2, <3>3 DEF StartedBefore
    <3>6. Len(Append(p, w)) - 0 = Len(p) + 1 /\ Len(p) \in Nat
      OBVIOUS
    <3>7. ASSUME NEW i \in 1..(Len(p) + 1)
          PROVE  work'[Append(p, w)[i]] \notin {"new", "queued"}
      <4>1. CASE i \in 1..Len(p)
        <5>1. Append(p, w)[i] = p[i] /\ p[i] \in Works
          BY <4>1
        <5> QED
          BY <1>a, <1>2, <3>5, <4>1, <5>1
      <4>2. CASE i = Len(p) + 1
        <5>1. Append(p, w)[i] = w
          BY <4>2
        <5> QED
          BY <1>2, <5>1
      <4> QED
        BY <4>1, <4>2
    <3>8. PICK m \in Nat : m = Len(p) + 1
      OBVIOUS
    <3> QED
      BY <3>2, <3>4, <3>6, <3>7, <3>8 DEF StartedBefore
  <2> QED
    BY <2>1, <2>2, <2>3
<1> QED
  BY <1>f, <1>3, <1>4, <1>5 DEF OrderInv

\* submit accepts a turn behind all the others of its conversation.
LEMMA SubmitOrder ==
  ASSUME OrderInv, NEW w \in Works, Submit(w)
  PROVE  OrderInv'
<1>0. /\ RegistryInv /\ RegistryTypeOK /\ SlotsKept /\ QueuesTrue /\ ClosedMeansEnded
      /\ work[w] = "new" /\ Conv[w] \in Conversations
  BY WorkAssumption DEF OrderInv, RegistryInv, Submit
<1>a. RegistryInv'
  BY <1>0, SubmitInv
<1>4. \A r \in Works : \A i \in 1..Len(slots[r].queue) : slots[r].queue[i] # w
  BY <1>0 DEF QueuesTrue
<1>6. CASE gate # "open"
  <2>1. work' = [work EXCEPT ![w] = "refused"] /\ UNCHANGED <<gate, slotAt, slots, order, coupled>>
    BY <1>6 DEF Submit
  <2>2. /\ work'[w] = "refused"
        /\ \A v \in Works \ {w} : work'[v] = work[v]
    BY <1>0, <2>1 DEF RegistryTypeOK
  <2>3. QueuesTrue'
    <3>1. \A r \in Works : \A i \in 1..Len(slots[r].queue) : slots[r].queue[i] \in Works \ {w}
      BY <1>0, <1>4 DEF RegistryTypeOK, Slot
    <3> QED
      BY <1>0, <2>1, <2>2, <3>1 DEF QueuesTrue
  <2>4. ClosedMeansEnded'
    BY <1>0, <2>1, <2>2 DEF ClosedMeansEnded
  <2>5. ASSUME ~ coupled' PROVE SlotsRest' /\ \A k \in Conversations : StartedBefore(k)'
    <3>1. SlotsRest'
      BY <2>1, <2>5 DEF OrderInv, SlotsRest, Busy
    <3>2. ASSUME NEW k \in Conversations PROVE StartedBefore(k)'
      <4>1. StartedBefore(k) /\ Waiting(k)' = Waiting(k) /\ order'[k] = order[k]
        BY <2>1, <2>5 DEF OrderInv, Waiting
      <4> QED
        BY <1>0, <2>2, <4>1, StillStarted
    <3> QED
      BY <3>1, <3>2
  <2> QED
    BY <1>a, <2>3, <2>4, <2>5 DEF OrderInv
<1>7. CASE gate = "open"
  <2>1. PICK s : s = IF slotAt[Conv[w]] = None THEN w ELSE slotAt[Conv[w]]
    OBVIOUS
  <2>2. s \in Works /\ Conv[s] = Conv[w] /\ slotAt[Conv[w]] \in {s, None}
    BY <1>0, <2>1 DEF RegistryTypeOK, SlotsKept
  <2>3. CASE Busy(s)
    <3>1. /\ slotAt' = [slotAt EXCEPT ![Conv[w]] = s]
          /\ order' = [order EXCEPT ![Conv[w]] = Append(@, w)]
          /\ coupled' = (coupled \/ Unsettled(s))
          /\ slots' = [slots EXCEPT ![s].queue = Append(@, w)]
          /\ work' = [work EXCEPT ![w] = "queued"]
          /\ gate' = gate
      BY <1>7, <2>1, <2>3 DEF Submit
    <3> QED
      BY <1>0, <1>a, <1>7, <2>2, <2>3, <3>1, QueueOrder
  <2>4. CASE ~ Busy(s)
    <3>1. /\ slotAt' = [slotAt EXCEPT ![Conv[w]] = s]
          /\ order' = [order EXCEPT ![Conv[w]] = Append(@, w)]
          /\ coupled' = (coupled \/ Unsettled(s))
          /\ slots' = [slots EXCEPT ![s].active = w]
          /\ work' = [work EXCEPT ![w] = "running"]
          /\ gate' = gate
      BY <1>7, <2>1, <2>4 DEF Submit
    <3> QED
      BY <1>0, <1>a, <1>7, <2>2, <2>4, <3>1, RunOrder
  <2> QED
    BY <2>3, <2>4
<1> QED
  BY <1>6, <1>7

\* A turn that ends has left its queue long ago.
LEMMA EndTurnOrder ==
  ASSUME OrderInv, NEW w \in Works, EndTurn(w)
  PROVE  OrderInv'
<1>0. /\ RegistryInv /\ RegistryTypeOK /\ RunningInSlot /\ QueuesTrue /\ ClosedMeansEnded
  BY DEF OrderInv, RegistryInv
<1>1. PICK s \in Works :
        /\ slots[s].active = w
        /\ slots[s].job = "none"
        /\ slots' = [slots EXCEPT ![s].active = None,
                       ![s].job = IF slots[s].draining THEN "loop" ELSE "direct"]
        /\ work' = [work EXCEPT ![w] = "ended"]
        /\ UNCHANGED <<gate, slotAt, order, coupled>>
  BY DEF EndTurn
<1>2. /\ work[w] = "running" /\ work'[w] = "ended"
      /\ \A v \in Works \ {w} : work'[v] = work[v]
      /\ \A r \in Works \ {s} : slots'[r] = slots[r]
      /\ \A r \in Works : slots'[r].queue = slots[r].queue
      /\ slots'[s].active = None /\ slots'[s].draining = slots[s].draining
      /\ slots'[s].job = IF slots[s].draining THEN "loop" ELSE "direct"
  BY <1>0, <1>1, WorkAssumption DEF RegistryTypeOK, RunningInSlot, Slot
<1>3. RegistryInv'
  BY <1>0, EndTurnInv
<1>4. QueuesTrue'
  <2>1. \A r \in Works : \A i \in 1..Len(slots[r].queue) : slots[r].queue[i] \in Works \ {w}
    BY <1>0, <1>2 DEF RegistryTypeOK, Slot, QueuesTrue
  <2>2. \A v \in Works : work'[v] = "queued" => work[v] = "queued"
    BY <1>2
  <2> QED
    BY <1>0, <1>2, <2>1, <2>2, SMTT(30) DEF QueuesTrue
<1>5. ClosedMeansEnded'
  BY <1>0, <1>1, <1>2 DEF ClosedMeansEnded
<1>6. ASSUME ~ coupled' PROVE SlotsRest' /\ \A k \in Conversations : StartedBefore(k)'
  <2>0. SlotsRest /\ \A k \in Conversations : StartedBefore(k)
    BY <1>1, <1>6 DEF OrderInv
  <2>1. SlotsRest'
    <3>1. slots'[s].job = "direct" => ~ Busy(s)'
      BY <1>2 DEF Busy
    <3>2. \A r \in Works \ {s} : Busy(r)' = Busy(r)
      BY <1>2 DEF Busy
    <3> QED
      BY <1>2, <2>0, <3>1, <3>2 DEF SlotsRest
  <2>2. ASSUME NEW k \in Conversations PROVE StartedBefore(k)'
    <3>1. slotAt[k] # None => slotAt[k] \in Works
      BY <1>0 DEF RegistryTypeOK
    <3>2. Waiting(k)' = Waiting(k) /\ order'[k] = order[k]
      BY <1>1, <1>2, <3>1 DEF Waiting
    <3> QED
      BY <1>0, <1>2, <2>0, <3>2, StillStarted
  <2> QED
    BY <2>1, <2>2
<1> QED
  BY <1>3, <1>4, <1>5, <1>6 DEF OrderInv

\* The turn that a drain starts is the first of those that wait.
LEMMA DrainNextOrder ==
  ASSUME OrderInv, NEW s \in Works, DrainNext(s), slots[s].active = None,
         UNCHANGED <<gate, order, coupled>>
  PROVE  OrderInv'
<1> USE WorkAssumption
<1>0. /\ RegistryInv /\ RegistryTypeOK /\ SlotsKept /\ QueuesTrue /\ ClosedMeansEnded
  BY DEF OrderInv, RegistryInv
<1>1. PICK q \in Seq(Works) : q = slots[s].queue
  BY <1>0 DEF RegistryTypeOK, Slot
<1>2. q # <<>>
  BY <1>1 DEF DrainNext
<1>3. PICK w \in Works : w = Head(q)
  BY <1>2
<1>4. w = q[1] /\ Len(q) \in Nat \ {0}
  BY <1>2, <1>3
<1>5. PICK t \in Seq(Works) : t = Tail(q)
  <2>1. Tail(q) \in Seq(Works)
    BY <1>2
  <2> QED
    BY <2>1
<1>6. Len(t) + 1 = Len(q) /\ \A i \in 1..Len(t) : t[i] = q[i + 1]
  BY <1>2, <1>5
<1>7. /\ slots' = [slots EXCEPT ![s] = [active |-> w, queue |-> t, draining |-> TRUE,
                                       job |-> "none"]]
      /\ work' = [work EXCEPT ![w] = "running"]
      /\ slotAt' = slotAt
  BY <1>0, <1>1, <1>3, <1>5 DEF DrainNext, RegistryTypeOK
<1>8. /\ work'[w] = "running"
      /\ \A v \in Works \ {w} : work'[v] = work[v]
      /\ \A r \in Works \ {s} : slots'[r] = slots[r]
      /\ slots'[s] = [active |-> w, queue |-> t, draining |-> TRUE, job |-> "none"]
  BY <1>0, <1>7 DEF RegistryTypeOK
<1>9. /\ \A i \in 1..Len(q) : work[q[i]] = "queued"
      /\ \A i, j \in 1..Len(q) : i # j => q[i] # q[j]
  BY <1>0, <1>1 DEF QueuesTrue
<1>10. work[w] = "queued"
  BY <1>4, <1>9
<1>11. RegistryInv'
  BY <1>0, DrainNextInv
<1>12. QueuesTrue'
  <2>1. ASSUME NEW i \in 1..Len(t)
        PROVE  t[i] \in Works \ {w} /\ work'[t[i]] = "queued"
    <3>1. i + 1 \in 2..Len(q) /\ t[i] = q[i + 1]
      BY <1>6
    <3> QED
      BY <1>4, <1>8, <1>9, <3>1
  <2>2. \A i, j \in 1..Len(t) : i # j => t[i] # t[j]
    <3>1. SUFFICES ASSUME NEW i \in 1..Len(t), NEW j \in 1..Len(t), i # j
                   PROVE  q[i + 1] # q[j + 1]
      BY <1>6
    <3>2. i + 1 \in 1..Len(q) /\ j + 1 \in 1..Len(q) /\ i + 1 # j + 1
      BY <1>6, <3>1
    <3> QED
      BY <1>9, <3>2
  <2>3. ASSUME NEW r \in Works, r # s, NEW i \in 1..Len(slots[r].queue)
        PROVE  slots[r].queue[i] \in Works \ {w}
    <3>1. slots[r].queue[i] \in Works
      BY <1>0 DEF RegistryTypeOK, Slot
    <3>2. 1 \in 1..Len(slots[s].queue) /\ w = slots[s].queue[1]
      BY <1>1, <1>4
    <3> QED
      BY <1>0, <2>3, <3>1, <3>2, WaitsOnce
  <2>4. ASSUME NEW v \in Works, work'[v] = "queued"
        PROVE  \E r \in Works : \E i \in 1..Len(slots'[r].queue) : slots'[r].queue[i] = v
    <3>1. v # w /\ work[v] = "queued"
      BY <1>8, <2>4
    <3>2. PICK r \in Works : \E i \in 1..Len(slots[r].queue) : slots[r].queue[i] = v
      BY <1>0, <3>1 DEF QueuesTrue
    <3>3. PICK i \in 1..Len(slots[r].queue) : slots[r].queue[i] = v
      BY <3>2
    <3>4. CASE r # s
      BY <1>8, <3>3, <3>4
    <3>5. CASE r = s
      <4>1. i \in 1..Len(q) /\ q[i] = v /\ i # 1
        BY <1>1, <1>4, <3>1, <3>3, <3>5
      <4>2. i - 1 \in 1..Len(t) /\ t[i - 1] = q[i]
        <5>1. i - 1 \in 1..Len(t)
          BY <1>6, <4>1
        <5> QED
          BY <1>6, <4>1, <5>1
      <4>3. i - 1 \in 1..Len(slots'[s].queue) /\ slots'[s].queue[i - 1] = v
        BY <1>8, <4>1, <4>2
      <4> QED
        BY <4>3
    <3> QED
      BY <3>4, <3>5
  <2>5. ASSUME NEW r \in Works
        PROVE  /\ \A i \in 1..Len(slots'[r].queue) : work'[slots'[r].queue[i]] = "queued"
               /\ \A i, j \in 1..Len(slots'[r].queue) :
                    i # j => slots'[r].queue[i] # slots'[r].queue[j]
    <3>1. CASE r = s
      BY <1>8, <2>1, <2>2, <3>1
    <3>2. CASE r # s
      BY <1>0, <1>8, <2>3, <3>2, SMTT(30) DEF QueuesTrue
    <3> QED
      BY <3>1, <3>2
  <2> QED
    BY <2>4, <2>5 DEF QueuesTrue
<1>13. ClosedMeansEnded'
  BY <1>0, <1>10 DEF ClosedMeansEnded
<1>14. ASSUME ~ coupled' PROVE SlotsRest' /\ \A k \in Conversations : StartedBefore(k)'
  <2>0. SlotsRest /\ \A k \in Conversations : StartedBefore(k)
    BY <1>14 DEF OrderInv
  <2>1. SlotsRest'
    <3>1. Busy(s)' /\ slots'[s].job = "none"
      BY <1>8 DEF Busy
    <3>2. \A r \in Works \ {s} : Busy(r)' = Busy(r)
      BY <1>8 DEF Busy
    <3> QED
      BY <1>8, <2>0, <3>1, <3>2 DEF SlotsRest
  <2>2. ASSUME NEW k \in Conversations, k # Conv[s] PROVE StartedBefore(k)'
    <3>1. Waiting(k)' = Waiting(k)
      BY <1>0, <1>7, <1>8, <2>2, OthersWait
    <3> QED
      BY <1>0, <1>8, <2>0, <3>1, StillStarted
  <2>3. StartedBefore(Conv[s])'
    <3>1. PICK c \in Conversations : c = Conv[s]
      OBVIOUS
    <3>2. PICK p \in Seq(Works) : p = order[c]
      BY <1>0 DEF RegistryTypeOK
    <3>3. Waiting(c) = q /\ slotAt[c] = s
      BY <1>0, <1>1, <1>2, <3>1, WaitsInSlot DEF SlotsKept
    <3>4. Waiting(c)' = t
      BY <1>7, <1>8, <3>3 DEF Waiting
    <3>5. PICK n \in Nat : n = Len(p) - Len(q)
      BY <2>0, <3>2, <3>3 DEF StartedBefore
    <3>6. /\ \A i \in 1..n : work[p[i]] \notin {"new", "queued"}
          /\ \A i \in 1..Len(q) : p[n + i] = q[i]
      BY <2>0, <3>2, <3>3, <3>5 DEF StartedBefore
    <3>7. Len(p) - Len(t) = n + 1
      <4>1. PICK l \in Nat : l = Len(t)
        OBVIOUS
      <4>2. Len(q) = l + 1 /\ Len(p) \in Nat
        BY <1>6, <4>1
      <4> QED
        BY <3>5, <4>1, <4>2
    <3>8. ASSUME NEW i \in 1..(n + 1)
          PROVE  work'[p[i]] \notin {"new", "queued"}
      <4>1. CASE i \in 1..n
        <5>1. p[i] \in Works /\ work[p[i]] \notin {"new", "queued"}
          BY <3>5, <3>6, <4>1
        <5> QED
          BY <1>8, <1>10, <5>1
      <4>2. CASE i = n + 1
        <5>1. p[i] = w
          BY <1>4, <3>6, <4>2
        <5> QED
          BY <1>8, <5>1
      <4> QED
        BY <4>1, <4>2
    <3>9. ASSUME NEW i \in 1..Len(t)
          PROVE  p[n + 1 + i] = t[i]
      <4>1. i + 1 \in 1..Len(q) /\ n + 1 + i = n + (i + 1)
        BY <1>6
      <4> QED
        BY <1>6, <3>6, <4>1
    <3>10. order'[c] = p
      BY <3>2
    <3>11. PICK m \in Nat : m = n + 1
      OBVIOUS
    <3>12. StartedBefore(c)'
      BY <3>4, <3>7, <3>8, <3>9, <3>10, <3>11 DEF StartedBefore
    <3> QED
      BY <3>1, <3>12
  <2> QED
    BY <2>1, <2>2, <2>3
<1> QED
  BY <1>11, <1>12, <1>13, <1>14 DEF OrderInv

\* Where neither queues nor turns change, what waits in a queue is queued.
LEMMA QueuesKept ==
  ASSUME QueuesTrue, work' = work, \A r \in Works : slots'[r].queue = slots[r].queue
  PROVE  QueuesTrue'
BY DEF QueuesTrue

\* A slot that comes to rest keeps its queue, or has none.
LEMMA RestOrder ==
  ASSUME OrderInv, NEW s \in Works, NEW d \in BOOLEAN,
         slots[s].job # "none", d => slots[s].draining,
         slots' = [slots EXCEPT ![s].draining = d, ![s].job = "none"],
         DropSlot(s), Busy(s)' \/ slots[s].queue = <<>>,
         UNCHANGED <<gate, work, order, coupled>>
  PROVE  OrderInv'
<1>0. RegistryInv /\ RegistryTypeOK /\ QueuesTrue /\ ClosedMeansEnded
  BY DEF OrderInv, RegistryInv
<1>1. RegistryInv'
  BY <1>0, RestInv
<1>2. /\ \A r \in Works \ {s} : slots'[r] = slots[r]
      /\ \A r \in Works : slots'[r].queue = slots[r].queue
      /\ slots'[s].job = "none"
      /\ slotAt'[Conv[s]] = IF Busy(s)' THEN slotAt[Conv[s]] ELSE None
      /\ \A k \in Conversations \ {Conv[s]} : slotAt'[k] = slotAt[k]
  BY <1>0, WorkAssumption DEF RegistryTypeOK, Slot, DropSlot
<1>3. QueuesTrue'
  BY <1>0, <1>2, QueuesKept
<1>4. ClosedMeansEnded'
  BY <1>0 DEF ClosedMeansEnded
<1>5. ASSUME ~ coupled' PROVE SlotsRest' /\ \A k \in Conversations : StartedBefore(k)'
  <2>0. SlotsRest /\ \A k \in Conversations : StartedBefore(k)
    BY <1>5 DEF OrderInv
  <2>1. SlotsRest'
    <3>1. \A r \in Works \ {s} : Busy(r)' = Busy(r)
      BY <1>2 DEF Busy
    <3> QED
      BY <1>2, <2>0, <3>1 DEF SlotsRest
  <2>2. ASSUME NEW k \in Conversations PROVE StartedBefore(k)'
    <3>1. CASE k # Conv[s]
      <4>1. Waiting(k)' = Waiting(k)
        BY <1>0, <1>2, <3>1, OthersWait
      <4> QED
        BY <1>0, <2>0, <4>1, StillStarted
    <3>2. CASE k = Conv[s]
      <4>1. Waiting(k) = slots[s].queue /\ slotAt[k] = s
        BY <1>0, <3>2, WaitsInSlot DEF RegistryInv, SlotsKept
      <4>2. Waiting(k)' = Waiting(k)
        BY <1>2, <3>2, <4>1 DEF Waiting
      <4> QED
        BY <1>0, <2>0, <4>2, StillStarted
    <3> QED
      BY <3>1, <3>2
  <2> QED
    BY <2>1, <2>2
<1> QED
  BY <1>1, <1>3, <1>4, <1>5 DEF OrderInv

\* A drain that finds its queue empty is over at its next job.
LEMMA DrainedOrder ==
  ASSUME OrderInv, RegistryInv', NEW s \in Works, slots[s].job = "loop",
         slots' = [slots EXCEPT ![s].job = "drained"],
         UNCHANGED <<gate, slotAt, work, order, coupled>>
  PROVE  OrderInv'
<1>0. RegistryInv /\ RegistryTypeOK /\ QueuesTrue /\ ClosedMeansEnded
  BY DEF OrderInv, RegistryInv
<1>1. /\ \A r \in Works \ {s} : slots'[r] = slots[r]
      /\ \A r \in Works : slots'[r].queue = slots[r].queue
      /\ slots'[s].job = "drained"
  BY <1>0 DEF RegistryTypeOK, Slot
<1>2. QueuesTrue' /\ ClosedMeansEnded'
  BY <1>0, <1>1 DEF QueuesTrue, ClosedMeansEnded
<1>3. ASSUME ~ coupled' PROVE SlotsRest' /\ \A k \in Conversations : StartedBefore(k)'
  <2>0. SlotsRest /\ \A k \in Conversations : StartedBefore(k)
    BY <1>3 DEF OrderInv
  <2>1. SlotsRest'
    <3>1. \A r \in Works \ {s} : Busy(r)' = Busy(r)
      BY <1>1 DEF Busy
    <3> QED
      BY <1>1, <2>0, <3>1 DEF SlotsRest
  <2>2. ASSUME NEW k \in Conversations PROVE StartedBefore(k)'
    <3>1. slotAt[k] # None => slotAt[k] \in Works
      BY <1>0 DEF RegistryTypeOK
    <3>2. Waiting(k)' = Waiting(k)
      BY <1>1, <3>1 DEF Waiting
    <3> QED
      BY <1>0, <2>0, <3>2, StillStarted
  <2> QED
    BY <2>1, <2>2
<1> QED
  BY <1>2, <1>3 DEF OrderInv

\* The jobs of a slot start its turns in order.
LEMMA CallbackOrder ==
  ASSUME OrderInv, NEW s \in Works, Callback(s)
  PROVE  OrderInv'
<1>0. /\ RegistryInv /\ RegistryTypeOK /\ JobsIdle /\ slots[s] \in Slot
      /\ RegistryInv' /\ UNCHANGED <<gate, order, coupled>>
  BY CallbackInv DEF OrderInv, RegistryInv, RegistryTypeOK, Callback
<1>1. CASE Settle(s)
  <2>1. CASE ~ Busy(s) /\ DrainNext(s)
    BY <1>0, <2>1, DrainNextOrder DEF Busy
  <2>2. CASE (Busy(s) \/ slots[s].queue = <<>>) /\ slots' = [slots EXCEPT ![s].job = "none"]
             /\ DropSlot(s) /\ UNCHANGED work
    <3>1. slots' = [slots EXCEPT ![s].draining = slots[s].draining, ![s].job = "none"]
      BY <1>0, <2>2 DEF RegistryTypeOK, Slot
    <3>2. slots[s].draining \in BOOLEAN /\ (Busy(s) => Busy(s)')
      BY <1>0, <2>2 DEF Busy, RegistryTypeOK, Slot
    <3> QED
      BY <1>0, <1>1, <2>2, <3>1, <3>2, RestOrder DEF Settle
  <2> QED
    BY <1>1, <2>1, <2>2 DEF Settle
<1>2. CASE LoopOn(s)
  BY <1>0, <1>2, DrainNextOrder, DrainedOrder DEF JobsIdle, LoopOn
<1>3. CASE EndDrain(s)
  <2>1. CASE DrainNext(s)
    BY <1>0, <1>3, <2>1, DrainNextOrder DEF JobsIdle, EndDrain
  <2>2. CASE slots[s].queue = <<>>
             /\ slots' = [slots EXCEPT ![s].draining = FALSE, ![s].job = "none"]
             /\ DropSlot(s) /\ UNCHANGED work
    BY <1>0, <1>3, <2>2, RestOrder DEF EndDrain
  <2> QED
    BY <1>3, <2>1, <2>2 DEF EndDrain
<1> QED
  BY <1>1, <1>2, <1>3 DEF Callback

\* drainIdle sees an idle registry only when nothing runs or waits, unless a call
\* has overtaken the callback that would have settled a turn.
LEMMA IdleMeansEnded ==
  ASSUME OrderInv, Idle, ~ coupled, \A s \in Works : ~ Unsettled(s), NEW w \in Works
  PROVE  work[w] \notin {"queued", "running"}
<1>0. /\ RegistryInv /\ RegistryTypeOK /\ SlotsKept /\ RunningInSlot /\ QueuesTrue
  BY DEF OrderInv, RegistryInv
<1>1. \A s \in Works : ~ Busy(s)
  BY <1>0, WorkAssumption, ZenonT(30) DEF SlotsKept, Idle
<1>2. \A s \in Works : slots[s].queue = <<>>
  BY <1>1, FreeSlot
<1>3. work[w] # "running"
  BY <1>0, <1>1, WorkAssumption DEF RunningInSlot, Busy
<1>4. work[w] # "queued"
  <2>1. SUFFICES ASSUME work[w] = "queued" PROVE FALSE
    OBVIOUS
  <2>2. PICK s \in Works : \E i \in 1..Len(slots[s].queue) : slots[s].queue[i] = w
    BY <1>0, <2>1 DEF QueuesTrue
  <2>3. slots[s].queue = <<>>
    BY <1>2
  <2> QED
    BY <2>2, <2>3
<1> QED
  BY <1>3, <1>4

\* shutdown waits for every turn.
LEMMA CloseOrder ==
  ASSUME OrderInv, Close \/ Closed
  PROVE  OrderInv'
<1>0. RegistryInv /\ QueuesTrue /\ RegistryInv'
  BY CloseInv DEF OrderInv
<1>1. /\ UNCHANGED <<slotAt, slots, work, order>>
      /\ coupled => coupled'
  <2>1. CASE Close
    BY <2>1 DEF Close
  <2>2. CASE Closed
    BY <2>2 DEF Closed
  <2> QED
    BY <2>1, <2>2
<1>2. QueuesTrue'
  BY <1>0, <1>1, QueuesKept
<1>3. ClosedMeansEnded'
  <2>1. CASE Close
    BY <2>1 DEF Close, ClosedMeansEnded
  <2>2. CASE Closed
    <3>1. SUFFICES ASSUME ~ coupled', NEW w \in Works PROVE work'[w] \notin {"queued", "running"}
      BY DEF ClosedMeansEnded
    <3>2. Idle /\ ~ coupled /\ \A s \in Works : ~ Unsettled(s)
      BY <2>2, <3>1 DEF Closed
    <3> QED
      BY <1>1, <3>2, IdleMeansEnded
  <2> QED
    BY <2>1, <2>2
<1>4. ASSUME ~ coupled' PROVE SlotsRest' /\ \A k \in Conversations : StartedBefore(k)'
  <2>1. SlotsRest /\ \A k \in Conversations : StartedBefore(k)
    BY <1>1, <1>4 DEF OrderInv
  <2>2. SlotsRest'
    BY <1>1, <2>1 DEF SlotsRest, Busy
  <2>3. ASSUME NEW k \in Conversations PROVE StartedBefore(k)'
    <3>1. Waiting(k)' = Waiting(k)
      BY <1>1 DEF Waiting
    <3> QED
      BY <1>0, <1>1, <2>1, <3>1, StillStarted DEF RegistryInv
  <2> QED
    BY <2>2, <2>3
<1> QED
  BY <1>0, <1>2, <1>3, <1>4 DEF OrderInv

\* A new process has no turns in the wrong order.
LEMMA RestartOrder ==
  ASSUME OrderInv, Restart
  PROVE  OrderInv'
<1> USE WorkAssumption DEF Restart
<1>0. RegistryInv'
  BY RestartInv DEF OrderInv
<1>1. QueuesTrue' /\ ClosedMeansEnded' /\ SlotsRest'
  <2>1. \A w \in Works : work'[w] \in {"new", "ended"}
    OBVIOUS
  <2>2. \A s \in Works : slots'[s].queue = <<>> /\ slots'[s].job = "none"
    BY DEF NewSlot
  <2>3. \A s \in Works : 1..Len(slots'[s].queue) = {}
    BY <2>2
  <2> QED
    BY <2>1, <2>2, <2>3 DEF QueuesTrue, ClosedMeansEnded, SlotsRest
<1>2. ASSUME NEW c \in Conversations PROVE StartedBefore(c)'
  <2>1. Waiting(c)' = <<>> /\ order'[c] = <<>>
    BY DEF Waiting
  <2> QED
    BY <2>1 DEF StartedBefore
<1> QED
  BY <1>0, <1>1, <1>2 DEF OrderInv

\* Nothing but the variables of the registry matters to the order.
LEMMA StutterOrder ==
  ASSUME OrderInv, UNCHANGED registry
  PROVE  OrderInv'
<1>1. RegistryInv'
  BY StutterInv DEF OrderInv
<1>2. UNCHANGED <<gate, slotAt, slots, work, order, coupled>>
  BY DEF registry
<1>3. QueuesTrue' /\ ClosedMeansEnded'
  BY <1>2, QueuesKept DEF OrderInv, ClosedMeansEnded
<1>4. ASSUME ~ coupled' PROVE SlotsRest' /\ \A k \in Conversations : StartedBefore(k)'
  <2>1. SlotsRest'
    BY <1>2, <1>4 DEF OrderInv, SlotsRest, Busy
  <2>2. ASSUME NEW k \in Conversations PROVE StartedBefore(k)'
    <3>1. Waiting(k)' = Waiting(k) /\ StartedBefore(k) /\ RegistryTypeOK
      BY <1>2, <1>4 DEF Waiting, OrderInv, RegistryInv
    <3> QED
      BY <1>2, <3>1, StillStarted
  <2> QED
    BY <2>1, <2>2
<1> QED
  BY <1>1, <1>3, <1>4 DEF OrderInv

\* No step of the registry disturbs the order.
LEMMA OrderStep == OrderInv /\ [RegistryNext]_registry => OrderInv'
BY SubmitOrder, EndTurnOrder, CallbackOrder, CloseOrder, RestartOrder, StutterOrder
   DEF RegistryNext

-----------------------------------------------------------------------------
\* The turns of a conversation are, in the order of their acceptance, those that have
\* started and then its queue, as long as no call overtakes a callback.
THEOREM OrderInvariant == RegistrySpec => []OrderInv
BY InitOrder, OrderStep, PTL DEF RegistrySpec

\* A turn that waits is in the queue, and so is all that was accepted after it.
LEMMA OrderServes == OrderInv => FirstComeFirstServed
<1> SUFFICES ASSUME OrderInv, ~ coupled, NEW c \in Conversations,
                    NEW i \in 1..Len(order[c]), NEW j \in 1..Len(order[c]),
                    i < j, work[order[c][i]] = "queued"
             PROVE  work[order[c][j]] = "queued"
  BY DEF FirstComeFirstServed
<1>0. RegistryTypeOK /\ QueuesTrue /\ StartedBefore(c)
  BY DEF OrderInv, RegistryInv
<1>1. PICK p \in Seq(Works) : p = order[c]
  BY <1>0 DEF RegistryTypeOK
<1>2. PICK q \in Seq(Works) : q = Waiting(c)
  BY <1>0, EmptyQueue DEF RegistryTypeOK, Slot, Waiting
<1>3. \A k \in 1..Len(q) : work[q[k]] = "queued"
  <2>1. CASE slotAt[c] = None
    <3>1. Len(q) = 0
      BY <1>2, <2>1 DEF Waiting
    <3> QED
      BY <3>1
  <2>2. CASE slotAt[c] # None
    BY <1>0, <1>2, <2>2 DEF Waiting, RegistryTypeOK, QueuesTrue
  <2> QED
    BY <2>1, <2>2
<1>4. PICK n \in Nat : n = Len(p) - Len(q)
  BY <1>0, <1>1, <1>2 DEF StartedBefore
<1>5. /\ \A k \in 1..n : work[p[k]] \notin {"new", "queued"}
      /\ \A k \in 1..Len(q) : p[n + k] = q[k]
  BY <1>0, <1>1, <1>2, <1>4 DEF StartedBefore
<1>6. i \in 1..Len(p) /\ j \in 1..Len(p) /\ work[p[i]] = "queued"
  BY <1>1
<1>7. i > n
  BY <1>5, <1>6
<1>8. PICK k \in 1..Len(q) : j = n + k
  <2>1. j - n \in 1..Len(q) /\ j = n + (j - n)
    BY <1>4, <1>6, <1>7
  <2> QED
    BY <2>1
<1> QED
  BY <1>1, <1>3, <1>5, <1>8

\* submit and the drain loop serve the turns of a conversation in the order they were
\* accepted, for any number of turns and conversations.
THEOREM FirstComeFirstServedAlways == RegistrySpec => []FirstComeFirstServed
BY OrderInvariant, OrderServes, PTL

\* When ActiveTurnRegistry.shutdown has returned, every turn it had accepted has ended.
THEOREM ClosedMeansEndedAlways == RegistrySpec => []ClosedMeansEnded
<1>1. OrderInv => ClosedMeansEnded
  BY DEF OrderInv
<1> QED
  BY OrderInvariant, <1>1, PTL
=============================================================================
