---------------------------- MODULE TurnRegistry ----------------------------
(***************************************************************************)
(* ActiveTurnRegistry: at most one turn per conversation runs, the turns   *)
(* submitted meanwhile wait in the queue of their slot.                    *)
(*                                                                         *)
(* The grain is one job of the event loop.  When a turn ends, its slot is  *)
(* free at once, but the callback that starts the next turn or drops the   *)
(* slot is a later job; until it ran, the turn is "unsettled".  A job that *)
(* was already waiting may run in between.                                 *)
(***************************************************************************)
EXTENDS Naturals, Sequences

CONSTANTS
  Works,         \* turns that may be submitted
  Conversations, \* keys of the registry
  Conv,          \* the conversation of a turn
  None

ASSUME WorkAssumption ==
  /\ Conv \in [Works -> Conversations]
  /\ None \notin Works

VARIABLES
  gate,      \* "open", "closing" once shutdown was called, "closed" once it
             \* returned
  slotAt,    \* the Map: the slot of a conversation; a slot is named after
             \* the turn whose submission created it
  slots,     \* the slot objects; closures keep one alive that left the Map
  work,      \* what became of each turn
  order,     \* (history) the turns accepted for a conversation, in order
  coupled    \* (history) a call ran while a direct turn was unsettled

registry == <<gate, slotAt, slots, work, order, coupled>>

WorkStatus == {"new", "queued", "running", "ended", "refused"}

\* Jobs: after a turn submit started itself, after a turn of the drain loop,
\* and after the drain loop itself.
Job == {"none", "direct", "loop", "drained"}

Slot == [active : Works \cup {None}, queue : Seq(Works), draining : BOOLEAN,
         job : Job]

\* The jobs of a slot fit its drain.
RegistryTypeOK ==
  /\ gate \in {"open", "closing", "closed"}
  /\ slotAt \in [Conversations -> Works \cup {None}]
  /\ slots \in [Works -> Slot]
  /\ \A s \in Works :
       /\ slots[s].job = "direct" => ~ slots[s].draining
       /\ slots[s].job \in {"loop", "drained"} => slots[s].draining
  /\ work \in [Works -> WorkStatus]
  /\ order \in [Conversations -> Seq(Works)]
  /\ coupled \in BOOLEAN

NewSlot == [active |-> None, queue |-> <<>>, draining |-> FALSE, job |-> "none"]

RegistryInit ==
  /\ gate = "open"
  /\ slotAt = [c \in Conversations |-> None]
  /\ slots = [s \in Works |-> NewSlot]
  /\ work = [w \in Works |-> "new"]
  /\ order = [c \in Conversations |-> <<>>]
  /\ coupled = FALSE

-----------------------------------------------------------------------------
\* (seeded fault: only the running turn is asked about, not the drain)
BusyWhileActive(s) == slots[s].active # None

Busy(s) == slots[s].active # None \/ slots[s].draining

Unsettled(s) == slots[s].job = "direct"

\* submit: refuse, queue behind the turn or the drain of the slot, or run.
Submit(w) ==
  LET c == Conv[w]
      s == IF slotAt[c] = None THEN w ELSE slotAt[c]
  IN
  /\ work[w] = "new"
  /\ \/ /\ gate # "open"
        /\ work' = [work EXCEPT ![w] = "refused"]
        /\ UNCHANGED <<slotAt, slots, order, coupled>>
     \/ /\ gate = "open"
        /\ slotAt' = [slotAt EXCEPT ![c] = s]
        /\ order' = [order EXCEPT ![c] = Append(@, w)]
        /\ coupled' = (coupled \/ Unsettled(s))
        /\ \/ /\ Busy(s)
              /\ slots' = [slots EXCEPT ![s].queue = Append(@, w)]
              /\ work' = [work EXCEPT ![w] = "queued"]
           \/ /\ ~ Busy(s)
              /\ slots' = [slots EXCEPT ![s].active = w]
              /\ work' = [work EXCEPT ![w] = "running"]
  /\ UNCHANGED gate

\* The last await of a running turn returns.  A turn awaits at least once, so
\* it cannot end before a job that was waiting when it started.
EndTurn(w) ==
  \E s \in Works :
    /\ slots[s].active = w
    /\ slots[s].job = "none"
    /\ slots' = [slots EXCEPT ![s].active = None,
                   ![s].job = IF slots[s].draining THEN "loop" ELSE "direct"]
    /\ work' = [work EXCEPT ![w] = "ended"]
    /\ UNCHANGED <<gate, slotAt, order, coupled>>

\* One round of the drain loop of slot s: run the head of its queue.
DrainNext(s) ==
  LET w == Head(slots[s].queue) IN
  /\ slots[s].queue # <<>>
  /\ slots' = [slots EXCEPT ![s] =
                 [active |-> w, queue |-> Tail(@.queue), draining |-> TRUE,
                  job |-> "none"]]
  /\ work' = [work EXCEPT ![w] = "running"]
  /\ UNCHANGED slotAt

\* (seeded fault: the slot is dropped although a turn runs in it)
DropSlotAnyway(s) ==
  slotAt' = [slotAt EXCEPT ![Conv[s]] = None]

\* Drop the slot from the Map, by its key, unless it is busy after this step.
DropSlot(s) ==
  slotAt' = [slotAt EXCEPT ![Conv[s]] = IF Busy(s)' THEN @ ELSE None]

\* scheduleDrain after a direct turn.
Settle(s) ==
  /\ slots[s].job = "direct"
  /\ \/ ~ Busy(s) /\ DrainNext(s)
     \/ /\ Busy(s) \/ slots[s].queue = <<>>
        /\ slots' = [slots EXCEPT ![s].job = "none"]
        /\ DropSlot(s)
        /\ UNCHANGED work

\* The drain loop resumes after one of its turns.
LoopOn(s) ==
  /\ slots[s].job = "loop"
  /\ \/ DrainNext(s)
     \/ /\ slots[s].queue = <<>>
        /\ slots' = [slots EXCEPT ![s].job = "drained"]
        /\ UNCHANGED <<slotAt, work>>

\* (seeded fault: what was queued after the last look at the queue is forgotten)
LeaveDrain(s) ==
  /\ slots[s].job = "drained"
  /\ slots' = [slots EXCEPT ![s].draining = FALSE, ![s].job = "none"]
  /\ DropSlot(s)
  /\ UNCHANGED work

\* (seeded fault: the drain is not deleted from the slot)
KeepDrain(s) ==
  /\ slots[s].job = "drained"
  /\ \/ DrainNext(s)
     \/ /\ slots[s].queue = <<>>
        /\ slots' = [slots EXCEPT ![s].job = "none"]
        /\ UNCHANGED <<slotAt, work>>

\* The drain loop has returned: start over if something was queued meanwhile.
EndDrain(s) ==
  /\ slots[s].job = "drained"
  /\ \/ DrainNext(s)
     \/ /\ slots[s].queue = <<>>
        /\ slots' = [slots EXCEPT ![s].draining = FALSE, ![s].job = "none"]
        /\ DropSlot(s)
        /\ UNCHANGED work

Callback(s) ==
  /\ Settle(s) \/ LoopOn(s) \/ EndDrain(s)
  /\ UNCHANGED <<gate, order, coupled>>

Close ==
  /\ gate = "open"
  /\ gate' = "closing"
  /\ UNCHANGED <<slotAt, slots, work, order, coupled>>

\* drainIdle finds no turn and no drain in the Map.
Idle == \A c \in Conversations : slotAt[c] # None => ~ Busy(slotAt[c])

\* shutdown resolves.
Closed ==
  /\ gate = "closing"
  /\ Idle
  /\ gate' = "closed"
  /\ coupled' = (coupled \/ \E s \in Works : Unsettled(s))
  /\ UNCHANGED <<slotAt, slots, work, order>>

\* The process died and starts again.
Restart ==
  /\ gate' = "open"
  /\ slotAt' = [c \in Conversations |-> None]
  /\ slots' = [s \in Works |-> NewSlot]
  /\ work' = [w \in Works |-> IF work[w] = "new" THEN "new" ELSE "ended"]
  /\ order' = [c \in Conversations |-> <<>>]
  /\ coupled' = FALSE

RegistryNext ==
  \/ \E w \in Works : Submit(w) \/ EndTurn(w) \/ Callback(w)
  \/ Close \/ Closed \/ Restart

RegistrySpec == RegistryInit /\ [][RegistryNext]_registry

\* The event loop runs its callbacks; a turn ends by its deadline at the latest.
RegistryFairSpec ==
  /\ RegistrySpec
  /\ \A w \in Works : WF_registry(Callback(w)) /\ WF_registry(EndTurn(w))
  /\ WF_registry(Closed)

-----------------------------------------------------------------------------
(* Properties.                                                               *)

\* Two turns of one conversation never run at the same time, whenever they are
\* submitted and whatever callbacks are still to run.
OneTurn ==
  \A v, w \in Works :
    v # w /\ Conv[v] = Conv[w] => work[v] # "running" \/ work[w] # "running"

\* Turns of a conversation start in the order they were accepted: nothing that
\* came later has started while a turn still waits.
FirstComeFirstServed ==
  coupled \/ \A c \in Conversations : \A i, j \in 1..Len(order[c]) :
    i < j /\ work[order[c][i]] = "queued" => work[order[c][j]] = "queued"

\* Every accepted turn ends, and so every queued turn gets its chance.
TurnsEnd == \A w \in Works : work[w] \in {"queued", "running"} ~> work[w] = "ended"

\* When shutdown has returned, every turn it had accepted has ended.
ClosedMeansEnded ==
  gate = "closed" /\ ~ coupled => \A w \in Works : work[w] \notin {"queued", "running"}

\* shutdown returns although turns were queued when it was called, and not before
\* every turn it had accepted has ended.
ShutdownReturns ==
  /\ gate = "closing" ~> gate # "closing"
  /\ []ClosedMeansEnded

-----------------------------------------------------------------------------
(* The inductive invariant behind OneTurn.                                   *)

\* A slot that has something to do, or a job to come, is the one that its
\* conversation maps to; dropping a slot by its key drops no other slot.
SlotsKept ==
  /\ \A c \in Conversations : slotAt[c] # None => Conv[slotAt[c]] = c
  /\ \A s \in Works :
       Busy(s) \/ slots[s].queue # <<>> \/ slots[s].job # "none" => slotAt[Conv[s]] = s

\* No turn runs in a slot whose drain is between two turns.
JobsIdle ==
  \A s \in Works : slots[s].job \in {"loop", "drained"} => slots[s].active = None

\* A turn runs if and only if a slot of its conversation says so.
RunningInSlot ==
  /\ \A s \in Works : slots[s].active # None =>
       work[slots[s].active] = "running" /\ Conv[slots[s].active] = Conv[s]
  /\ \A w \in Works : work[w] = "running" => \E s \in Works : slots[s].active = w

\* Slots queue turns of their own conversation.
QueueOfConversation ==
  \A s \in Works : \A i \in 1..Len(slots[s].queue) : Conv[slots[s].queue[i]] = Conv[s]

\* The registry agrees with itself after every job of the event loop.
RegistryInv ==
  /\ RegistryTypeOK /\ SlotsKept /\ JobsIdle /\ RunningInSlot /\ QueueOfConversation

-----------------------------------------------------------------------------
(* The inductive invariant behind FirstComeFirstServed and ClosedMeansEnded. *)

\* What waits in a queue is queued, once, and what is queued waits in a queue.
QueuesTrue ==
  /\ \A s \in Works :
       /\ \A i \in 1..Len(slots[s].queue) : work[slots[s].queue[i]] = "queued"
       /\ \A i, j \in 1..Len(slots[s].queue) : i # j => slots[s].queue[i] # slots[s].queue[j]
  /\ \A w \in Works : work[w] = "queued" =>
       \E s \in Works : \E i \in 1..Len(slots[s].queue) : slots[s].queue[i] = w

\* The turns that wait for a conversation: the queue of its slot.
Waiting(c) == IF slotAt[c] = None THEN <<>> ELSE slots[slotAt[c]].queue

\* No call has overtaken a callback: a slot whose turn is to be settled does nothing,
\* and a slot at rest has an empty queue.
SlotsRest ==
  \A s \in Works :
    /\ slots[s].job = "direct" => ~ Busy(s)
    /\ slots[s].job = "none" /\ ~ Busy(s) => slots[s].queue = <<>>

\* The turns of a conversation are the ones that have started, and then its queue.
StartedBefore(c) ==
  LET n == Len(order[c]) - Len(Waiting(c)) IN
  /\ n \in Nat
  /\ \A i \in 1..n : work[order[c][i]] \notin {"new", "queued"}
  /\ \A i \in 1..Len(Waiting(c)) : order[c][n + i] = Waiting(c)[i]

\* Queues, slots and turns agree in every state; order and rest where no call overtook.
OrderInv ==
  /\ RegistryInv
  /\ QueuesTrue
  /\ ~ coupled => SlotsRest /\ \A c \in Conversations : StartedBefore(c)
  /\ ClosedMeansEnded
=============================================================================
