------------------------------- MODULE Logging -------------------------------
(***************************************************************************)
(* The log dispatcher (packages/runtime/src/logging) and its sinks, of     *)
(* which a write ends well or fails; how a sink rotates its files is left  *)
(* out.  One JavaScript thread runs everything: a step is what runs        *)
(* between two awaits.  Records queue up to a capacity while the sinks     *)
(* write the one before; a full queue drops by severity.                   *)
(* A control record (a sink failed or recovered, records were dropped) may *)
(* exceed the capacity by one.                                             *)
(***************************************************************************)
EXTENDS Naturals, Sequences, FiniteSets, FiniteSetsExt, SequencesExt

CONSTANTS
    Sinks,       \* the file sinks of the process
    AllLevels,   \* those of them that take every record
    Severities,  \* the severities logged, of DEBUG, INFO, WARN, ERROR as 0 .. 3
    Capacity,    \* capacity of the queue
    MaxRecords,  \* bound on the records the program logs
    MaxFailures  \* bound on writes that fail and on restarts

ASSUME LoggingAssumption ==
    /\ AllLevels \subseteq Sinks /\ Severities \subseteq 0 .. 3
    /\ Capacity \in Nat \ {0}
    /\ MaxRecords \in Nat /\ MaxFailures \in Nat

VARIABLES
    queue,      \* records to deliver: seq, severity and control
    inFlight,   \* the record being delivered, in a set, and
    writing,    \* the sinks whose write of it is under way
    pending,    \* pendingSequences
    sequence,   \* the last sequence number
    healthy,    \* sinkHealthy
    dropped,    \* the sum of droppedBySeverity
    unsaid,     \* droppedSinceControl
    waiters,    \* the barriers of flushes not resolved yet
    flushed,    \* the highest barrier of those resolved
    phase,      \* "open", then the steps of close: "flush", "sinks", "closed"
    logged, failures
queueVars == <<queue, inFlight, writing, pending, sequence, dropped, unsaid>>
flushVars == <<waiters, flushed, phase>>
loggingVars == <<queueVars, flushVars, healthy, logged, failures>>

LoggingInit ==
    /\ queue = <<>> /\ inFlight = {} /\ writing = {} /\ pending = {} /\ sequence = 0
    /\ dropped = 0 /\ unsaid = 0
    /\ waiters = {} /\ flushed = 0 /\ phase = "open"
    /\ healthy = [s \in Sinks |-> TRUE]
    /\ logged = 0 /\ failures = 0

-----------------------------------------------------------------------------
(* enqueue *)

(* displacementIndex: the first record of the program with the lowest       *)
(* severity in the queue, if that is below the incoming one's.              *)
Displaced(q, severity) ==
    LET lower == {i \in DOMAIN q : ~q[i].control /\ q[i].severity < severity}
    IN  {i \in lower : \A j \in lower : q[i].severity < q[j].severity
                                          \/ (q[i].severity = q[j].severity /\ i <= j)}

(* noteDrop: dropped is what stderr is told, at once, every minute and when *)
(* the dispatcher closes.                                                   *)
NoteDrop(b) == [b EXCEPT !.dropped = @ + 1, !.unsaid = @ + 1]

(* The queue and its counters, b, after a record is offered. *)
Without(b, i) == [b EXCEPT !.queue = RemoveAt(@, i), !.pending = @ \ {b.queue[i].seq}]
Evict(b, i) == NoteDrop(Without(b, i))
Enqueue(b, severity, control) ==
    LET n == b.sequence + 1
        entry == [seq |-> n, severity |-> severity, control |-> control]
        push(c) == [c EXCEPT !.sequence = n, !.queue = Append(@, entry), !.pending = @ \cup {n}]
        victim == Displaced(b.queue, severity)
    IN  IF Len(b.queue) < Capacity + (IF control THEN 1 ELSE 0) THEN push(b)
        ELSE IF victim # {} THEN push(Evict(b, Max(victim)))
        ELSE IF control THEN [b EXCEPT !.sequence = n]
        ELSE NoteDrop([b EXCEPT !.sequence = n])

Buffer == [queue |-> queue, pending |-> pending, sequence |-> sequence,
           dropped |-> dropped, unsaid |-> unsaid]
Buffered(b) ==
    /\ queue' = b.queue /\ pending' = b.pending /\ sequence' = b.sequence
    /\ dropped' = b.dropped /\ unsaid' = b.unsaid

(* checkWaiters resolves the flushes with nothing pending below. *)
StillWaiting(pend) == {w \in waiters : \E n \in pend : n <= w}
CheckWaiters(pend) == /\ waiters' = StillWaiting(pend)
                      /\ flushed' = Max({flushed} \cup (waiters \ StillWaiting(pend)))

(* dispatch *)
Log(severity) ==
    /\ phase = "open" /\ logged < MaxRecords
    /\ logged' = logged + 1
    /\ Buffered(Enqueue(Buffer, severity, FALSE))
    /\ UNCHANGED <<inFlight, writing, flushVars, healthy, failures>>

-----------------------------------------------------------------------------
(* process and deliver *)

(* The sinks whose filter takes a record: errors.log only from WARN on. *)
Matching(e) == {s \in Sinks : s \in AllLevels \/ e.severity >= 2}

(* (seeded fault: a record is no longer pending once its sinks have it) *)
TakeSettled(b) ==
    IF b.queue = <<>> THEN Buffered(b) /\ inFlight' = {} /\ writing' = {}
    ELSE /\ Buffered([b EXCEPT !.queue = Tail(@), !.pending = @ \ {Head(b.queue).seq}])
         /\ inFlight' = {Head(b.queue)} /\ writing' = Matching(Head(b.queue))

(* The head of the queue goes to its sinks. *)
Take(b) ==
    IF b.queue = <<>> THEN Buffered(b) /\ inFlight' = {} /\ writing' = {}
    ELSE /\ Buffered([b EXCEPT !.queue = Tail(@)])
         /\ inFlight' = {Head(b.queue)} /\ writing' = Matching(Head(b.queue))
Process ==
    /\ inFlight = {} /\ queue # <<>>
    /\ Take(Buffer)
    /\ UNCHANGED <<flushVars, healthy, logged, failures>>

(* The write of one sink ends well: a sink that had failed has recovered    *)
(* and says so.                                                             *)
WriteEnds(s, e) ==
    /\ e \in inFlight /\ s \in writing
    /\ writing' = writing \ {s}
    /\ healthy' = [healthy EXCEPT ![s] = TRUE]
    /\ Buffered(IF healthy[s] THEN Buffer ELSE Enqueue(Buffer, 1, TRUE))
    /\ UNCHANGED <<inFlight, flushVars, logged, failures>>
(* It fails.  The first failure of a sink says so, unless the record that   *)
(* failed is a control record.                                              *)
WriteFails(s, e) ==
    /\ e \in inFlight /\ s \in writing /\ failures < MaxFailures
    /\ failures' = failures + 1
    /\ writing' = writing \ {s}
    /\ healthy' = [healthy EXCEPT ![s] = FALSE]
    /\ Buffered(IF healthy[s] /\ ~e.control THEN Enqueue(Buffer, 3, TRUE) ELSE Buffer)
    /\ UNCHANGED <<inFlight, flushVars, logged>>

(* Every sink is done: the record leaves pendingSequences, flushes resolve, *)
(* records dropped meanwhile are announced by a control record, and the     *)
(* next record is taken.                                                    *)
Delivered(e) ==
    /\ e \in inFlight /\ writing = {}
    /\ LET b == [Buffer EXCEPT !.pending = @ \ {e.seq}]
           announced == IF ~e.control /\ unsaid > 0 THEN Enqueue([b EXCEPT !.unsaid = 0], 2, TRUE) ELSE b
       IN  CheckWaiters(b.pending) /\ Take(announced)
    /\ UNCHANGED <<phase, healthy, logged, failures>>

-----------------------------------------------------------------------------
(* flush, close, and a new process *)

FlushAt(barrier) ==
    IF \E n \in pending : n <= barrier
    THEN waiters' = waiters \cup {barrier} /\ UNCHANGED flushed
    ELSE flushed' = Max({flushed, barrier}) /\ UNCHANGED waiters
(* One flush at a time besides that of close. *)
Flush ==
    /\ phase = "open" /\ waiters = {}
    /\ FlushAt(sequence)
    /\ UNCHANGED <<queueVars, phase, healthy, logged, failures>>
CloseLogger ==
    /\ phase = "open" /\ phase' = "flush"
    /\ FlushAt(sequence)
    /\ UNCHANGED <<queueVars, healthy, logged, failures>>
(* After its flush close drains the queue and reports the drops. *)
Drain ==
    /\ phase = "flush" /\ waiters = {} /\ queue = <<>> /\ inFlight = {}
    /\ phase' = "sinks"
    /\ UNCHANGED <<queueVars, waiters, flushed, healthy, logged, failures>>
CloseSinks ==
    /\ phase = "sinks" /\ phase' = "closed"
    /\ UNCHANGED <<queueVars, waiters, flushed, healthy, logged, failures>>

(* The process ends where it is, and starts again with an empty queue.      *)
Restart ==
    /\ failures < MaxFailures /\ failures' = failures + 1
    /\ queue' = <<>> /\ inFlight' = {} /\ writing' = {} /\ pending' = {} /\ sequence' = 0
    /\ dropped' = 0 /\ unsaid' = 0
    /\ waiters' = {} /\ flushed' = 0 /\ phase' = "open"
    /\ healthy' = [s \in Sinks |-> TRUE]
    /\ UNCHANGED logged

LoggingNext ==
    \/ \E severity \in Severities : Log(severity)
    \/ Process \/ Flush \/ CloseLogger \/ Drain \/ CloseSinks \/ Restart
    \/ \E e \in inFlight : Delivered(e) \/ \E s \in Sinks : WriteEnds(s, e) \/ WriteFails(s, e)
LoggingSpec == LoggingInit /\ [][LoggingNext]_loggingVars

-----------------------------------------------------------------------------
(* When a flush resolves, every record logged before it has been written,   *)
(* has failed at its sinks or was dropped: none is still queued or in a     *)
(* sink's hands (flush, checkWaiters, pendingSequences).                    *)
FlushIsComplete == /\ \A i \in DOMAIN queue : queue[i].seq > flushed
                   /\ \A e \in inFlight : e.seq > flushed
-----------------------------------------------------------------------------
(* The inductive invariant behind it.                                       *)

Entry == [seq : Nat, severity : 0 .. 3, control : BOOLEAN]
BufferType == [queue : Seq(Entry), pending : SUBSET Nat, sequence : Nat, dropped : Nat, unsaid : Nat]

(* A queue whose records, with those under way, are pending, each once; and *)
(* what is pending came after the barrier and up to the last sequence.      *)
TrackedBuffer(b, under_way, barrier) ==
    /\ b \in BufferType
    /\ \A i \in DOMAIN b.queue : b.queue[i].seq \in b.pending
    /\ \A e \in under_way : e.seq \in b.pending
    /\ \A i, j \in DOMAIN b.queue : b.queue[i].seq = b.queue[j].seq => i = j
    /\ \A i \in DOMAIN b.queue, e \in under_way : b.queue[i].seq # e.seq
    /\ \A n \in b.pending : n > barrier /\ n <= b.sequence
    /\ barrier <= b.sequence

LoggingInv ==
    /\ TrackedBuffer(Buffer, inFlight, flushed)
    /\ inFlight \subseteq Entry /\ \A e, f \in inFlight : e = f
    /\ waiters \subseteq 0 .. sequence /\ flushed \in Nat
=============================================================================
