---------------------------- MODULE ServiceProofs ----------------------------
(***************************************************************************)
(* Proofs about the processes around the conversation: the scheduler, the  *)
(* gateway launcher, the log dispatcher and the Telegram receivers with    *)
(* their pairing.  The four share no state; each has an inductive          *)
(* invariant, stated in its module, from which its properties follow.      *)
(***************************************************************************)
EXTENDS Scheduler, Telegram, Logging, Launcher,
        FiniteSetTheorems, SequenceTheorems, WellFoundedInduction, TLAPS

-----------------------------------------------------------------------------
(* The scheduler.                                                            *)

\* A dispatcher that moves on leaves the claims of the others as they are, and
\* takes new ones only where no run exists.
LEMMA DispatcherMoves ==
  ASSUME ScheduleInv, NEW d \in Dispatchers,
         ScheduleTypeOK', RowsTrue', ClaimsTrue(d)',
         \A e \in Dispatchers \ {d} : proc'[e] = proc[e],
         \A e \in Dispatchers \ {d} : \A o \in Claims(e) :
            runs'[o] = runs[o] /\ delivered'[o] = delivered[o],
         \A o \in Claims(d)' : o \in Claims(d) \/ runs[o] = "none"
  PROVE  ScheduleInv'
<1>1. \A e \in Dispatchers \ {d} : Claims(e)' = Claims(e)
  BY DEF Claims
<1>2. ASSUME NEW e \in Dispatchers, e # d PROVE ClaimsTrue(e)'
  <2>1. ClaimsTrue(e) /\ proc'[e] = proc[e]
    BY <1>2 DEF ScheduleInv
  <2>2. \A o \in Claims(e) : runs'[o] = runs[o] /\ delivered'[o] = delivered[o]
    BY <1>2
  <2> QED
    BY <2>1, <2>2 DEF ClaimsTrue, Claims
<1>3. ClaimsApart'
  <2>1. ASSUME NEW e \in Dispatchers, e # d PROVE Claims(d)' \cap Claims(e)' = {}
    <3>1. Claims(d) \cap Claims(e) = {} /\ \A o \in Claims(e) : runs[o] # "none"
      BY <2>1 DEF ScheduleInv, ClaimsApart, ClaimsTrue
    <3> QED
      BY <1>1, <2>1, <3>1
  <2> QED
    BY <1>1, <2>1 DEF ClaimsApart, ScheduleInv
<1> QED
  BY <1>2, <1>3 DEF ScheduleInv

\* The types of the scheduler's state, without the fields of a dispatcher.
LEMMA ScheduleTypes == ScheduleTypeOK <=>
    /\ time \in 0 .. MaxTime
    /\ nextRun \in [Jobs -> 0 .. MaxTime]
    /\ runs \in [Occurrences -> RunStatus]
    /\ delivered \in [Occurrences -> Nat]
    /\ proc \in [Dispatchers -> ProcType]
    /\ mishaps \in Nat
BY DEF ScheduleTypeOK

\* A dispatcher without a call.
LEMMA AsleepType == Asleep \in ProcType
BY SchedulerAssumption DEF Asleep, ProcType, RunStatus

\* A dispatcher that holds no claim, or gives up what it held.
LEMMA NoClaims ==
  ASSUME ScheduleInv, NEW d \in Dispatchers, NEW p \in ProcType, Advance(d, p),
         p.queue = {}, p.claim = {}, p.at \in {"idle", "scanned", "inserting"},
         UNCHANGED <<time, nextRun, runs, delivered>>, mishaps' \in {mishaps, mishaps + 1}
  PROVE  ScheduleInv'
<1>1. ScheduleTypeOK /\ RowsTrue
  BY DEF ScheduleInv
<1>2. proc'[d] = p /\ \A e \in Dispatchers \ {d} : proc'[e] = proc[e]
  BY <1>1, ScheduleTypes DEF Advance
<1>3. ScheduleTypeOK'
  BY <1>1, ScheduleTypes DEF Advance, ScheduleTypeOK, ProcType
<1>4. Claims(d)' = {}
  BY <1>2 DEF Claims
<1>5. ClaimsTrue(d)'
  BY <1>2, <1>4 DEF ClaimsTrue
<1>6. RowsTrue'
  BY <1>1 DEF RowsTrue
<1> QED
  BY <1>2, <1>3, <1>4, <1>5, <1>6, DispatcherMoves

\* A dispatcher on its way through its claims, of which it may have recorded the
\* current one.
LEMMA ClaimStep ==
  ASSUME ScheduleInv, NEW d \in Dispatchers, NEW p \in ProcType, Advance(d, p),
         p.queue = proc[d].queue, p.claim = proc[d].claim,
         runs' \in [Occurrences -> RunStatus], delivered' \in [Occurrences -> Nat],
         RowsTrue', \A o \in Occurrences : o \notin proc[d].claim => runs'[o] = runs[o] /\ delivered'[o] = delivered[o],
         proc[d].at \in {"run", "deliver", "record", "catch"}, p.at \in {"run", "deliver", "record", "catch"},
         \A o \in proc[d].claim :
           /\ p.at \in {"run", "deliver"} => runs'[o] = "claimed" /\ delivered'[o] = 0
           /\ p.at = "record" => runs'[o] = "claimed"
           /\ runs'[o] # "none"
           /\ p.outcome = "succeeded" => p.at = "record" /\ delivered'[o] = 1,
         p.at \in {"record", "catch"} => p.outcome # "none",
         UNCHANGED <<time, nextRun>>, mishaps' \in {mishaps, mishaps + 1}
  PROVE  ScheduleInv'
<1>1. ScheduleTypeOK /\ ClaimsTrue(d) /\ Claims(d) \subseteq Occurrences
  BY ScheduleTypes DEF ScheduleInv, Claims, ProcType
<1>2. proc'[d] = p /\ \A e \in Dispatchers \ {d} : proc'[e] = proc[e]
  BY <1>1, ScheduleTypes DEF Advance
<1>3. ScheduleTypeOK'
  BY <1>1, ScheduleTypes DEF Advance, ScheduleTypeOK, ProcType
<1>4. Claims(d)' = Claims(d)
  BY <1>2 DEF Claims
<1>5. ClaimsTrue(d)'
  BY <1>1, <1>2, <1>4 DEF ClaimsTrue, Claims
<1>6. \A e \in Dispatchers \ {d} : \A o \in Claims(e) : o \in Occurrences /\ o \notin proc[d].claim
  BY <1>1, ScheduleTypes DEF ScheduleInv, ClaimsApart, Claims, ProcType
<1> QED
  BY <1>2, <1>3, <1>4, <1>5, <1>6, DispatcherMoves

\* The next claim of a queue that is true becomes the current one.
LEMMA StartClaimInv ==
  ASSUME ScheduleInv, NEW d \in Dispatchers, NEW p \in ProcType, StartClaim(d, p),
         runs' \in [Occurrences -> RunStatus], RowsTrue',
         \A o \in p.queue : runs'[o] = "claimed" /\ delivered[o] = 0,
         p.queue \subseteq proc[d].queue \/ \A o \in p.queue : runs[o] = "none",
         \A e \in Dispatchers \ {d} : \A o \in Claims(e) : runs'[o] = runs[o],
         UNCHANGED <<time, nextRun, delivered, mishaps>>
  PROVE  ScheduleInv'
<1>1. ScheduleTypeOK /\ mishaps \in Nat
  BY DEF ScheduleInv, ScheduleTypeOK
<1>2. CASE p.queue = {} /\ Advance(d, Asleep)
  <2>1. proc'[d] = Asleep /\ \A e \in Dispatchers \ {d} : proc'[e] = proc[e]
    BY <1>1, <1>2, ScheduleTypes DEF Advance
  <2>2. ScheduleTypeOK'
    BY <1>1, <1>2, ScheduleTypes, AsleepType DEF Advance, ScheduleTypeOK, ProcType
  <2>3. Claims(d)' = {}
    BY <2>1 DEF Claims, Asleep
  <2>4. ClaimsTrue(d)'
    BY <2>1, <2>3 DEF ClaimsTrue, Asleep
  <2> QED
    BY <2>1, <2>2, <2>3, <2>4, DispatcherMoves
<1>3. ASSUME NEW o \in p.queue, Advance(d, Dispatching(p, o)) PROVE ScheduleInv'
  <2> DEFINE q == Dispatching(p, o)
  <2>1. /\ q \in ProcType /\ q.queue = p.queue \ {o} /\ q.claim = {o}
        /\ \/ q.at = "record" /\ q.outcome = "skipped"
           \/ q.at = "run" /\ q.outcome = "none"
    <3> DEFINE r == [p EXCEPT !.queue = @ \ {o}, !.claim = {o}]
    <3>1. r \in ProcType /\ r.queue = p.queue \ {o} /\ r.claim = {o}
      BY DEF ProcType
    <3> HIDE DEF r
    <3>2. q = IF Missed[o[1]] = "skip" /\ o[2] < p.now
              THEN [r EXCEPT !.at = "record", !.outcome = "skipped"]
              ELSE [r EXCEPT !.at = "run", !.tries = JobRetries + 1, !.outcome = "none"]
      BY DEF Dispatching, r
    <3>3. CASE q = [r EXCEPT !.at = "record", !.outcome = "skipped"]
      BY <3>1, <3>3 DEF ProcType, RunStatus
    <3>4. CASE q = [r EXCEPT !.at = "run", !.tries = JobRetries + 1, !.outcome = "none"]
      <4>1. JobRetries + 1 \in Nat
        BY SchedulerAssumption
      <4> QED
        BY <3>1, <3>4, <4>1, Zenon DEF ProcType, RunStatus
    <3> QED
      BY <3>2, <3>3, <3>4
  <2> HIDE DEF q
  <2>2. proc'[d] = q /\ \A e \in Dispatchers \ {d} : proc'[e] = proc[e]
    BY <1>1, <1>3, ScheduleTypes DEF Advance, q
  <2>3. ScheduleTypeOK'
    BY <1>1, <1>3, <2>1, ScheduleTypes DEF Advance, ScheduleTypeOK, ProcType, q
  <2>4. Claims(d)' = p.queue
    BY <1>3, <2>1, <2>2 DEF Claims
  <2>5. ClaimsTrue(d)'
    BY <1>3, <2>1, <2>2, <2>4 DEF ClaimsTrue
  <2> QED
    BY <2>2, <2>3, <2>4, <2>5, DispatcherMoves DEF Claims
<1> QED
  BY <1>2, <1>3 DEF StartClaim

\* claimDueRuns, which runs until the rows are inserted or the claim fails.
LEMMA ClaimInv ==
  ASSUME ScheduleInv, NEW d \in Dispatchers,
         Scan(d) \/ LockRows(d) \/ InsertRuns(d) \/ ClaimFails(d) \/ Die(d)
  PROVE  ScheduleInv'
<1>1. ScheduleTypeOK /\ RowsTrue /\ ClaimsTrue(d) /\ proc[d] \in ProcType /\ mishaps \in Nat
  BY ScheduleTypes DEF ScheduleInv
<1>2. CASE Scan(d)
  <2>1. [Asleep EXCEPT !.at = "scanned", !.now = time, !.seen = {j \in Jobs : Due(time, j)}] \in ProcType
    BY <1>1, AsleepType, ScheduleTypes DEF ProcType
  <2> QED
    BY <1>2, <2>1, NoClaims DEF Scan, Asleep
<1>3. CASE LockRows(d)
  <2> DEFINE free == {j \in proc[d].seen : /\ nextRun[j] <= proc[d].now
                                           /\ \A e \in Dispatchers : j \notin LockedBy(e)}
             rows == {<<j, nextRun[j]>> : j \in free}
             held == {o \in rows : Cardinality({x \in rows : DueFirst(x, o)}) < Limit}
             p == [proc[d] EXCEPT !.at = "inserting", !.seen = {}, !.held = held]
  <2>1. held \subseteq Occurrences
    BY <1>1, ScheduleTypes DEF ProcType, Occurrences
  <2>2. proc[d].queue = {} /\ proc[d].claim = {}
    BY <1>1, <1>3 DEF LockRows, ClaimsTrue, Claims
  <2>3. Advance(d, p) /\ UNCHANGED <<time, nextRun, runs, delivered, mishaps>>
    BY <1>3 DEF LockRows
  <2> HIDE DEF held
  <2>4. p \in ProcType /\ p.queue = {} /\ p.claim = {} /\ p.at = "inserting"
    BY <1>1, <2>1, <2>2 DEF ProcType
  <2> HIDE DEF p
  <2> QED
    BY <2>3, <2>4, NoClaims
<1>4. CASE InsertRuns(d)
  <2> DEFINE p == [proc[d] EXCEPT !.held = {}, !.queue = NewClaims(d)]
  <2>1. NewClaims(d) \subseteq Occurrences /\ \A o \in NewClaims(d) : runs[o] = "none" /\ delivered[o] = 0
    BY <1>1 DEF NewClaims, ProcType, RowsTrue
  <2>2. p \in ProcType /\ p.queue = NewClaims(d)
    BY <1>1, <2>1 DEF ProcType
  <2>3. /\ runs' \in [Occurrences -> RunStatus]
        /\ \A o \in Occurrences : runs'[o] = IF o \in NewClaims(d) THEN "claimed" ELSE runs[o]
    BY <1>1, <1>4, ScheduleTypes DEF InsertRuns, RunStatus
  <2>4. RowsTrue'
    BY <1>1, <1>4, <2>1, <2>3 DEF RowsTrue, InsertRuns
  <2>5. \A e \in Dispatchers \ {d} : \A o \in Claims(e) : runs'[o] = runs[o]
    <3>1. \A e \in Dispatchers : \A o \in Claims(e) : runs[o] # "none" /\ o \in Occurrences
      BY ScheduleTypes DEF ScheduleInv, ClaimsTrue, Claims, ProcType
    <3> QED
      BY <2>1, <2>3, <3>1
  <2>6. StartClaim(d, p) /\ UNCHANGED <<time, nextRun, delivered, mishaps>>
    BY <1>4 DEF InsertRuns
  <2> HIDE DEF p
  <2> QED
    BY <2>1, <2>2, <2>3, <2>4, <2>5, <2>6, StartClaimInv
<1>5. CASE ClaimFails(d) \/ Die(d)
  BY <1>5, AsleepType, NoClaims DEF ClaimFails, Die, Asleep
<1> QED
  BY <1>2, <1>3, <1>4, <1>5

\* dispatchClaim, up to the outcome.
LEMMA RunInv ==
  ASSUME ScheduleInv, NEW d \in Dispatchers, RunTarget(d) \/ Deliver(d)
  PROVE  ScheduleInv'
<1>1. /\ ScheduleTypeOK /\ RowsTrue /\ ClaimsTrue(d) /\ proc[d] \in ProcType /\ mishaps \in Nat
      /\ runs \in [Occurrences -> RunStatus] /\ delivered \in [Occurrences -> Nat]
      /\ proc[d].claim \subseteq Occurrences
  BY ScheduleTypes DEF ScheduleInv, ProcType
<1>2. CASE RunTarget(d)
  <2>0. /\ proc[d].at = "run" /\ UNCHANGED <<time, nextRun, runs, delivered, mishaps>> /\ RowsTrue'
        /\ \A o \in proc[d].claim : runs[o] = "claimed" /\ delivered[o] = 0 /\ proc[d].outcome # "succeeded"
    BY <1>1, <1>2 DEF RunTarget, RowsTrue, ClaimsTrue
  <2>1. ASSUME NEW p \in ProcType, Advance(d, p), p.queue = proc[d].queue, p.claim = proc[d].claim,
               \/ p.at = "deliver" /\ p.outcome = proc[d].outcome
               \/ p.at = "run" /\ p.outcome = proc[d].outcome
               \/ p.at = "catch" /\ p.outcome \in {"timed_out", "failed"}
        PROVE  ScheduleInv'
    BY <1>1, <2>0, <2>1, ClaimStep
  <2>2. \A p \in {[proc[d] EXCEPT !.at = "deliver", !.tries = 0],
                  [proc[d] EXCEPT !.at = "catch", !.outcome = "timed_out", !.tries = 0],
                  AttemptFailed(proc[d])} :
          /\ p \in ProcType /\ p.queue = proc[d].queue /\ p.claim = proc[d].claim
          /\ \/ p.at = "deliver" /\ p.outcome = proc[d].outcome
             \/ p.at = "run" /\ p.outcome = proc[d].outcome
             \/ p.at = "catch" /\ p.outcome \in {"timed_out", "failed"}
    <3> DEFINE Fine(p) == /\ p \in ProcType /\ p.queue = proc[d].queue /\ p.claim = proc[d].claim
                          /\ \/ p.at = "deliver" /\ p.outcome = proc[d].outcome
                             \/ p.at = "run" /\ p.outcome = proc[d].outcome
                             \/ p.at = "catch" /\ p.outcome \in {"timed_out", "failed"}
    <3>1. Fine([proc[d] EXCEPT !.at = "deliver", !.tries = 0])
      BY <1>1 DEF ProcType
    <3>2. Fine([proc[d] EXCEPT !.at = "catch", !.outcome = "timed_out", !.tries = 0])
      BY <1>1 DEF ProcType, RunStatus
    <3>3. Fine([proc[d] EXCEPT !.at = "catch", !.outcome = "failed", !.tries = 0])
      BY <1>1 DEF ProcType, RunStatus
    <3>4. proc[d].tries > 1 => Fine([proc[d] EXCEPT !.tries = @ - 1])
      <4>1. proc[d].tries \in Nat /\ (proc[d].tries > 1 => proc[d].tries - 1 \in Nat)
        BY <1>1 DEF ProcType
      <4> QED
        BY <1>1, <2>0, <4>1 DEF ProcType
    <3>5. Fine(AttemptFailed(proc[d]))
      BY <3>3, <3>4, Zenon DEF AttemptFailed
    <3> QED
      BY <3>1, <3>2, <3>5, Zenon
  <2>3. \E p \in {[proc[d] EXCEPT !.at = "deliver", !.tries = 0],
                  [proc[d] EXCEPT !.at = "catch", !.outcome = "timed_out", !.tries = 0],
                  AttemptFailed(proc[d])} : Advance(d, p)
    BY <1>2 DEF RunTarget
  <2> QED
    BY <2>1, <2>2, <2>3
<1>3. CASE Deliver(d)
  <2>1. PICK reached \in BOOLEAN, o \in proc[d].claim,
             end \in {<<"record", "succeeded">>, <<"record", "failed">>,
                       <<"catch", "failed">>, <<"catch", "timed_out">>} :
          /\ end[2] = "succeeded" => reached
          /\ delivered' = IF reached THEN [delivered EXCEPT ![o] = @ + 1] ELSE delivered
          /\ Advance(d, [proc[d] EXCEPT !.at = end[1], !.outcome = end[2]])
    BY <1>3 DEF Deliver
  <2> DEFINE p == [proc[d] EXCEPT !.at = end[1], !.outcome = end[2]]
  <2>2. /\ p \in ProcType /\ p.queue = proc[d].queue /\ p.claim = proc[d].claim
        /\ p.at \in {"record", "catch"} /\ p.outcome \in {"succeeded", "failed", "timed_out"}
        /\ (p.outcome = "succeeded" => p.at = "record" /\ reached)
    <3>1. \/ end[1] = "record" /\ end[2] = "succeeded" /\ reached
          \/ end[1] = "record" /\ end[2] = "failed"
          \/ end[1] = "catch" /\ end[2] \in {"failed", "timed_out"}
      BY <2>1
    <3>2. p.queue = proc[d].queue /\ p.claim = proc[d].claim /\ p.at = end[1] /\ p.outcome = end[2]
      BY <1>1 DEF ProcType
    <3>3. end[1] \in {"record", "catch"} /\ end[2] \in RunStatus \ {"claimed"}
      BY <3>1 DEF RunStatus
    <3>4. p \in ProcType
      BY <1>1, <3>3 DEF ProcType
    <3> QED
      BY <3>1, <3>2, <3>4
  <2>3. Advance(d, p)
    BY <2>1
  <2> HIDE DEF p
  <2>4. /\ runs[o] = "claimed" /\ delivered[o] = 0 /\ o \in Occurrences
        /\ \A x \in proc[d].claim : x = o
        /\ proc[d].at = "deliver" /\ UNCHANGED <<time, nextRun, runs, mishaps>>
    BY <1>1, <1>3, <2>1 DEF Deliver, ClaimsTrue
  <2>5. /\ delivered' \in [Occurrences -> Nat] /\ delivered'[o] \in {0, 1}
        /\ (reached => delivered'[o] = 1)
        /\ \A x \in Occurrences : x # o => delivered'[x] = delivered[x]
    BY <1>1, <2>1, <2>4
  <2>6. RowsTrue'
    BY <1>1, <2>4, <2>5 DEF RowsTrue
  <2> QED
    BY <1>1, <2>1, <2>2, <2>3, <2>4, <2>5, <2>6, ClaimStep
<1> QED
  BY <1>2, <1>3

\* Recording the outcome of the current claim.
LEMMA RecordInv ==
  ASSUME ScheduleInv, NEW d \in Dispatchers, CompleteRun(d) \/ CompleteFails(d)
  PROVE  ScheduleInv'
<1>1. /\ ScheduleTypeOK /\ RowsTrue /\ ClaimsTrue(d) /\ proc[d] \in ProcType /\ mishaps \in Nat
      /\ runs \in [Occurrences -> RunStatus] /\ delivered \in [Occurrences -> Nat]
      /\ proc[d].claim \subseteq Occurrences /\ proc[d].queue \subseteq Occurrences
      /\ proc[d].at \in {"record", "catch"}
  BY ScheduleTypes DEF ScheduleInv, ProcType, CompleteRun, CompleteFails
<1>2. PICK o \in proc[d].claim :
        \/ /\ Completable(o) /\ runs' = [runs EXCEPT ![o] = proc[d].outcome] /\ StartClaim(d, proc[d])
           /\ mishaps' = mishaps
        \/ /\ runs' = runs \/ (Completable(o) /\ runs' = [runs EXCEPT ![o] = proc[d].outcome])
           /\ Advance(d, RecordingFailed(proc[d])) /\ mishaps' \in {mishaps, mishaps + 1}
  BY DEF CompleteRun, CompleteFails
<1>3. /\ UNCHANGED <<time, nextRun, delivered>>
      /\ o \in Occurrences /\ (\A x \in proc[d].claim : x = o) /\ o \notin proc[d].queue
      /\ runs[o] # "none"
      /\ proc[d].outcome \in RunStatus \ {"none", "claimed"}
      /\ (proc[d].outcome = "succeeded" => delivered[o] = 1)
  BY <1>1 DEF CompleteRun, CompleteFails, ClaimsTrue, ProcType, Claims
<1>4. /\ runs' \in [Occurrences -> RunStatus] /\ runs'[o] # "none"
      /\ \A x \in Occurrences : x # o => runs'[x] = runs[x]
      /\ (runs'[o] = "succeeded" => delivered[o] = 1)
  BY <1>1, <1>2, <1>3 DEF RowsTrue
<1>5. RowsTrue'
  BY <1>1, <1>3, <1>4 DEF RowsTrue
<1>6. CASE StartClaim(d, proc[d]) /\ mishaps' = mishaps
  <2>1. \A e \in Dispatchers \ {d} : \A x \in Claims(e) : x \in Occurrences /\ x # o
    BY <1>3, ScheduleTypes DEF ScheduleInv, ClaimsApart, Claims, ProcType
  <2>2. \A x \in proc[d].queue : runs'[x] = "claimed" /\ delivered[x] = 0
    BY <1>1, <1>3, <1>4 DEF ClaimsTrue
  <2> QED
    BY <1>1, <1>3, <1>4, <1>5, <1>6, <2>1, <2>2, StartClaimInv
<1>7. CASE Advance(d, RecordingFailed(proc[d])) /\ mishaps' \in {mishaps, mishaps + 1}
  <2>1. CASE proc[d].at = "record"
    <3> DEFINE p == [proc[d] EXCEPT !.at = "catch", !.outcome = "failed"]
    <3>1. /\ p \in ProcType /\ p.queue = proc[d].queue /\ p.claim = proc[d].claim
          /\ p.at = "catch" /\ p.outcome = "failed"
      BY <1>1 DEF ProcType, RunStatus
    <3>2. Advance(d, p)
      BY <1>7, <2>1 DEF RecordingFailed
    <3> HIDE DEF p
    <3> QED
      BY <1>1, <1>3, <1>4, <1>5, <1>7, <2>1, <3>1, <3>2, ClaimStep
  <2>2. CASE proc[d].at = "catch"
    <3>1. proc' = [proc EXCEPT ![d] = Asleep]
      BY <1>7, <2>2 DEF RecordingFailed, Advance
    <3>2. proc'[d] = Asleep /\ \A e \in Dispatchers \ {d} : proc'[e] = proc[e]
      BY <1>1, <3>1, ScheduleTypes
    <3>3. ScheduleTypeOK'
      BY <1>1, <1>3, <1>4, <1>7, <3>1, ScheduleTypes, AsleepType DEF ScheduleTypeOK, ProcType
    <3>4. Claims(d)' = {}
      BY <3>2 DEF Claims, Asleep
    <3>5. ClaimsTrue(d)'
      BY <3>2, <3>4 DEF ClaimsTrue, Asleep
    <3>6. \A e \in Dispatchers \ {d} : \A x \in Claims(e) : x \in Occurrences /\ x # o
      BY <1>3, ScheduleTypes DEF ScheduleInv, ClaimsApart, Claims, ProcType
    <3> QED
      BY <1>3, <1>4, <1>5, <3>2, <3>3, <3>4, <3>5, <3>6, DispatcherMoves
  <2> QED
    BY <1>1, <2>1, <2>2
<1> QED
  BY <1>2, <1>6, <1>7

\* The clock and the owner of a job touch no run.
LEMMA OutsideInv ==
  ASSUME ScheduleInv, TimePasses \/ (\E j \in Jobs : Rearm(j)) \/ UNCHANGED scheduleVars
  PROVE  ScheduleInv'
<1>1. /\ time' \in 0 .. MaxTime /\ nextRun' \in [Jobs -> 0 .. MaxTime] /\ mishaps' \in Nat
      /\ UNCHANGED <<runs, delivered, proc>>
  BY SchedulerAssumption DEF ScheduleInv, ScheduleTypeOK, TimePasses, Rearm, scheduleVars
<1> QED
  BY <1>1 DEF ScheduleInv, ScheduleTypeOK, RowsTrue, ClaimsApart, ClaimsTrue, Claims

\* However dispatchers interleave and fail, the rows, the deliveries and what
\* each dispatcher knows of its claims agree.
THEOREM ScheduleInvariant == ScheduleSpec => []ScheduleInv
<1>1. ScheduleInit => ScheduleInv
  <2> SUFFICES ASSUME ScheduleInit PROVE ScheduleInv
    OBVIOUS
  <2>1. 0 \in 0 .. MaxTime
    BY SchedulerAssumption
  <2>2. ScheduleTypeOK
    BY <2>1, AsleepType, ScheduleTypes DEF ScheduleInit, RunStatus
  <2>3. \A d \in Dispatchers : Claims(d) = {}
    BY DEF ScheduleInit, Claims, Asleep
  <2>4. RowsTrue /\ ClaimsApart /\ \A d \in Dispatchers : ClaimsTrue(d)
    BY <2>3 DEF ScheduleInit, RowsTrue, ClaimsApart, ClaimsTrue, Asleep
  <2> QED
    BY <2>2, <2>4 DEF ScheduleInv
<1>2. ScheduleInv /\ [ScheduleNext]_scheduleVars => ScheduleInv'
  BY ClaimInv, RunInv, RecordInv, OutsideInv DEF ScheduleNext, Dispatch
<1> QED
  BY <1>1, <1>2, PTL DEF ScheduleSpec

\* claimDueRuns and dispatchClaim bring an occurrence to the user at most once.
THEOREM OccurrenceOnceAlways == ScheduleSpec => []OccurrenceOnce
<1>1. ScheduleInv => OccurrenceOnce
  BY DEF ScheduleInv, RowsTrue, OccurrenceOnce
<1> QED
  BY <1>1, ScheduleInvariant, PTL

\* completeRun never rewrites an outcome, and records a success only after the
\* delivery.
THEOREM OutcomeRecordedOnceAlways == ScheduleSpec => OutcomeRecordedOnce
<1> DEFINE Once == \A o \in Occurrences :
                     /\ runs[o] \notin {"none", "claimed"} => runs'[o] = runs[o]
                     /\ runs'[o] = "succeeded" => delivered[o] = 1
<1>1. ScheduleInv /\ [ScheduleNext]_scheduleVars => [Once]_scheduleVars
  <2> SUFFICES ASSUME ScheduleInv, ScheduleNext PROVE Once
    OBVIOUS
  <2>1. RowsTrue /\ runs \in [Occurrences -> RunStatus]
    BY ScheduleTypes DEF ScheduleInv
  <2>2. CASE UNCHANGED runs
    BY <2>1, <2>2 DEF RowsTrue
  <2>3. CASE \E d \in Dispatchers : InsertRuns(d)
    BY <2>1, <2>3 DEF RowsTrue, InsertRuns, NewClaims
  <2>4. ASSUME NEW d \in Dispatchers, CompleteRun(d) \/ CompleteFails(d) PROVE Once
    <3>1. ClaimsTrue(d) /\ proc[d].at \in {"record", "catch"}
      BY <2>4 DEF ScheduleInv, CompleteRun, CompleteFails
    <3>2. PICK o \in proc[d].claim : runs' = runs \/ (runs[o] = "claimed" /\ runs' = [runs EXCEPT ![o] = proc[d].outcome])
      BY <2>4 DEF CompleteRun, CompleteFails, Completable, ActiveStatuses
    <3>3. proc[d].outcome = "succeeded" => delivered[o] = 1
      BY <3>1 DEF ClaimsTrue
    <3> QED
      BY <2>1, <3>2, <3>3 DEF RowsTrue
  <2>5. \/ UNCHANGED runs
        \/ \E d \in Dispatchers : InsertRuns(d) \/ CompleteRun(d) \/ CompleteFails(d)
    BY DEF ScheduleNext, Dispatch, TimePasses, Rearm, Scan, LockRows, RunTarget, Deliver,
       ClaimFails, Die
  <2> QED
    BY <2>2, <2>3, <2>4, <2>5
<1> QED
  BY <1>1, ScheduleInvariant, PTL DEF ScheduleSpec, OutcomeRecordedOnce

-----------------------------------------------------------------------------
(* The launcher.                                                             *)

\* The states of a gateway process.
GatewayStates == {"none", "booting", "bound", "ready", "closing", "unbound", "dead"}

\* What the state file may hold.
LEMMA FileRange ==
  /\ Pids \subseteq 0 .. MaxPid /\ 0 \in 0 .. MaxPid /\ 0 .. MaxPid \subseteq 0 .. Garbage
  /\ Absent \in 0 .. Garbage /\ Garbage \in 0 .. Garbage /\ Absent \notin Pids /\ Garbage \notin Pids
BY LauncherAssumption DEF Pids, Garbage, Absent

\* Signals and the steps of a gateway process bring none to life.
LEMMA SignalsOnly ==
  ASSUME NEW p, gateway \in [Pids -> GatewayStates]
  PROVE  /\ Terminated(p) \in [Pids -> GatewayStates] /\ Killed(p) \in [Pids -> GatewayStates]
         /\ \A q \in Pids : /\ Terminated(p)[q] \notin {"none", "dead"} => gateway[q] \notin {"none", "dead"}
                            /\ Killed(p)[q] \notin {"none", "dead"} => q # p /\ gateway[q] \notin {"none", "dead"}
BY DEF Terminated, Killed, Alive, GatewayStates

\* A step of a command that runs alone: what it knows of the file, and that every
\* live gateway is accounted for, is enough.
LEMMA AloneInv ==
  ASSUME LauncherInv, NEW c \in Commands, LauncherTypeOK',
         \A e \in Commands \ {c} : command'[e] = command[e],
         ~disturbed' => /\ ~disturbed /\ Running \subseteq {c}
                        /\ Accounted'
                        /\ command'[c].at # "idle" => FileKnown(c)'
  PROVE  LauncherInv'
<1>1. CASE disturbed'
  BY <1>1, Zenon DEF LauncherInv
<1>2. CASE ~disturbed'
  <2>1. Running' \subseteq {c}
    BY <1>2 DEF Running
  <2>2. \A e \in Running' : FileKnown(e)'
    BY <1>2, <2>1 DEF Running
  <2>3. \A e, f \in Running' : e = f
    BY <2>1
  <2> QED
    BY <1>2, <2>2, <2>3, Zenon DEF LauncherInv
<1> QED
  BY <1>1, <1>2

\* A gateway process moves, and no other comes to life.
LEMMA GatewayInv ==
  ASSUME LauncherInv, NEW p \in Pids,
         Bind(p) \/ StartIntake(p) \/ CloseServer(p) \/ CloseRuntime(p) \/ GatewayFails(p)
  PROVE  LauncherInv'
<1>1. /\ gateway \in [Pids -> GatewayStates] /\ LauncherTypeOK
      /\ \E to \in GatewayStates : gateway' = [gateway EXCEPT ![p] = to]
      /\ Alive(p)
      /\ UNCHANGED <<file, command, cli, abandoned, disturbed, calls>>
  BY DEF LauncherInv, LauncherTypeOK, Bind, StartIntake, CloseServer, CloseRuntime, GatewayFails,
     Runs, GatewayIs, Alive, GatewayStates
<1>2. \A q : Alive(q)' => Alive(q)
  BY <1>1 DEF Alive
<1>3. LauncherTypeOK'
  BY <1>1, Zenon DEF LauncherTypeOK, GatewayStates
<1>4. Accounted => Accounted'
  BY <1>1, <1>2 DEF Accounted, Starting
<1>5. \A c : FileKnown(c) => FileKnown(c)'
  BY <1>1, <1>2 DEF FileKnown, Starting
<1>6. Running' = Running /\ disturbed' = disturbed
  BY <1>1 DEF Running
<1> QED
  BY <1>3, <1>4, <1>5, <1>6, Zenon DEF LauncherInv

\* Only the types matter once the CLI takes part or a command dies.
LEMMA DisturbedInv ==
  ASSUME LauncherInv,
         \/ \E c \in Commands : CommandDies(c)
         \/ CliDetect \/ CliStart \/ CliHide
         \/ CliStop \/ CliTerminate \/ CliExited \/ CliWaitEnds \/ CliClear
  PROVE  LauncherInv'
<1>1. LauncherTypeOK /\ gateway \in [Pids -> GatewayStates] /\ Pids \subseteq 0 .. MaxPid
      /\ 0 \in 0 .. MaxPid /\ 0 .. MaxPid \subseteq 0 .. Garbage /\ Absent \in 0 .. Garbage
      /\ calls \in Nat /\ calls + 1 \in Nat
  <2>1. LauncherTypeOK /\ gateway \in [Pids -> GatewayStates] /\ calls \in Nat
    BY DEF LauncherInv, LauncherTypeOK, GatewayStates
  <2> QED
    BY <2>1, FileRange
<1>2. disturbed' = TRUE
  BY DEF CommandDies, CliDetect, CliStart, CliHide, CliStop, CliTerminate, CliExited, CliWaitEnds,
     CliClear, CliCall
<1>3. ASSUME NEW c \in Commands, CommandDies(c) PROVE LauncherTypeOK'
  <2>1. /\ command' = [command EXCEPT ![c] = [at |-> "idle", pid |-> 0]]
        /\ UNCHANGED <<gateway, file, cli, abandoned, calls>>
    BY <1>3 DEF CommandDies, EndCommand, Waiting
  <2> QED
    BY <1>1, <1>2, <2>1 DEF LauncherTypeOK
<1>4. ASSUME CliDetect \/ CliStart \/ CliHide \/ CliStop \/ CliTerminate \/ CliExited \/ CliWaitEnds \/ CliClear
      PROVE  LauncherTypeOK'
  <2>1. UNCHANGED <<command, abandoned>> /\ calls' \in Nat
    BY <1>1, <1>4 DEF CliDetect, CliStart, CliHide, CliStop, CliTerminate, CliExited, CliWaitEnds,
       CliClear, CliCall, CliAsk
  <2>2. file' \in 0 .. Garbage
    BY <1>1, <1>4 DEF CliDetect, CliStart, CliHide, CliStop, CliTerminate, CliExited, CliWaitEnds,
       CliClear, LauncherTypeOK
  <2>3. gateway' \in [Pids -> GatewayStates]
    BY <1>1, <1>4, SignalsOnly DEF CliDetect, CliStart, CliHide, CliStop, CliTerminate, CliExited,
       CliWaitEnds, CliClear, GatewayIs, GatewayStates
  <2>4. cli' \in [at : {"idle", "exit", "hung", "hidden", "wait", "clear"},
                  status : {"stopped", "stopping", "running-attached", "running-background"},
                  engine : 0 .. MaxPid]
    <3>1. cli.engine \in 0 .. MaxPid /\ (Alive(file) => file \in 0 .. MaxPid)
      BY <1>1 DEF LauncherTypeOK, Alive
    <3>2. PICK at, status, engine :
            /\ cli' = [at |-> at, status |-> status, engine |-> engine]
            /\ at \in {"idle", "exit", "hung", "hidden", "wait", "clear"}
            /\ status \in {"stopped", "stopping", "running-attached", "running-background"}
            /\ engine \in {cli.engine, 0} \/ (engine = NextPid /\ NextPid \in Pids) \/ (engine = file /\ Alive(file))
      <4> DEFINE Goes(at, status, engine) ==
            /\ cli' = [at |-> at, status |-> status, engine |-> engine]
            /\ at \in {"idle", "exit", "hung", "hidden", "wait", "clear"}
            /\ status \in {"stopped", "stopping", "running-attached", "running-background"}
            /\ engine \in {cli.engine, 0} \/ (engine = NextPid /\ NextPid \in Pids) \/ (engine = file /\ Alive(file))
      <4>1. CliDetect => Goes("idle", IF Alive(file) THEN "running-background" ELSE "stopped", cli.engine)
        BY DEF CliDetect, CliCall
      <4>2. CliStart => Goes("idle", "running-attached", NextPid) \/ Goes("idle", "stopped", cli.engine)
        BY DEF CliStart, CliCall
      <4>3. CliHide => Goes("idle", "running-background", cli.engine)
        BY DEF CliHide, CliCall
      <4>4. CliStop => \/ Goes(IF Alive(cli.engine) THEN "exit" ELSE "hung", "stopping", cli.engine)
                       \/ Goes("hidden", "stopping", file) \/ Goes("clear", "stopping", 0)
        BY DEF CliStop, CliCall
      <4>5. CliTerminate => Goes("wait", "stopping", cli.engine) \/ Goes("idle", "stopping", 0)
        BY DEF CliTerminate, CliCall
      <4>6. CliExited \/ CliWaitEnds => Goes("clear", "stopping", 0)
        BY DEF CliExited, CliWaitEnds, CliCall
      <4>7. CliClear => Goes("idle", "stopped", 0)
        BY DEF CliClear, CliCall
      <4>8. \E at, status, engine : Goes(at, status, engine)
        <5> HIDE DEF Goes
        <5> QED
          BY <1>4, <4>1, <4>2, <4>3, <4>4, <4>5, <4>6, <4>7, Zenon
      <4> QED
        BY <4>8, Zenon
    <3>3. engine \in 0 .. MaxPid
      BY <1>1, <3>1, <3>2
    <3> QED
      BY <3>2, <3>3
  <2> QED
    BY <1>1, <1>2, <2>1, <2>2, <2>3, <2>4 DEF LauncherTypeOK, GatewayStates
<1>5. LauncherTypeOK'
  BY <1>3, <1>4
<1> QED
  BY <1>2, <1>5, Zenon DEF LauncherInv

\* A command begins: it read the file, and runs alone or disturbs another.
LEMMA BeginInv ==
  ASSUME LauncherInv, NEW c \in Commands, StartDaemon(c) \/ StopDaemon(c) \/ Status(c)
  PROVE  LauncherInv'
<1>1. LauncherTypeOK /\ command[c].at = "idle" /\ command[c].pid \in 0 .. MaxPid
      /\ UNCHANGED <<gateway, file, cli, abandoned>>
      /\ calls' = calls + 1 /\ disturbed' = (disturbed \/ Running # {})
  BY DEF LauncherInv, LauncherTypeOK, StartDaemon, StopDaemon, Status, BeginCommand
<1>2. PICK at, pid :
        /\ pid \in 0 .. MaxPid
        /\ command' = [command EXCEPT ![c] = [at |-> at, pid |-> pid]]
        /\ \/ at = "idle"
           \/ at \in {"spawn", "clear, spawn", "clear, idle"} /\ ~Alive(file)
           \/ at = "terminate" /\ pid = file /\ Alive(file)
  <2> DEFINE Goes(at, pid) ==
               /\ pid \in 0 .. MaxPid
               /\ command' = [command EXCEPT ![c] = [at |-> at, pid |-> pid]]
               /\ \/ at = "idle"
                  \/ at \in {"spawn", "clear, spawn", "clear, idle"} /\ ~Alive(file)
                  \/ at = "terminate" /\ pid = file /\ Alive(file)
  <2>1. \A at : Step(c, at) => command' = [command EXCEPT ![c] = [at |-> at, pid |-> command[c].pid]]
    BY <1>1 DEF Step, LauncherTypeOK
  <2>2. (Alive(file) => file \in 0 .. MaxPid) /\ 0 \in 0 .. MaxPid
    BY FileRange DEF Alive
  <2>3. Load(c, "idle", "spawn") \/ Load(c, "terminate", "idle") \/ Load(c, "idle", "idle")
    BY DEF StartDaemon, StopDaemon, Status
  <2>4. Load(c, "idle", "spawn") => \/ Goes("idle", 0) \/ Goes("spawn", command[c].pid)
                                    \/ Goes("clear, spawn", command[c].pid)
    BY <1>1, <2>1, <2>2 DEF Load, Stale
  <2>5. Load(c, "terminate", "idle") => \/ Goes("terminate", file) \/ Goes("idle", command[c].pid)
                                        \/ Goes("clear, idle", command[c].pid)
    BY <1>1, <2>1, <2>2 DEF Load, Stale
  <2>6. Load(c, "idle", "idle") => \/ Goes("idle", 0) \/ Goes("idle", command[c].pid)
                                   \/ Goes("clear, idle", command[c].pid)
    BY <1>1, <2>1, <2>2 DEF Load, Stale
  <2>7. \E at, pid : Goes(at, pid)
    <3> HIDE DEF Goes
    <3> QED
      BY <2>3, <2>4, <2>5, <2>6, Zenon
  <2> QED
    BY <2>7, Zenon
<1>3. LauncherTypeOK'
  <2>1. pid \in Pids \/ at \notin {"probe", "save", "terminate", "wait"}
    BY <1>2 DEF Alive
  <2>2. disturbed' \in BOOLEAN
    BY <1>1, Zenon DEF LauncherTypeOK
  <2>3. [at |-> at, pid |-> pid] \in
          [at : {"idle", "spawn", "clear, spawn", "clear, idle", "terminate", "wait", "clear",
                 "probe", "save"}, pid : 0 .. MaxPid]
    BY <1>2
  <2>4. command' \in [Commands ->
           [at : {"idle", "spawn", "clear, spawn", "clear, idle", "terminate", "wait", "clear",
                  "probe", "save"}, pid : 0 .. MaxPid]]
    BY <1>1, <1>2, <2>3 DEF LauncherTypeOK
  <2>5. \A e \in Commands : command'[e].at \in {"probe", "save", "terminate", "wait"} => command'[e].pid \in Pids
    BY <1>1, <1>2, <2>1 DEF LauncherTypeOK
  <2>6. calls' \in Nat
    <3>1. calls \in Nat /\ calls' = calls + 1
      BY <1>1, Zenon DEF LauncherTypeOK
    <3> QED
      BY <3>1
  <2> QED
    BY <1>1, <2>2, <2>4, <2>5, <2>6, Zenon DEF LauncherTypeOK
<1>4. ASSUME ~disturbed' PROVE /\ ~disturbed /\ Running = {}
                               /\ Accounted' /\ (command'[c].at # "idle" => FileKnown(c)')
  <2>1. ~disturbed /\ Running = {}
    BY <1>1, <1>4, Zenon
  <2>2. Accounted
    BY <2>1, Zenon DEF LauncherInv
  <2>3. \A e \in Commands : command[e].at = "idle"
    BY <2>1 DEF Running
  <2>4. \A p \in Pids : Alive(p) => file = p \/ p \in abandoned
    BY <2>2, <2>3 DEF Accounted, Starting
  <2>5. Accounted'
    BY <1>1, <2>4 DEF Accounted, Alive
  <2>6. command'[c] = [at |-> at, pid |-> pid]
    BY <1>1, <1>2 DEF LauncherTypeOK
  <2>7. FileKnown(c)' \/ at = "idle"
    <3>1. Alive(file)' = Alive(file) /\ file' = file
      BY <1>1 DEF Alive
    <3>2. command'[c].at = at /\ command'[c].pid = pid
      BY <2>6
    <3> QED
      BY <1>2, <3>1, <3>2 DEF FileKnown, Starting
  <2> QED
    BY <2>1, <2>5, <2>6, <2>7
<1>5. \A e \in Commands \ {c} : command'[e] = command[e]
  BY <1>1, <1>2 DEF LauncherTypeOK
<1> QED
  BY <1>3, <1>4, <1>5, AloneInv

\* A command goes on.
LEMMA CommandInv ==
  ASSUME LauncherInv, NEW c \in Commands,
         \/ \E next \in {"spawn", "idle"} : ClearStale(c, next)
         \/ Spawn(c) \/ ProbeReady(c) \/ ProbeFails(c) \/ Save(c) \/ SaveFails(c)
         \/ Terminate(c) \/ WaitEnds(c) \/ Clear(c)
  PROVE  LauncherInv'
<1> DEFINE was == command[c].at
           pid == command[c].pid
<1>1. /\ LauncherTypeOK /\ gateway \in [Pids -> GatewayStates] /\ was # "idle"
      /\ UNCHANGED <<cli, disturbed, calls>>
      /\ (was \in {"probe", "save", "terminate", "wait"} => pid \in Pids)
      /\ pid \in 0 .. MaxPid
  BY DEF LauncherInv, LauncherTypeOK, GatewayStates, ClearStale, Stale, Spawn, ProbeReady, ProbeFails,
     Save, SaveFails, Terminate, WaitEnds, Clear
<1>2. PICK at, to :
        /\ to \in 0 .. MaxPid
        /\ command' = [command EXCEPT ![c] = [at |-> at, pid |-> to]]
        /\ \/ at = "idle"
           \/ was = "clear, spawn" /\ at = "spawn" /\ file' = Absent
           \/ was = "spawn" /\ at = "probe" /\ to \in Pids
           \/ was = "probe" /\ at = "save" /\ to = pid
           \/ was = "terminate" /\ at = "wait" /\ to = pid
           \/ was = "wait" /\ at = "clear"
  <2> DEFINE Goes(at, to) ==
               /\ to \in 0 .. MaxPid
               /\ command' = [command EXCEPT ![c] = [at |-> at, pid |-> to]]
               /\ \/ at = "idle"
                  \/ was = "clear, spawn" /\ at = "spawn" /\ file' = Absent
                  \/ was = "spawn" /\ at = "probe" /\ to \in Pids
                  \/ was = "probe" /\ at = "save" /\ to = pid
                  \/ was = "terminate" /\ at = "wait" /\ to = pid
                  \/ was = "wait" /\ at = "clear"
  <2>1. \A at : Step(c, at) => command' = [command EXCEPT ![c] = [at |-> at, pid |-> pid]]
    BY <1>1 DEF Step, LauncherTypeOK
  <2>2. EndCommand(c) => command' = [command EXCEPT ![c] = [at |-> "idle", pid |-> 0]]
    BY DEF EndCommand, Waiting
  <2>3. 0 \in 0 .. MaxPid /\ Pids \subseteq 0 .. MaxPid
    BY FileRange
  <2>4. (\E next \in {"spawn", "idle"} : ClearStale(c, next)) => Goes("spawn", pid) \/ Goes("idle", pid)
    BY <1>1, <2>1 DEF ClearStale, Stale
  <2>5. Spawn(c) => Goes("probe", NextPid) \/ Goes("idle", 0)
    BY <2>2, <2>3 DEF Spawn
  <2>6. /\ ProbeReady(c) => Goes("save", pid)
        /\ Terminate(c) => Goes("wait", pid)
        /\ WaitEnds(c) => Goes("clear", pid)
    BY <1>1, <2>1 DEF ProbeReady, Terminate, WaitEnds
  <2>7. ProbeFails(c) \/ Save(c) \/ SaveFails(c) \/ Clear(c) => Goes("idle", 0)
    BY <2>2, <2>3 DEF ProbeFails, Save, SaveFails, Clear, GiveUp
  <2>8. \E at, to : Goes(at, to)
    <3> HIDE DEF Goes
    <3> QED
      BY <2>4, <2>5, <2>6, <2>7, Zenon
  <2> QED
    BY <2>8, Zenon
<1>3. command'[c] = [at |-> at, pid |-> to] /\ \A e \in Commands \ {c} : command'[e] = command[e]
  BY <1>1, <1>2 DEF LauncherTypeOK
<1>4. LauncherTypeOK'
  <2>1. gateway' \in [Pids -> GatewayStates]
    BY <1>1, SignalsOnly DEF ClearStale, Spawn, ProbeReady, ProbeFails, Save, SaveFails, Terminate,
       WaitEnds, Clear, GiveUp, GatewayIs, KillIfAlive, GatewayStates
  <2>2. file' \in 0 .. Garbage
    <3>1. file' \in {file, Absent, Garbage} \/ file' = pid
      BY DEF ClearStale, Spawn, ProbeReady, ProbeFails, Save, SaveFails, Terminate, WaitEnds, Clear
    <3>2. file \in 0 .. Garbage
      BY <1>1 DEF LauncherTypeOK
    <3> QED
      BY <1>1, <3>1, <3>2, FileRange
  <2>3. abandoned' \subseteq Pids
    BY <1>1 DEF LauncherTypeOK, ClearStale, Spawn, ProbeReady, ProbeFails, Save, SaveFails, Terminate,
       WaitEnds, Clear, GiveUp
  <2>4. command' \in [Commands ->
           [at : {"idle", "spawn", "clear, spawn", "clear, idle", "terminate", "wait", "clear",
                  "probe", "save"}, pid : 0 .. MaxPid]]
    BY <1>1, <1>2 DEF LauncherTypeOK
  <2>5. \A e \in Commands : command'[e].at \in {"probe", "save", "terminate", "wait"} => command'[e].pid \in Pids
    BY <1>1, <1>2, <1>3 DEF LauncherTypeOK
  <2>6. disturbed' \in BOOLEAN
    BY <1>1, Zenon DEF LauncherTypeOK
  <2> QED
    BY <1>1, <2>1, <2>2, <2>3, <2>4, <2>5, <2>6 DEF LauncherTypeOK, GatewayStates
<1>5. ASSUME ~disturbed PROVE /\ Running \subseteq {c}
                              /\ Accounted' /\ (command'[c].at # "idle" => FileKnown(c)')
  <2>1. FileKnown(c) /\ Accounted /\ Running = {c}
    <3>1. (\A d, e \in Running : d = e) /\ Accounted /\ \A e \in Running : FileKnown(e)
      BY <1>5, Zenon DEF LauncherInv
    <3>2. c \in Running
      BY <1>1 DEF Running
    <3> QED
      BY <3>1, <3>2
  <2>2. \A p \in Pids : Alive(p) => file = p \/ p \in abandoned \/ (was \in {"probe", "save"} /\ pid = p)
    BY <2>1 DEF Accounted, Starting, Running
  <2>3. \A p \in Pids : gateway'[p] \notin {"none", "dead"} /\ ~(was = "spawn" /\ at = "probe" /\ p = to) => Alive(p)
    <3>1. CASE Spawn(c)
      <4>1. CASE NextPid \in Pids /\ gateway' = [gateway EXCEPT ![NextPid] = "booting"]
                 /\ command' = [command EXCEPT ![c] = [at |-> "probe", pid |-> NextPid]]
        <5>1. command'[c] = [at |-> "probe", pid |-> NextPid]
          BY <1>1, <4>1 DEF LauncherTypeOK
        <5>2. at = "probe" /\ to = NextPid
          BY <1>3, <5>1
        <5> QED
          BY <1>1, <3>1, <4>1, <5>2 DEF Spawn, Alive
      <4>2. CASE UNCHANGED gateway
        BY <4>2 DEF Alive
      <4> QED
        BY <3>1, <4>1, <4>2 DEF Spawn, GatewayIs
    <3>2. CASE ~Spawn(c)
      BY <1>1, <3>2, SignalsOnly DEF ClearStale, ProbeReady, ProbeFails, Save, SaveFails, Terminate,
         WaitEnds, Clear, GiveUp, KillIfAlive, Alive
    <3> QED
      BY <3>1, <3>2
  <2>4. /\ abandoned \subseteq abandoned'
        /\ (was \in {"probe", "save"} /\ at = "idle" => pid \in abandoned' \/ (was = "save" /\ file' = pid))
        /\ \/ file' = file
           \/ was \in {"clear, spawn", "clear, idle", "clear"} /\ file' = Absent
           \/ was = "save" /\ file' = pid
           \/ was = "save" /\ file' = Garbage /\ pid \in abandoned'
    BY <1>1, <1>2, <1>3 DEF ClearStale, Stale, Spawn, ProbeReady, ProbeFails, Save, SaveFails, Terminate,
       WaitEnds, Clear, GiveUp, Step, LauncherTypeOK
  <2>5. Garbage \notin Pids /\ Absent \notin Pids
    BY LauncherAssumption DEF Pids, Garbage, Absent
  <2>6. Accounted'
    <3> SUFFICES ASSUME NEW p \in Pids, Alive(p)'
                 PROVE  file' = p \/ p \in abandoned' \/ (at \in {"probe", "save"} /\ to = p)
      BY <1>3 DEF Accounted, Starting
    <3>1. (was = "spawn" /\ at = "probe" /\ p = to) \/ Alive(p)
      BY <2>3 DEF Alive
    <3>2. CASE Alive(p) /\ was \notin {"probe", "save"}
      BY <2>1, <2>2, <2>4, <3>2 DEF FileKnown
    <3>3. CASE Alive(p) /\ was = "probe"
      BY <1>2, <2>1, <2>2, <2>4, <3>3 DEF FileKnown
    <3>4. CASE Alive(p) /\ was = "save"
      BY <1>2, <2>1, <2>2, <2>4, <3>4 DEF FileKnown, Starting
    <3> QED
      BY <3>1, <3>2, <3>3, <3>4
  <2>7. FileKnown(c)' \/ at = "idle"
    <3>1. was = "wait" => ~Alive(file)'
      BY <1>1, <2>1, SignalsOnly DEF FileKnown, WaitEnds, KillIfAlive, Alive, ClearStale, Stale, Spawn,
         ProbeReady, ProbeFails, Save, SaveFails, Terminate, Clear
    <3>2. at # "idle" /\ ~(was = "clear, spawn") => file' = file
      BY <1>2, <2>4
    <3>3. was = "spawn" /\ at = "probe" /\ Alive(file)' => file' = to
      BY <2>1, <2>3, <3>2 DEF FileKnown, Alive
    <3>4. was = "probe" /\ Alive(file)' => Alive(file)
      BY <1>2, <2>3, <2>4, <3>2 DEF Alive
    <3>5. command'[c].at = at /\ command'[c].pid = to
      BY <1>3
    <3>6. was = "clear, spawn" => ~Alive(file)' \/ at = "idle"
      BY <1>2, <2>5 DEF Alive
    <3>7. was = "terminate" => file = pid
      BY <2>1 DEF FileKnown
    <3>8. was = "probe" /\ Alive(file) => file = pid
      BY <2>1 DEF FileKnown, Starting
    <3> QED
      BY <1>2, <3>1, <3>2, <3>3, <3>4, <3>5, <3>6, <3>7, <3>8 DEF FileKnown, Starting
  <2> QED
    BY <1>3, <2>1, <2>6, <2>7
<1>6. ~disturbed' => /\ ~disturbed /\ Running \subseteq {c}
                     /\ Accounted' /\ (command'[c].at # "idle" => FileKnown(c)')
  BY <1>1, <1>5, Zenon
<1> QED
  BY <1>3, <1>4, <1>6, AloneInv

\* However gateways, commands and the CLI interleave, commands that ran one after
\* the other account for every live gateway.
THEOREM LauncherInvariant == LauncherSpec => []LauncherInv
<1>1. LauncherInit => LauncherInv
  <2> SUFFICES ASSUME LauncherInit PROVE LauncherInv
    OBVIOUS
  <2>1. 0 \in 0 .. MaxPid /\ 0 \in 0 .. Garbage
    BY LauncherAssumption DEF Garbage
  <2>2. LauncherTypeOK
    BY <2>1 DEF LauncherInit, LauncherTypeOK, Waiting, Absent
  <2>3. Running = {} /\ Accounted
    BY DEF LauncherInit, Running, Waiting, Accounted, Alive
  <2> QED
    BY <2>2, <2>3 DEF LauncherInv
<1>2. LauncherInv /\ [LauncherNext]_launcherVars => LauncherInv'
  <2> SUFFICES ASSUME LauncherInv, [LauncherNext]_launcherVars PROVE LauncherInv'
    OBVIOUS
  <2>1. CASE UNCHANGED launcherVars
    <3>1. UNCHANGED <<gateway, file, command, cli, abandoned, disturbed, calls>>
      BY <2>1 DEF launcherVars
    <3>2. LauncherTypeOK => LauncherTypeOK'
      BY <3>1, Zenon DEF LauncherTypeOK
    <3>3. Running' = Running /\ disturbed' = disturbed /\ \A p : Alive(p)' = Alive(p)
      BY <3>1 DEF Running, Alive
    <3>4. (Accounted => Accounted') /\ \A c : FileKnown(c) => FileKnown(c)'
      BY <3>1, <3>3 DEF Accounted, FileKnown, Starting
    <3> QED
      BY <3>2, <3>3, <3>4, Zenon DEF LauncherInv
  <2> QED
    BY <2>1, GatewayInv, DisturbedInv, BeginInv, CommandInv DEF LauncherNext
<1> QED
  BY <1>1, <1>2, PTL DEF LauncherSpec

\* startGatewayDaemon and stopGatewayDaemon, one after the other, lose no gateway.
THEOREM NoGatewayLostAlways == LauncherSpec => []NoGatewayLost
<1>1. LauncherInv => NoGatewayLost
  <2> SUFFICES ASSUME LauncherInv, ~disturbed, Running = {}, NEW p \in Pids, Alive(p)
               PROVE  file = p \/ p \in abandoned
    BY DEF NoGatewayLost
  <2>1. Accounted
    BY Zenon DEF LauncherInv
  <2> QED
    BY <2>1 DEF Accounted, Starting, Running
<1> QED
  BY <1>1, LauncherInvariant, PTL

-----------------------------------------------------------------------------
(* Least and greatest of a set of numbers.                                   *)

\* The library's Min and Max choose an element of the set, on a set that has one.
LEMMA MinIsLeast ==
  ASSUME NEW S, S \subseteq Nat, S # {}
  PROVE  Min(S) \in S /\ \A y \in S : Min(S) <= y
<1>1. PICK x \in S : \A y \in S : ~(<<y, x>> \in OpToRel(<, Nat))
  BY NatLessThanWellFounded, WFMin
<1>2. \A y \in S : x <= y
  <2> SUFFICES ASSUME NEW y \in S PROVE x <= y
    OBVIOUS
  <2>1. <<y, x>> \in Nat \X Nat /\ ~(<<y, x>> \in OpToRel(<, Nat))
    BY <1>1
  <2>2. ~(y < x)
    BY <2>1 DEF OpToRel
  <2> QED
    BY <2>2
<1>3. \E m \in S : \A y \in S : m <= y
  BY <1>2
<1> QED
  BY <1>3, Zenon DEF Min

\* The same for Max on a set of numbers up to n.
LEMMA MaxIsGreatest ==
  ASSUME NEW S, NEW n \in Nat, S \subseteq 0 .. n, S # {}
  PROVE  Max(S) \in S /\ \A y \in S : Max(S) >= y
<1> DEFINE T == {n - y : y \in S}
<1>1. T \subseteq Nat /\ T # {}
  <2>1. \A y \in S : y \in Nat /\ n - y \in Nat
    OBVIOUS
  <2> QED
    BY <2>1
<1>2. PICK m \in T : \A y \in T : ~(<<y, m>> \in OpToRel(<, Nat))
  BY <1>1, NatLessThanWellFounded, WFMin
<1>3. PICK x \in S : m = n - x
  BY <1>2
<1>4. \A y \in S : x >= y
  <2> SUFFICES ASSUME NEW y \in S PROVE x >= y
    OBVIOUS
  <2>1. n - y \in T /\ n - y \in Nat /\ m \in Nat
    BY <1>1, <1>2
  <2>2. ~(n - y < m)
    BY <1>2, <2>1 DEF OpToRel
  <2> QED
    BY <1>3, <2>2
<1>5. \E x_1 \in S : \A y \in S : x_1 >= y
  BY <1>4
<1> QED
  BY <1>5, Zenon DEF Max

-----------------------------------------------------------------------------
(* Logging.                                                                  *)

\* There is one record to displace at most.
LEMMA OneDisplaced ==
  ASSUME NEW q \in Seq(Entry), NEW severity, Displaced(q, severity) # {}
  PROVE  Max(Displaced(q, severity)) \in DOMAIN q
<1>1. Displaced(q, severity) \subseteq DOMAIN q /\ DOMAIN q = 1 .. Len(q) /\ Len(q) \in Nat
  BY LenProperties DEF Displaced
<1>2. Displaced(q, severity) \subseteq 0 .. Len(q)
  BY <1>1
<1> QED
  BY <1>1, <1>2, MaxIsGreatest

\* Removing an element of a sequence keeps the others, each once.
LEMMA RemoveOne ==
  ASSUME NEW S, NEW q \in Seq(S), NEW i \in DOMAIN q
  PROVE  /\ RemoveAt(q, i) \in Seq(S) /\ Len(RemoveAt(q, i)) = Len(q) - 1
         /\ \A j \in 1 .. Len(q) - 1 : RemoveAt(q, i)[j] = IF j < i THEN q[j] ELSE q[j + 1]
<1> DEFINE a == SubSeq(q, 1, i - 1)
           b == SubSeq(q, i + 1, Len(q))
<1>1. Len(q) \in Nat /\ DOMAIN q = 1 .. Len(q) /\ i \in 1 .. Len(q) /\ \A j \in 1 .. Len(q) : q[j] \in S
  BY LenProperties, ElementOfSeq
<1>2. a \in Seq(S) /\ Len(a) = i - 1 /\ \A j \in 1 .. i - 1 : a[j] = q[j]
  <2>1. \A j \in 1 .. i - 1 : q[j] \in S
    BY <1>1
  <2>2. /\ a \in Seq(S) /\ Len(a) = IF 1 <= i - 1 THEN (i - 1) - 1 + 1 ELSE 0
        /\ \A j \in 1 .. (i - 1) - 1 + 1 : a[j] = q[1 + j - 1]
    <3> HIDE DEF a
    <3> QED
      BY <1>1, <2>1, SubSeqProperties DEF a
  <2> QED
    BY <1>1, <2>2
<1>3. b \in Seq(S) /\ Len(b) = Len(q) - i /\ \A j \in 1 .. Len(q) - i : b[j] = q[i + j]
  <2>1. \A j \in i + 1 .. Len(q) : q[j] \in S
    BY <1>1
  <2>2. /\ b \in Seq(S) /\ Len(b) = IF i + 1 <= Len(q) THEN Len(q) - (i + 1) + 1 ELSE 0
        /\ \A j \in 1 .. Len(q) - (i + 1) + 1 : b[j] = q[(i + 1) + j - 1]
    <3> HIDE DEF b
    <3> QED
      BY <1>1, <2>1, SubSeqProperties DEF b
  <2>4. Len(b) = Len(q) - i
    BY <1>1, <2>2
  <2>5. \A j \in 1 .. Len(q) - i : b[j] = q[i + j]
    <3> HIDE DEF b
    <3> SUFFICES ASSUME NEW j \in 1 .. Len(q) - i PROVE b[j] = q[i + j]
      OBVIOUS
    <3>1. j \in 1 .. Len(q) - (i + 1) + 1 /\ (i + 1) + j - 1 = i + j
      BY <1>1
    <3> QED
      BY <2>2, <3>1, Zenon
  <2> QED
    BY <2>2, <2>4, <2>5
<1>4. RemoveAt(q, i) = a \o b
  BY DEF RemoveAt
<1> HIDE DEF a, b
<1>5. /\ a \o b \in Seq(S) /\ Len(a \o b) = Len(a) + Len(b)
      /\ \A j \in 1 .. Len(a) + Len(b) : (a \o b)[j] = IF j <= Len(a) THEN a[j] ELSE b[j - Len(a)]
  BY <1>2, <1>3, ConcatProperties
<1>6. Len(a \o b) = Len(q) - 1
  BY <1>1, <1>2, <1>3, <1>5
<1>7. ASSUME NEW j \in 1 .. Len(q) - 1 PROVE (a \o b)[j] = IF j < i THEN q[j] ELSE q[j + 1]
  <2>1. (a \o b)[j] = IF j <= i - 1 THEN a[j] ELSE b[j - (i - 1)]
    BY <1>1, <1>2, <1>3, <1>5, SMTT(30)
  <2>2. CASE j < i
    BY <1>1, <1>2, <2>1, <2>2
  <2>3. CASE ~(j < i)
    <3>1. j - (i - 1) \in 1 .. Len(q) - i /\ i + (j - (i - 1)) = j + 1
      BY <1>1, <2>3
    <3>2. (a \o b)[j] = b[j - (i - 1)]
      BY <1>1, <2>1, <2>3
    <3>3. b[j - (i - 1)] = q[i + (j - (i - 1))]
      BY <1>3, <3>1, Zenon
    <3> QED
      BY <2>3, <3>1, <3>2, <3>3, Zenon
  <2> QED
    BY <2>2, <2>3
<1> QED
  BY <1>4, <1>5, <1>6, <1>7

\* A record that is dropped is counted, and nothing else.
LEMMA DropCounted ==
  ASSUME NEW b \in BufferType
  PROVE  /\ NoteDrop(b) \in BufferType /\ NoteDrop(b).queue = b.queue
         /\ NoteDrop(b).pending = b.pending /\ NoteDrop(b).sequence = b.sequence
<1>1. b.dropped + 1 \in Nat /\ b.unsaid + 1 \in Nat
  BY DEF BufferType
<1> QED
  BY <1>1 DEF NoteDrop, BufferType

\* Offering a record to the queue keeps it tracked: what is added is new, and
\* what is displaced is no longer pending.
LEMMA EnqueueTracked ==
  ASSUME NEW b, NEW busy, NEW barrier \in Nat, TrackedBuffer(b, busy, barrier),
         NEW severity \in 0 .. 3, NEW control \in BOOLEAN
  PROVE  TrackedBuffer(Enqueue(b, severity, control), busy, barrier)
<1> DEFINE n == b.sequence + 1
           entry == [seq |-> n, severity |-> severity, control |-> control]
           Push(c) == [c EXCEPT !.sequence = n, !.queue = Append(@, entry), !.pending = @ \cup {n}]
           victim == Displaced(b.queue, severity)
<1>1. b \in BufferType /\ n \in Nat /\ entry \in Entry
  BY DEF TrackedBuffer, BufferType, Entry
<1>2. ASSUME NEW c, TrackedBuffer(c, busy, barrier), c.sequence = b.sequence
      PROVE  TrackedBuffer(Push(c), busy, barrier)
  <2>1. c \in BufferType /\ c.queue \in Seq(Entry) /\ Len(c.queue) \in Nat
        /\ DOMAIN c.queue = 1 .. Len(c.queue) /\ c.pending \subseteq Nat /\ c.sequence \in Nat
    BY <1>2, LenProperties DEF TrackedBuffer, BufferType
  <2>2. /\ Append(c.queue, entry) \in Seq(Entry) /\ Len(Append(c.queue, entry)) = Len(c.queue) + 1
        /\ \A i \in 1 .. Len(c.queue) : Append(c.queue, entry)[i] = c.queue[i]
        /\ Append(c.queue, entry)[Len(c.queue) + 1] = entry
    BY <1>1, <2>1, AppendProperties
  <2>3. Push(c) \in BufferType
    BY <1>1, <2>1, <2>2 DEF BufferType
  <2>4. /\ Push(c).queue = Append(c.queue, entry) /\ Push(c).pending = c.pending \cup {n}
        /\ Push(c).sequence = n
    BY <2>1 DEF BufferType
  <2> DEFINE p == Push(c)
  <2>5. DOMAIN p.queue = 1 .. Len(c.queue) + 1
    BY <2>2, <2>4, LenProperties
  <2> HIDE DEF p
  <2>6. \A i \in DOMAIN p.queue : \/ i \in DOMAIN c.queue /\ p.queue[i] = c.queue[i]
                                  \/ i = Len(c.queue) + 1 /\ p.queue[i].seq = n
    BY <2>1, <2>2, <2>4, <2>5 DEF p
  <2>7. \A m \in c.pending : m < n /\ m # n
    BY <1>2, <2>1 DEF TrackedBuffer
  <2>0. /\ \A i \in DOMAIN c.queue : c.queue[i].seq \in c.pending
        /\ \A e \in busy : e.seq \in c.pending
        /\ \A i, j \in DOMAIN c.queue : c.queue[i].seq = c.queue[j].seq => i = j
        /\ \A i \in DOMAIN c.queue, e \in busy : c.queue[i].seq # e.seq
    BY <1>2 DEF TrackedBuffer
  <2>8. /\ p.pending = c.pending \cup {n} /\ p.sequence = n /\ barrier < n
    BY <1>2, <2>1, <2>4 DEF p, TrackedBuffer
  <2>9. p \in BufferType
    BY <2>3 DEF p
  <2>10. \A i \in DOMAIN p.queue : p.queue[i].seq \in p.pending
    BY <1>2, <2>6, <2>8 DEF TrackedBuffer
  <2>11. \A i, j \in DOMAIN p.queue : p.queue[i].seq = p.queue[j].seq => i = j
    <3>1. \A i \in DOMAIN c.queue : c.queue[i].seq # n
      BY <2>0, <2>7
    <3> QED
      BY <2>0, <2>6, <3>1
  <2>12. \A i \in DOMAIN p.queue, e \in busy : p.queue[i].seq # e.seq /\ e.seq \in p.pending
    BY <2>0, <2>6, <2>7, <2>8
  <2>13. \A m \in p.pending : m > barrier /\ m <= p.sequence
    BY <1>2, <2>1, <2>8 DEF TrackedBuffer
  <2>14. \A e \in busy : e.seq \in p.pending
    BY <1>2, <2>8 DEF TrackedBuffer
  <2>15. barrier <= p.sequence
    BY <1>1, <2>8
  <2> QED
    BY <2>9, <2>10, <2>11, <2>12, <2>13, <2>14, <2>15 DEF TrackedBuffer, p
<1>3. ASSUME NEW i \in DOMAIN b.queue PROVE TrackedBuffer(Evict(b, i), busy, barrier) /\ Evict(b, i).sequence = b.sequence
  <2>1. b.queue \in Seq(Entry) /\ Len(b.queue) \in Nat /\ DOMAIN b.queue = 1 .. Len(b.queue)
        /\ b.pending \subseteq Nat
    BY <1>1, LenProperties DEF BufferType
  <2> DEFINE q == RemoveAt(b.queue, i)
             c == Evict(b, i)
  <2>2. /\ q \in Seq(Entry) /\ DOMAIN q = 1 .. Len(b.queue) - 1
        /\ \A j \in 1 .. Len(b.queue) - 1 : q[j] = IF j < i THEN b.queue[j] ELSE b.queue[j + 1]
    <3>1. /\ q \in Seq(Entry) /\ Len(q) = Len(b.queue) - 1
          /\ \A j \in 1 .. Len(b.queue) - 1 : q[j] = IF j < i THEN b.queue[j] ELSE b.queue[j + 1]
      BY <1>3, <2>1, RemoveOne
    <3>2. DOMAIN q = 1 .. Len(q)
      BY <3>1, LenProperties
    <3> QED
      BY <3>1, <3>2
  <2>3. /\ c.queue = q /\ c.pending = b.pending \ {b.queue[i].seq} /\ c.sequence = b.sequence
    BY <1>1 DEF Evict, NoteDrop, Without, BufferType
  <2>4. c \in BufferType
    <3> HIDE DEF q
    <3>1. Without(b, i) = [b EXCEPT !.queue = q, !.pending = b.pending \ {b.queue[i].seq}]
      BY DEF Without, q
    <3>2. Without(b, i) \in BufferType
      BY <1>1, <2>1, <2>2, <3>1 DEF BufferType
    <3> DEFINE w == Without(b, i)
    <3> HIDE DEF w
    <3>3. w \in BufferType => NoteDrop(w) \in BufferType
      BY DropCounted
    <3> QED
      BY <3>2, <3>3 DEF Evict, w
  <2> HIDE DEF q, c
  <2>5. \A j \in DOMAIN q : \E k \in DOMAIN b.queue :
          k # i /\ q[j] = b.queue[k] /\ k = IF j < i THEN j ELSE j + 1
    BY <1>3, <2>1, <2>2
  <2>6. \A j \in DOMAIN q : q[j].seq \in c.pending /\ \A e \in busy : q[j].seq # e.seq
    BY <1>3, <2>3, <2>5 DEF TrackedBuffer
  <2>7. \A j, k \in DOMAIN q : q[j].seq = q[k].seq => j = k
    <3> SUFFICES ASSUME NEW j \in DOMAIN q, NEW k \in DOMAIN q, q[j].seq = q[k].seq PROVE j = k
      OBVIOUS
    <3>1. PICK j1 \in DOMAIN b.queue : q[j] = b.queue[j1] /\ j1 = IF j < i THEN j ELSE j + 1
      BY <2>5
    <3>2. PICK k1 \in DOMAIN b.queue : q[k] = b.queue[k1] /\ k1 = IF k < i THEN k ELSE k + 1
      BY <2>5
    <3>3. j1 = k1
      BY <3>1, <3>2 DEF TrackedBuffer
    <3> QED
      BY <2>1, <2>2, <3>1, <3>2, <3>3
  <2>8. \A e \in busy : e.seq \in c.pending
    BY <1>3, <2>3 DEF TrackedBuffer
  <2>9. \A m \in c.pending : m > barrier /\ m <= c.sequence
    BY <2>3 DEF TrackedBuffer
  <2> QED
    BY <2>3, <2>4, <2>6, <2>7, <2>8, <2>9 DEF TrackedBuffer, c
<1>4. ASSUME NEW c, c \in BufferType, c.queue = b.queue, c.pending = b.pending, c.sequence = n
      PROVE  TrackedBuffer(c, busy, barrier)
  BY <1>1, <1>4 DEF TrackedBuffer, BufferType
<1>5. TrackedBuffer([b EXCEPT !.sequence = n], busy, barrier)
  BY <1>1, <1>4 DEF BufferType
<1>6. TrackedBuffer(NoteDrop([b EXCEPT !.sequence = n]), busy, barrier)
  <2> DEFINE c == [b EXCEPT !.sequence = n]
  <2>1. c \in BufferType /\ c.queue = b.queue /\ c.pending = b.pending /\ c.sequence = n
    BY <1>1 DEF BufferType
  <2> HIDE DEF c
  <2>2. /\ NoteDrop(c) \in BufferType /\ NoteDrop(c).queue = c.queue
        /\ NoteDrop(c).pending = c.pending /\ NoteDrop(c).sequence = c.sequence
    BY <2>1, DropCounted
  <2> QED
    BY <1>4, <2>1, <2>2 DEF c
<1>7. victim # {} => TrackedBuffer(Push(Evict(b, Max(victim))), busy, barrier)
  <2>1. victim # {} => Max(victim) \in DOMAIN b.queue
    BY <1>1, OneDisplaced DEF BufferType
  <2> HIDE DEF victim, Push
  <2> QED
    BY <1>2, <1>3, <2>1
<1>8. TrackedBuffer(Push(b), busy, barrier)
  BY <1>2
<1>9. \/ Enqueue(b, severity, control) = Push(b)
      \/ victim # {} /\ Enqueue(b, severity, control) = Push(Evict(b, Max(victim)))
      \/ Enqueue(b, severity, control) = [b EXCEPT !.sequence = n]
      \/ Enqueue(b, severity, control) = NoteDrop([b EXCEPT !.sequence = n])
  BY Zenon DEF Enqueue
<1> HIDE DEF Push, victim, n
<1> QED
  BY <1>5, <1>6, <1>7, <1>8, <1>9, Zenon

\* A record taken to its sinks stays pending.
LEMMA TakeTracked ==
  ASSUME NEW b, NEW barrier \in Nat, TrackedBuffer(b, {}, barrier), b.queue # <<>>
  PROVE  /\ Head(b.queue) \in Entry
         /\ TrackedBuffer([b EXCEPT !.queue = Tail(@)], {Head(b.queue)}, barrier)
<1>1. /\ b \in BufferType /\ b.queue \in Seq(Entry) /\ Len(b.queue) \in Nat \ {0}
      /\ DOMAIN b.queue = 1 .. Len(b.queue)
  BY LenProperties, EmptySeq DEF TrackedBuffer, BufferType
<1>2. /\ Head(b.queue) \in Entry /\ Head(b.queue) = b.queue[1] /\ Tail(b.queue) \in Seq(Entry)
      /\ DOMAIN Tail(b.queue) = 1 .. Len(b.queue) - 1
      /\ \A i \in 1 .. Len(b.queue) - 1 : Tail(b.queue)[i] = b.queue[i + 1]
  BY <1>1, HeadTailProperties, LenProperties
<1> DEFINE c == [b EXCEPT !.queue = Tail(@)]
<1>3. /\ c \in BufferType /\ c.queue = Tail(b.queue) /\ c.pending = b.pending
      /\ c.sequence = b.sequence
  BY <1>1, <1>2 DEF BufferType
<1> HIDE DEF c
<1>4. \A i \in DOMAIN c.queue : i + 1 \in DOMAIN b.queue /\ c.queue[i] = b.queue[i + 1] /\ i \in Nat
  BY <1>1, <1>2, <1>3
<1>5. 1 \in DOMAIN b.queue /\ Head(b.queue) = b.queue[1]
  BY <1>1, <1>2
<1>8. \A i, j \in DOMAIN b.queue : b.queue[i].seq = b.queue[j].seq => i = j
  BY DEF TrackedBuffer
<1>6. \A i, j \in DOMAIN c.queue : c.queue[i].seq = c.queue[j].seq => i = j
  <2> SUFFICES ASSUME NEW i \in DOMAIN c.queue, NEW j \in DOMAIN c.queue, c.queue[i].seq = c.queue[j].seq
               PROVE  i = j
    OBVIOUS
  <2>1. i + 1 = j + 1
    BY <1>4, <1>8
  <2> QED
    BY <1>4, <2>1
<1>7. \A i \in DOMAIN c.queue : c.queue[i].seq # Head(b.queue).seq
  <2> SUFFICES ASSUME NEW i \in DOMAIN c.queue, c.queue[i].seq = Head(b.queue).seq PROVE FALSE
    OBVIOUS
  <2>1. i + 1 = 1 /\ i \in 1 .. Len(b.queue) - 1
    BY <1>2, <1>3, <1>4, <1>5, <1>8
  <2> QED
    BY <1>1, <2>1
<1> QED
  BY <1>2, <1>3, <1>4, <1>5, <1>6, <1>7 DEF TrackedBuffer, c

\* A step that leaves the flushes alone.
LEMMA BufferStep ==
  ASSUME LoggingInv, NEW b, Buffered(b), UNCHANGED <<waiters, flushed>>,
         TrackedBuffer(b, inFlight', flushed), b.sequence >= sequence,
         inFlight' \subseteq Entry, \A e, f \in inFlight' : e = f
  PROVE  LoggingInv'
<1>1. b \in BufferType /\ sequence \in Nat
  BY DEF LoggingInv, TrackedBuffer, BufferType, Buffer
<1>2. Buffer' = b
  BY <1>1 DEF Buffer, Buffered, BufferType
<1>3. 0 .. sequence \subseteq 0 .. sequence'
  BY <1>1, <1>2 DEF Buffered, BufferType
<1> QED
  BY <1>2, <1>3 DEF LoggingInv

\* The sequence of a queue only grows.
LEMMA SequenceGrows ==
  ASSUME NEW b \in BufferType, NEW severity, NEW control \in BOOLEAN
  PROVE  Enqueue(b, severity, control).sequence = b.sequence + 1
BY DEF Enqueue, NoteDrop, Evict, Without, BufferType

\* What the current buffer is.
LEMMA BufferNow ==
  ASSUME LoggingInv
  PROVE  /\ Buffer \in BufferType /\ TrackedBuffer(Buffer, inFlight, flushed)
         /\ Buffer.queue = queue /\ Buffer.pending = pending /\ Buffer.sequence = sequence
         /\ pending \subseteq Nat /\ sequence \in Nat /\ flushed \in Nat /\ flushed <= sequence
         /\ waiters \subseteq 0 .. sequence
         /\ inFlight \subseteq Entry /\ \A e, f \in inFlight : e = f
<1>1. Buffer.queue = queue /\ Buffer.pending = pending /\ Buffer.sequence = sequence
  BY DEF Buffer
<1>2. Buffer \in BufferType /\ TrackedBuffer(Buffer, inFlight, flushed) /\ flushed <= Buffer.sequence
  BY DEF LoggingInv, TrackedBuffer
<1>3. pending \subseteq Nat /\ sequence \in Nat
  BY <1>1, <1>2 DEF BufferType
<1> QED
  BY <1>1, <1>2, <1>3 DEF LoggingInv

\* A buffer keeps being tracked when fewer records are under way or pending.
LEMMA TrackedLess ==
  ASSUME NEW b, NEW busy, NEW barrier, TrackedBuffer(b, busy, barrier),
         NEW c \in BufferType, c.queue = b.queue, c.sequence = b.sequence,
         c.pending \subseteq b.pending, NEW fewer \in SUBSET busy, NEW higher \in Nat,
         \A i \in DOMAIN b.queue : b.queue[i].seq \in c.pending,
         \A e \in fewer : e.seq \in c.pending,
         \A n \in c.pending : n > higher, higher <= c.sequence
  PROVE  TrackedBuffer(c, fewer, higher)
BY DEF TrackedBuffer

\* A flush resolves when nothing up to its barrier is pending.
LEMMA WaitersChecked ==
  ASSUME NEW pend, pend \subseteq Nat, \A n \in pend : n > flushed,
         sequence \in Nat, flushed \in Nat, flushed <= sequence, waiters \subseteq 0 .. sequence,
         CheckWaiters(pend)
  PROVE  /\ flushed' \in Nat /\ flushed' <= sequence /\ waiters' \subseteq waiters
         /\ \A n \in pend : n > flushed'
<1> DEFINE S == {flushed} \cup (waiters \ StillWaiting(pend))
<1>1. S \subseteq 0 .. sequence /\ S # {}
  <2>1. flushed \in 0 .. sequence
    OBVIOUS
  <2> QED
    BY <2>1, Zenon
<1>2. flushed' = Max(S) /\ waiters' = StillWaiting(pend)
  BY DEF CheckWaiters
<1>3. \A w \in S : \A n \in pend : n > w
  BY DEF StillWaiting
<1> HIDE DEF S
<1>4. flushed' \in S
  BY <1>1, <1>2, MaxIsGreatest
<1>5. waiters' \subseteq waiters
  BY <1>2 DEF StillWaiting
<1> QED
  BY <1>1, <1>3, <1>4, <1>5

\* A flush begins with a barrier at the last sequence.
LEMMA FlushInv ==
  ASSUME LoggingInv, FlushAt(sequence),
         UNCHANGED <<inFlight, queue, pending, sequence, dropped, unsaid>>
  PROVE  LoggingInv'
<1>1. Buffer' = Buffer /\ inFlight' = inFlight /\ sequence' = sequence
  BY DEF Buffer
<1>2. CASE \E n \in pending : n <= sequence
  <2>1. waiters' = waiters \cup {sequence} /\ flushed' = flushed
    BY <1>2 DEF FlushAt
  <2>2. sequence \in 0 .. sequence
    BY BufferNow
  <2>3. TrackedBuffer(Buffer', inFlight', flushed')
    BY <1>1, <2>1, BufferNow
  <2> QED
    BY <1>1, <2>1, <2>2, <2>3, BufferNow DEF LoggingInv
<1>3. CASE ~\E n \in pending : n <= sequence
  <2>1. waiters' = waiters /\ flushed' = Max({flushed, sequence})
    BY <1>3 DEF FlushAt
  <2>2. {flushed, sequence} \subseteq 0 .. sequence
    BY BufferNow
  <2>3. Max({flushed, sequence}) \in {flushed, sequence}
    BY <2>2, BufferNow, MaxIsGreatest
  <2>4. \A n \in Buffer.pending : n > flushed'
    BY <1>3, <2>1, <2>3, BufferNow
  <2>5. flushed' \in Nat /\ flushed' <= Buffer.sequence
    BY <2>1, <2>3, BufferNow
  <2>6. TrackedBuffer(Buffer, inFlight, flushed')
    <3>1. /\ \A i \in DOMAIN Buffer.queue : Buffer.queue[i].seq \in Buffer.pending
          /\ \A e \in inFlight : e.seq \in Buffer.pending
      BY BufferNow DEF TrackedBuffer
    <3> QED
      BY <2>4, <2>5, <3>1, BufferNow, TrackedLess
  <2> QED
    BY <1>1, <2>1, <2>5, <2>6, BufferNow DEF LoggingInv
<1> QED
  BY <1>2, <1>3

\* The program logs, and the sinks settle.
LEMMA WriteInv ==
  ASSUME LoggingInv,
         \/ \E severity \in Severities : Log(severity)
         \/ \E e \in inFlight, s \in Sinks : WriteEnds(s, e) \/ WriteFails(s, e)
  PROVE  LoggingInv'
<1>1. UNCHANGED <<inFlight, waiters, flushed>>
  BY DEF Log, WriteEnds, WriteFails, flushVars
<1>2. \/ Buffered(Buffer)
      \/ \E severity \in 0 .. 3, control \in BOOLEAN : Buffered(Enqueue(Buffer, severity, control))
  <2>1. ASSUME NEW severity \in Severities, Log(severity)
        PROVE  severity \in 0 .. 3 /\ Buffered(Enqueue(Buffer, severity, FALSE))
    BY <2>1, LoggingAssumption DEF Log
  <2>2. ASSUME NEW e \in inFlight, NEW s \in Sinks, WriteEnds(s, e) \/ WriteFails(s, e)
        PROVE  Buffered(Buffer) \/ \E severity \in 0 .. 3 : Buffered(Enqueue(Buffer, severity, TRUE))
    <3>1. 1 \in 0 .. 3 /\ 3 \in 0 .. 3
      OBVIOUS
    <3>2. Buffered(Buffer) \/ Buffered(Enqueue(Buffer, 1, TRUE)) \/ Buffered(Enqueue(Buffer, 3, TRUE))
      BY <2>2, Zenon DEF WriteEnds, WriteFails
    <3> QED
      BY <3>1, <3>2, Zenon
  <2> QED
    BY <2>1, <2>2, Zenon
<1>3. CASE Buffered(Buffer)
  BY <1>1, <1>3, BufferNow, BufferStep
<1>4. ASSUME NEW severity \in 0 .. 3, NEW control \in BOOLEAN, Buffered(Enqueue(Buffer, severity, control))
      PROVE  LoggingInv'
  <2> DEFINE b == Enqueue(Buffer, severity, control)
  <2>1. TrackedBuffer(b, inFlight, flushed)
    BY BufferNow, EnqueueTracked
  <2>2. b.sequence >= sequence
    BY BufferNow, SequenceGrows
  <2> HIDE DEF b
  <2> QED
    BY <1>1, <1>4, <2>1, <2>2, BufferNow, BufferStep DEF b
<1> QED
  BY <1>2, <1>3, <1>4, Zenon

\* A buffer without records under way is taken from.
LEMMA TakeInv ==
  ASSUME NEW b, NEW barrier \in Nat, TrackedBuffer(b, {}, barrier), Take(b)
  PROVE  /\ TrackedBuffer(Buffer', inFlight', barrier) /\ sequence' = b.sequence
         /\ inFlight' \subseteq Entry /\ \A e, f \in inFlight' : e = f
<1>0. b \in BufferType
  BY DEF TrackedBuffer
<1>1. CASE b.queue = <<>>
  <2>1. Buffered(b) /\ inFlight' = {}
    BY <1>1 DEF Take
  <2>2. Buffer' = b
    BY <1>0, <2>1 DEF Buffer, Buffered, BufferType
  <2> QED
    BY <2>1, <2>2 DEF Buffered
<1>2. CASE b.queue # <<>>
  <2> DEFINE c == [b EXCEPT !.queue = Tail(@)]
  <2>1. Buffered(c) /\ inFlight' = {Head(b.queue)}
    BY <1>2 DEF Take
  <2>2. Head(b.queue) \in Entry /\ TrackedBuffer(c, {Head(b.queue)}, barrier)
    BY <1>2, TakeTracked
  <2>3. c \in BufferType /\ c.sequence = b.sequence
    BY <1>0, <2>2 DEF TrackedBuffer, BufferType
  <2> HIDE DEF c
  <2>4. Buffer' = c
    BY <2>1, <2>3 DEF Buffer, Buffered, BufferType
  <2> QED
    BY <2>1, <2>2, <2>3, <2>4 DEF Buffered
<1> QED
  BY <1>1, <1>2

\* The queue goes on to the next record.
LEMMA ProcessInv ==
  ASSUME LoggingInv, Process \/ \E e \in inFlight : Delivered(e)
  PROVE  LoggingInv'
<1>1. CASE Process
  <2>1. TrackedBuffer(Buffer, {}, flushed) /\ Take(Buffer) /\ UNCHANGED <<waiters, flushed>>
    BY <1>1, BufferNow DEF Process, flushVars
  <2>2. /\ TrackedBuffer(Buffer', inFlight', flushed) /\ sequence' = sequence
        /\ inFlight' \subseteq Entry /\ \A e, f \in inFlight' : e = f
    BY <2>1, BufferNow, TakeInv
  <2> QED
    BY <2>1, <2>2, BufferNow DEF LoggingInv
<1>2. ASSUME NEW e \in inFlight, Delivered(e) PROVE LoggingInv'
  <2> DEFINE b == [Buffer EXCEPT !.pending = @ \ {e.seq}]
             u == [b EXCEPT !.unsaid = 0]
             announced == IF ~e.control /\ unsaid > 0 THEN Enqueue(u, 2, TRUE) ELSE b
  <2>1. CheckWaiters(b.pending) /\ Take(announced)
    BY <1>2 DEF Delivered
  <2>2. /\ b \in BufferType /\ b.queue = queue /\ b.pending = pending \ {e.seq} /\ b.sequence = sequence
        /\ u \in BufferType /\ u.queue = queue /\ u.pending = b.pending /\ u.sequence = sequence
    BY BufferNow DEF BufferType
  <2> HIDE DEF b, u
  <2>3. \A n \in b.pending : n > flushed
    BY <2>2, BufferNow DEF TrackedBuffer
  <2>4. /\ flushed' \in Nat /\ flushed' <= sequence /\ waiters' \subseteq waiters
        /\ \A n \in b.pending : n > flushed'
    BY <2>1, <2>2, <2>3, BufferNow, WaitersChecked
  <2>5. \A i \in DOMAIN queue : queue[i].seq \in b.pending
    BY <2>2, BufferNow DEF TrackedBuffer
  <2>6. ASSUME NEW c \in BufferType, c.queue = queue, c.pending = b.pending, c.sequence = sequence
        PROVE  TrackedBuffer(c, {}, flushed')
    BY <2>2, <2>4, <2>5, <2>6, BufferNow, TrackedLess
  <2>7. TrackedBuffer(b, {}, flushed') /\ TrackedBuffer(u, {}, flushed')
    BY <2>2, <2>6
  <2>8. 2 \in 0 .. 3 /\ TRUE \in BOOLEAN
    OBVIOUS
  <2>9. TrackedBuffer(Enqueue(u, 2, TRUE), {}, flushed') /\ Enqueue(u, 2, TRUE).sequence = sequence + 1
    BY <2>2, <2>4, <2>7, <2>8, EnqueueTracked, SequenceGrows
  <2>10. announced = b \/ announced = Enqueue(u, 2, TRUE)
    BY Zenon
  <2> HIDE DEF announced
  <2>11. TrackedBuffer(announced, {}, flushed') /\ announced.sequence >= sequence
    <3>1. sequence >= sequence /\ sequence + 1 >= sequence
      BY BufferNow
    <3> QED
      BY <2>2, <2>7, <2>9, <2>10, <3>1, Zenon
  <2>12. /\ TrackedBuffer(Buffer', inFlight', flushed') /\ sequence' = announced.sequence
         /\ inFlight' \subseteq Entry /\ \A d, f \in inFlight' : d = f
    BY <2>1, <2>4, <2>11, TakeInv
  <2>13. announced.sequence \in Nat
    BY <2>11 DEF TrackedBuffer, BufferType
  <2>14. waiters' \subseteq 0 .. sequence'
    BY <2>4, <2>11, <2>12, <2>13, BufferNow
  <2> QED
    BY <2>4, <2>12, <2>14 DEF LoggingInv
<1> QED
  BY <1>1, <1>2

\* A buffer with nothing in it.
LEMMA EmptyBuffer ==
  ASSUME NEW b, b = [queue |-> <<>>, pending |-> {}, sequence |-> 0, dropped |-> 0, unsaid |-> 0]
  PROVE  TrackedBuffer(b, {}, 0)
<1>1. b \in BufferType
  BY EmptySeq DEF BufferType
<1>2. DOMAIN b.queue = {}
  BY EmptySeq, LenProperties
<1> QED
  BY <1>1, <1>2 DEF TrackedBuffer

\* However records, writes, failures, flushes and restarts interleave, every
\* record in the queue or under way is pending and came after the last barrier.
THEOREM LoggingInvariant == LoggingSpec => []LoggingInv
<1>1. LoggingInit => LoggingInv
  <2> SUFFICES ASSUME LoggingInit PROVE LoggingInv
    OBVIOUS
  <2>1. TrackedBuffer(Buffer, {}, 0)
    BY EmptyBuffer DEF LoggingInit, Buffer
  <2> QED
    BY <2>1 DEF LoggingInit, LoggingInv
<1>2. ASSUME LoggingInv, Restart PROVE LoggingInv'
  <2>1. TrackedBuffer(Buffer', {}, 0)
    BY <1>2, EmptyBuffer DEF Restart, Buffer
  <2>2. inFlight' = {} /\ flushed' = 0 /\ waiters' = {} /\ sequence' = 0
    BY <1>2 DEF Restart
  <2> QED
    BY <2>1, <2>2 DEF LoggingInv
<1>3. ASSUME LoggingInv, Drain \/ CloseSinks \/ UNCHANGED loggingVars PROVE LoggingInv'
  <2>1. UNCHANGED <<inFlight, queue, pending, sequence, dropped, unsaid, waiters, flushed>>
    BY <1>3 DEF Drain, CloseSinks, loggingVars, queueVars, flushVars
  <2>2. Buffer' = Buffer
    BY <2>1 DEF Buffer
  <2> QED
    BY <1>3, <2>1, <2>2 DEF LoggingInv
<1>4. ASSUME LoggingInv, Flush \/ CloseLogger PROVE LoggingInv'
  BY <1>4, FlushInv DEF Flush, CloseLogger, queueVars
<1>5. LoggingInv /\ [LoggingNext]_loggingVars => LoggingInv'
  BY <1>2, <1>3, <1>4, WriteInv, ProcessInv, Zenon DEF LoggingNext
<1> QED
  BY <1>1, <1>5, PTL DEF LoggingSpec

\* A flush that resolved left nothing behind that was logged before it.
THEOREM FlushIsCompleteAlways == LoggingSpec => []FlushIsComplete
<1>1. LoggingInv => FlushIsComplete
  BY BufferNow DEF TrackedBuffer, FlushIsComplete
<1> QED
  BY <1>1, LoggingInvariant, PTL

-----------------------------------------------------------------------------
(* Telegram.                                                                 *)

\* The rows of pairing requests, and the open ones among them.
LEMMA Rows ==
  ASSUME TelegramTypeOK
  PROVE  /\ pairingRows \in Seq(PairingRow) /\ Len(pairingRows) \in Nat
         /\ DOMAIN pairingRows = 1 .. Len(pairingRows)
         /\ \A i \in DOMAIN pairingRows : pairingRows[i] \in PairingRow
         /\ \A now : /\ PendingAt(now) \subseteq DOMAIN pairingRows
                     /\ IsFiniteSet(PendingAt(now)) /\ Cardinality(PendingAt(now)) \in Nat
<1>1. /\ pairingRows \in Seq(PairingRow) /\ Len(pairingRows) \in Nat
      /\ DOMAIN pairingRows = 1 .. Len(pairingRows)
      /\ \A i \in DOMAIN pairingRows : pairingRows[i] \in PairingRow
  <2>1. pairingRows \in Seq(PairingRow)
    BY Zenon DEF TelegramTypeOK
  <2>2. Len(pairingRows) \in Nat /\ DOMAIN pairingRows = 1 .. Len(pairingRows)
    BY <2>1, LenProperties
  <2> QED
    BY <2>1, <2>2, ElementOfSeq
<1>2. IsFiniteSet(1 .. Len(pairingRows))
  BY <1>1, FS_Interval
<1>3. ASSUME NEW now
      PROVE  /\ PendingAt(now) \subseteq DOMAIN pairingRows
             /\ IsFiniteSet(PendingAt(now)) /\ Cardinality(PendingAt(now)) \in Nat
  <2>1. PendingAt(now) \subseteq DOMAIN pairingRows
    BY Zenon DEF PendingAt
  <2> DEFINE P == PendingAt(now)
  <2>2. P \in SUBSET (1 .. Len(pairingRows))
    BY <1>1, <2>1
  <2> HIDE DEF P
  <2>3. IsFiniteSet(P)
    BY <1>2, <2>2, FS_Subset
  <2>4. Cardinality(P) \in Nat
    BY <2>3, FS_CardinalityType
  <2> QED
    BY <2>1, <2>3, <2>4 DEF P
<1> QED
  BY <1>1, <1>3

\* The calls of handle that run do so as before.
LEMMA SameReceiving ==
  ASSUME TelegramInv, UNCHANGED <<polling, acked, receiver, handled>>,
         \A h \in Handlers : handler'[h].at # "idle" =>
           handler[h].at # "idle" /\ handler'[h].update = handler[h].update
  PROVE  PolledInOrder' /\ HandledBeforeAcknowledged'
<1>1. HandledBeforeAcknowledged'
  BY DEF TelegramInv, HandledBeforeAcknowledged
<1>2. PolledInOrder'
  <2>1. CASE polling
    BY <2>1 DEF TelegramInv, PolledInOrder
  <2>2. CASE ~polling
    BY <2>2 DEF TelegramInv, PolledInOrder
  <2> QED
    BY <2>1, <2>2
<1> QED
  BY <1>1, <1>2

\* Finitely many calls run at once.
LEMMA CallersSize == IsFiniteSet(Callers) /\ Cardinality(Callers) \in Nat /\ Callers \subseteq Handlers
<1>1. Callers \in SUBSET Handlers /\ IsFiniteSet(Handlers)
  BY TelegramAssumption DEF Callers
<1>2. IsFiniteSet(Callers)
  BY <1>1, FS_Subset
<1> QED
  BY <1>1, <1>2, FS_CardinalityType

\* There are finitely many users, and so few that ask for a pairing.
LEMMA ApplicantsSize ==
  ASSUME TelegramTypeOK
  PROVE  IsFiniteSet(Applicants) /\ Cardinality(Applicants) \in Nat
<1>1. IsFiniteSet(Users)
  <2>1. IsFiniteSet(Ids)
    <3>1. IsFiniteSet(1 .. Len(Updates))
      BY TelegramAssumption, FS_Interval
    <3> QED
      BY <3>1, TelegramAssumption DEF Ids
  <2>2. [k \in Ids |-> Updates[k]] \in Surjection(Ids, Users)
    BY DEF Surjection, Users
  <2> QED
    BY <2>1, <2>2, FS_Surjection
<1>2. Applicants \in SUBSET Users
  <2>1. \A i \in PendingAt(clock) : pairingRows[i].user \in Users
    BY Rows DEF PairingRow
  <2>2. \A h \in Handlers : handler[h].at = "upsert" => From(h) \in Users
    BY DEF TelegramTypeOK, From, Users
  <2> QED
    BY <2>1, <2>2, Zenon DEF Applicants
<1>3. IsFiniteSet(Applicants)
  BY <1>1, <1>2, FS_Subset
<1> QED
  BY <1>3, FS_CardinalityType

\* A step after which nobody new asks keeps the bound.
LEMMA FewerApplicants ==
  ASSUME TelegramInv, UNCHANGED polling, Applicants' \subseteq Applicants
  PROVE  RoomForApplicants'
<1> DEFINE P == Applicants
           Q == Applicants'
           n == Cardinality(Callers)
<1>1. IsFiniteSet(P) /\ Cardinality(P) \in Nat /\ n \in Nat /\ MaxPending \in Nat
  BY ApplicantsSize, CallersSize, TelegramAssumption DEF TelegramInv
<1>2. Cardinality(P) <= MaxPending + n - 1
  BY Zenon DEF TelegramInv, RoomForApplicants
<1>3. Callers' = Callers /\ Q \in SUBSET P
  BY DEF Callers
<1> HIDE DEF P, Q, n
<1>4. Cardinality(Q) <= Cardinality(P) /\ IsFiniteSet(Q)
  BY <1>1, <1>3, FS_Subset
<1>5. Cardinality(Q) \in Nat
  BY <1>4, FS_CardinalityType
<1>6. Cardinality(Q) <= MaxPending + n - 1
  BY <1>1, <1>2, <1>4, <1>5
<1> QED
  BY <1>3, <1>6, Zenon DEF RoomForApplicants, Q, n

\* No request changes, and no further call is about to write one.
LEMMA SamePairing ==
  ASSUME TelegramInv, UNCHANGED <<clock, polling, pairingRows>>,
         \A h \in Handlers : handler'[h].at = "upsert" => handler[h].at = "upsert" /\ handler'[h] = handler[h]
  PROVE  OneOpenRequest' /\ RoomForApplicants'
<1>1. PendingAt(clock)' = PendingAt(clock)
  BY DEF PendingAt
<1>2. OneOpenRequest'
  BY DEF TelegramInv, OneOpenRequest
<1>3. \A h \in Handlers : handler'[h].at = "upsert" => From(h)' = From(h) /\ handler[h].at = "upsert"
  BY DEF From
<1>4. Applicants' \subseteq Applicants
  BY <1>1, <1>3, Zenon DEF Applicants
<1> QED
  BY <1>2, <1>4, FewerApplicants

\* Requests expire, are consumed or count a failure.
LEMMA FewerPending ==
  ASSUME TelegramInv, UNCHANGED <<polling, handler>>,
         PendingAt(clock)' \subseteq PendingAt(clock),
         \A i \in PendingAt(clock)' : pairingRows'[i].user = pairingRows[i].user
  PROVE  RoomForApplicants'
<1>1. \A h \in Handlers : From(h)' = From(h)
  BY DEF From
<1>2. Applicants' \subseteq Applicants
  BY <1>1, Zenon DEF Applicants
<1> QED
  BY <1>2, FewerApplicants

\* A user has at most one open request, so there are no more of them than users who ask.
LEMMA PendingWithinApplicants == ASSUME TelegramInv PROVE PendingBounded
<1> DEFINE P == PendingAt(clock)
           f == [i \in P |-> pairingRows[i].user]
           n == Cardinality(Callers)
<1>1. /\ IsFiniteSet(Applicants) /\ Cardinality(Applicants) \in Nat
      /\ Cardinality(P) \in Nat /\ n \in Nat /\ MaxPending \in Nat
  BY ApplicantsSize, CallersSize, Rows, TelegramAssumption DEF TelegramInv
<1>2. Cardinality(Applicants) <= MaxPending + n - 1
  BY Zenon DEF TelegramInv, RoomForApplicants
<1>3. f \in Injection(P, Applicants)
  <2>1. f \in [P -> Applicants]
    BY DEF Applicants
  <2>2. ASSUME NEW i \in P, NEW j \in P, pairingRows[i].user = pairingRows[j].user
        PROVE  i = j
    <3>1. /\ i \in DOMAIN pairingRows /\ j \in DOMAIN pairingRows
          /\ ~pairingRows[i].consumed /\ ~pairingRows[j].consumed
      BY Zenon DEF PendingAt
    <3> QED
      BY <2>2, <3>1, Zenon DEF TelegramInv, OneOpenRequest
  <2> QED
    BY <2>1, <2>2 DEF Injection, IsInjective
<1> HIDE DEF P, f, n
<1>4. Cardinality(P) <= Cardinality(Applicants)
  BY <1>1, <1>3, FS_Injection
<1>5. Cardinality(P) <= MaxPending + n - 1
  BY <1>1, <1>2, <1>4
<1> QED
  BY <1>5, Zenon DEF PendingBounded, P, n

\* A verdict that found the limit kept: each call that can run adds one user at most.
LEMMA VerdictLeavesRoom ==
  ASSUME TelegramInv, TelegramTypeOK', PolledInOrder', UNCHANGED <<clock, polling, pairingRows>>,
         Cardinality(PendingAt(clock)) < MaxPending
  PROVE  RoomForApplicants'
<1> DEFINE P == PendingAt(clock)
           asking == {pairingRows[i].user : i \in P}
           askers == {g \in Handlers : handler'[g].at = "upsert"}
           heard == {From(g)' : g \in askers}
           n == Cardinality(Callers)
<1>1. /\ IsFiniteSet(P) /\ Cardinality(P) \in Nat /\ MaxPending \in Nat
      /\ IsFiniteSet(Callers) /\ n \in Nat
  BY CallersSize, Rows, TelegramAssumption DEF TelegramInv
<1>2. Callers' = Callers /\ PendingAt(clock)' = P
  BY DEF Callers, PendingAt
<1>3. Applicants' = asking \cup heard
  <2>1. \A i : pairingRows'[i].user = pairingRows[i].user
    OBVIOUS
  <2> QED
    BY <1>2, <2>1 DEF Applicants
<1>4. askers \in SUBSET Callers
  BY DEF PolledInOrder, Callers
<1>5. [i \in P |-> pairingRows[i].user] \in Surjection(P, asking)
  BY DEF Surjection
<1>6. [g \in askers |-> From(g)'] \in Surjection(askers, heard)
  BY DEF Surjection
<1> HIDE DEF P, asking, askers, heard, n
<1>7. IsFiniteSet(asking) /\ Cardinality(asking) <= Cardinality(P)
  BY <1>1, <1>5, FS_Surjection
<1>8. IsFiniteSet(askers) /\ Cardinality(askers) <= n
  BY <1>1, <1>4, FS_Subset DEF n
<1>9. IsFiniteSet(heard) /\ Cardinality(heard) <= Cardinality(askers)
  BY <1>6, <1>8, FS_Surjection
<1>10. /\ Cardinality(asking \cup heard)
             = Cardinality(asking) + Cardinality(heard) - Cardinality(asking \cap heard)
       /\ IsFiniteSet(asking \cap heard)
  <2>1. asking \cap heard \in SUBSET asking
    OBVIOUS
  <2> QED
    BY <1>7, <1>9, <2>1, FS_Union, FS_Subset
<1>11. /\ Cardinality(asking) \in Nat /\ Cardinality(heard) \in Nat /\ Cardinality(askers) \in Nat
       /\ Cardinality(asking \cap heard) \in Nat
  BY <1>7, <1>8, <1>9, <1>10, FS_CardinalityType
<1>12. Cardinality(P) < MaxPending
  BY DEF P
<1>13. Cardinality(asking \cup heard) <= MaxPending + n - 1
  BY <1>1, <1>7, <1>8, <1>9, <1>10, <1>11, <1>12
<1> QED
  BY <1>2, <1>3, <1>13, Zenon DEF RoomForApplicants, n

\* The clock.
LEMMA TickInv == ASSUME TelegramInv, Tick PROVE TelegramInv'
<1>1. /\ clock \in Nat /\ clock' = clock + 1
      /\ UNCHANGED <<polling, receiverVars, handler, chatVars, pairingVars, approver, boundVars>>
  BY Zenon DEF Tick, TelegramInv, TelegramTypeOK
<1>2. UNCHANGED <<polling, acked, receiver, handler, handled, lane, pairingRows, principal, approver,
                  pairingCommands, troubles>>
  BY <1>1, Zenon DEF receiverVars, chatVars, pairingVars, boundVars
<1>3. TelegramTypeOK'
  <2>1. clock' \in Nat
    BY <1>1
  <2> QED
    BY <1>2, <2>1, Zenon DEF TelegramInv, TelegramTypeOK
<1>4. PolledInOrder' /\ HandledBeforeAcknowledged'
  BY <1>2, SameReceiving
<1>5. OneOpenRequest'
  BY <1>2 DEF TelegramInv, OneOpenRequest
<1>6. RoomForApplicants'
  <2>1. \A i \in DOMAIN pairingRows : pairingRows[i].expires \in Nat
    BY Rows DEF TelegramInv, PairingRow
  <2>2. PendingAt(clock)' \subseteq PendingAt(clock)
    BY <1>1, <1>2, <2>1 DEF PendingAt
  <2> QED
    BY <1>2, <2>2, FewerPending
<1> QED
  BY <1>3, <1>4, <1>5, <1>6 DEF TelegramInv

\* The fields of the polling loop.
ReceiverType == [at : {"down", "clear", "poll", "serve"}, offset : Nat, batch : Seq(Ids),
                 retries : [conflict : Nat, network : Nat]]

\* A receiver that starts from nothing.
LEMMA DownType ==
  /\ Down \in ReceiverType /\ Down.at = "down" /\ Down.offset = 1 /\ Down.batch = <<>>
  /\ Down.retries = [conflict |-> 0, network |-> 0] /\ DOMAIN <<>> = {} /\ 1 .. 1 - 1 = {}
<1>1. <<>> \in Seq(Ids) /\ DOMAIN <<>> = {}
  BY EmptySeq, LenProperties
<1> QED
  BY <1>1 DEF Down, ReceiverType

\* A call of handle that does not run.
LEMMA IdleType == Idle \in HandleCall /\ Idle.at = "idle" /\ Idle.update = 0 /\ Idle.now = 0
BY DEF Idle, HandleCall

\* A step of the receiver, which may end every call of handle.
LEMMA ReceiverStep ==
  ASSUME TelegramInv,
         UNCHANGED <<clock, polling, handled, lane, pairingRows, principal, approver, pairingCommands>>,
         troubles' \in Nat, acked' \subseteq handled, receiver' \in ReceiverType,
         handler' = handler \/ handler' = [h \in Handlers |-> Idle], PolledInOrder'
  PROVE  TelegramInv'
<1>1. \A h \in Handlers : handler'[h].at # "idle" => handler'[h] = handler[h]
  BY IdleType
<1>2. handler' \in [Handlers -> HandleCall] /\ handled \subseteq Ids
      /\ \A h \in Handlers : handler'[h].at # "idle" => handler'[h].update \in Ids
  <2>1. handler \in [Handlers -> HandleCall] /\ handled \subseteq Ids
        /\ \A h \in Handlers : handler[h].at # "idle" => handler[h].update \in Ids
    BY Zenon DEF TelegramInv, TelegramTypeOK
  <2> QED
    BY <1>1, <2>1, IdleType
<1>3. acked' \subseteq Ids
  BY <1>2
<1>4. TelegramTypeOK'
  BY <1>2, <1>3, Zenon DEF TelegramInv, TelegramTypeOK, ReceiverType
<1>5. OneOpenRequest' /\ RoomForApplicants'
  BY <1>1, SamePairing
<1>6. HandledBeforeAcknowledged'
  BY DEF HandledBeforeAcknowledged
<1> QED
  BY <1>4, <1>5, <1>6, Zenon DEF TelegramInv

\* The receivers, up to the call of handle.
LEMMA ReceiverInv ==
  ASSUME TelegramInv,
         \/ Start \/ DeleteWebhook \/ GetUpdates \/ Crash
         \/ \E kind \in {"conflict", "network", "fatal"} : ApiFails(kind)
  PROVE  TelegramInv'
<1>1. /\ UNCHANGED <<clock, polling, handled, lane, pairingRows, principal, approver, pairingCommands>>
      /\ handler' = handler \/ handler' = [h \in Handlers |-> Idle]
      /\ receiver \in ReceiverType /\ troubles \in Nat /\ acked \subseteq handled
      /\ polling \in BOOLEAN /\ PolledInOrder
  <2>1. /\ receiver \in ReceiverType /\ troubles \in Nat /\ acked \subseteq handled
        /\ polling \in BOOLEAN /\ PolledInOrder
    BY Zenon DEF TelegramInv, TelegramTypeOK, HandledBeforeAcknowledged, ReceiverType
  <2>2. Start \/ DeleteWebhook \/ GetUpdates => handler' = handler
          /\ UNCHANGED <<clock, polling, handled, lane, pairingRows, principal, approver, pairingCommands>>
    BY Zenon DEF Start, DeleteWebhook, GetUpdates, chatVars, pairingVars, boundVars
  <2>3. Crash => handler' = [h \in Handlers |-> Idle]
          /\ UNCHANGED <<clock, polling, handled, lane, pairingRows, principal, approver, pairingCommands>>
    BY Zenon DEF Crash, chatVars, pairingVars
  <2>4. \A kind : ApiFails(kind) => handler' = handler
          /\ UNCHANGED <<clock, polling, handled, lane, pairingRows, principal, approver, pairingCommands>>
    BY Zenon DEF ApiFails, chatVars, pairingVars
  <2> QED
    BY <2>1, <2>2, <2>3, <2>4, Zenon
<1>2. troubles' \in Nat
  <2>1. troubles' = troubles \/ troubles' = troubles + 1
    BY Zenon DEF Start, DeleteWebhook, GetUpdates, Crash, ApiFails, boundVars
  <2>2. troubles \in Nat
    BY <1>1, Zenon
  <2> QED
    BY <2>1, <2>2
<1>3. ASSUME polling PROVE PolledInOrder' /\ acked' \subseteq handled /\ receiver' \in ReceiverType
  <2>1. /\ receiver.at # "serve" /\ receiver.offset >= 1 /\ receiver.offset \in Nat
        /\ receiver.batch # <<>> => receiver.at = "poll"
        /\ 1 .. receiver.offset - 1 \subseteq handled
        /\ receiver.batch \in Seq(Ids)
        /\ \A i \in DOMAIN receiver.batch : receiver.batch[i] = receiver.offset + i - 1
        /\ \A h \in Handlers : handler[h].at # "idle" =>
               h = Poller /\ receiver.batch # <<>> /\ handler[h].update = receiver.offset
    BY <1>1, <1>3 DEF PolledInOrder, ReceiverType
  <2>2. polling'
    BY <1>1, <1>3
  <2>3. ASSUME receiver'.at # "serve", receiver'.offset >= 1, receiver'.batch # <<>> => receiver'.at = "poll",
               1 .. receiver'.offset - 1 \subseteq handled,
               \A i \in DOMAIN receiver'.batch : receiver'.batch[i] = receiver'.offset + i - 1,
               \A h \in Handlers : handler'[h].at = "idle"
        PROVE  PolledInOrder'
    BY <1>1, <2>2, <2>3 DEF PolledInOrder
  <2>4. receiver.batch = <<>> => \A h \in Handlers : handler[h].at = "idle"
    BY <2>1
  <2>5. CASE Start
    <3>1. receiver' = [Down EXCEPT !.at = "clear"] /\ acked' = acked /\ receiver.at = "down" /\ handler' = handler
      BY <1>3, <2>5 DEF Start
    <3>2. /\ receiver' \in ReceiverType /\ receiver'.at = "clear" /\ receiver'.offset = 1 /\ receiver'.batch = <<>>
      BY <3>1, DownType DEF ReceiverType
    <3> QED
      BY <1>1, <2>1, <2>3, <2>4, <3>1, <3>2, DownType
  <2>6. CASE DeleteWebhook
    <3>1. receiver' = [receiver EXCEPT !.at = "poll", !.retries.network = 0] /\ acked' = acked
          /\ receiver.at = "clear" /\ handler' = handler
      BY <2>6 DEF DeleteWebhook
    <3>2. /\ receiver' \in ReceiverType /\ receiver'.at = "poll"
          /\ receiver'.offset = receiver.offset /\ receiver'.batch = receiver.batch
      BY <1>1, <3>1 DEF ReceiverType
    <3> QED
      BY <1>1, <2>1, <2>3, <2>4, <3>1, <3>2
  <2>7. CASE GetUpdates
    <3>1. PICK last \in receiver.offset - 1 .. Len(Updates) :
             receiver' = [receiver EXCEPT !.retries = Down.retries,
                           !.batch = [i \in 1 .. (last + 1 - receiver.offset) |-> receiver.offset + i - 1]]
      BY <2>7 DEF GetUpdates
    <3>2. acked' = acked \cup 1 .. (receiver.offset - 1) /\ receiver.at = "poll" /\ receiver.batch = <<>>
          /\ handler' = handler
      BY <2>7 DEF GetUpdates
    <3> DEFINE n == last + 1 - receiver.offset
               b == [i \in 1 .. n |-> receiver.offset + i - 1]
    <3>3. b \in Seq(Ids)
      <4>1. n \in Nat /\ \A i \in 1 .. n : receiver.offset + i - 1 \in 1 .. Len(Updates)
        <5>1. receiver.offset \in Nat /\ receiver.offset >= 1 /\ Len(Updates) \in Nat
          BY <2>1, TelegramAssumption
        <5>2. last \in Int /\ last >= receiver.offset - 1 /\ last <= Len(Updates)
          BY <3>1, <5>1
        <5> HIDE <3>1
        <5> QED
          BY <5>1, <5>2
      <4>2. \A i \in 1 .. n : receiver.offset + i - 1 \in Ids
        BY <4>1, TelegramAssumption DEF Ids
      <4> HIDE DEF n
      <4>3. b \in [1 .. n -> Ids]
        BY <4>2
      <4> QED
        BY <4>1, <4>3, SeqDef
    <3>4. \A i \in DOMAIN b : b[i] = receiver.offset + i - 1
      OBVIOUS
    <3> HIDE DEF b
    <3>5. receiver' = [receiver EXCEPT !.retries = Down.retries, !.batch = b]
      BY <3>1 DEF b
    <3>6. Down.retries \in [conflict : Nat, network : Nat]
      BY DownType
    <3>7. /\ receiver' \in ReceiverType /\ receiver'.at = "poll"
          /\ receiver'.offset = receiver.offset /\ receiver'.batch = b
      BY <1>1, <3>2, <3>3, <3>5, <3>6 DEF ReceiverType
    <3> QED
      BY <1>1, <2>1, <2>3, <2>4, <3>2, <3>4, <3>7
  <2>8. CASE Crash
    <3>1. receiver' = Down /\ acked' = acked /\ handler' = [h \in Handlers |-> Idle]
      BY <2>8 DEF Crash
    <3> QED
      BY <1>1, <2>3, <3>1, DownType, IdleType
  <2>9. ASSUME NEW kind \in {"conflict", "network", "fatal"}, ApiFails(kind)
        PROVE  PolledInOrder' /\ acked' \subseteq handled /\ receiver' \in ReceiverType
    <3>1. /\ receiver.batch = <<>> /\ acked' = acked /\ handler' = handler
          /\ receiver.at \in {"clear", "poll"}
          /\ receiver' = IF kind = "fatal" \/ receiver.retries[kind] = MaxRetries THEN Down
                         ELSE [receiver EXCEPT !.retries[kind] = @ + 1]
      BY <2>9 DEF ApiFails
    <3>2. CASE receiver' = Down
      <4>1. \A h \in Handlers : handler'[h].at = "idle"
        BY <2>4, <3>1
      <4> QED
        <5>1. /\ receiver'.at = "down" /\ receiver'.offset = 1 /\ receiver'.batch = <<>>
              /\ DOMAIN receiver'.batch = {} /\ 1 .. receiver'.offset - 1 = {} /\ receiver' \in ReceiverType
          BY <3>2, DownType
        <5>2. PolledInOrder'
          BY <2>3, <4>1, <5>1
        <5> QED
          BY <1>1, <3>1, <5>1, <5>2
    <3>3. CASE kind # "fatal" /\ receiver' = [receiver EXCEPT !.retries[kind] = @ + 1]
      <4>1. /\ receiver' \in ReceiverType /\ receiver'.at = receiver.at
            /\ receiver'.offset = receiver.offset /\ receiver'.batch = receiver.batch
        BY <1>1, <3>3 DEF ReceiverType
      <4> QED
        BY <1>1, <2>1, <2>3, <2>4, <3>1, <4>1
    <3> QED
      BY <3>1, <3>2, <3>3
  <2> QED
    BY <2>5, <2>6, <2>7, <2>8, <2>9
<1>4. ASSUME ~polling PROVE PolledInOrder' /\ acked' \subseteq handled /\ receiver' \in ReceiverType
  <2>1. receiver.at \in {"down", "serve"}
    BY <1>1, <1>4 DEF PolledInOrder
  <2>2. receiver' = Down \/ receiver' = [Down EXCEPT !.at = "serve"]
    BY <1>4, <2>1 DEF Start, DeleteWebhook, GetUpdates, Crash, ApiFails
  <2>3. receiver' \in ReceiverType /\ receiver'.at \in {"down", "serve"}
    BY <2>2, DownType DEF ReceiverType
  <2>4. acked' = acked
    BY <2>1 DEF Start, DeleteWebhook, GetUpdates, Crash, ApiFails
  <2> QED
    BY <1>1, <1>4, <2>3, <2>4 DEF PolledInOrder
<1> QED
  BY <1>1, <1>2, <1>3, <1>4, ReceiverStep, Zenon

\* A call of handle that begins or goes on without writing a request or returning.
LEMMA HandlerStep ==
  ASSUME TelegramInv, NEW h \in Handlers, NEW call \in HandleCall,
         handler' = [handler EXCEPT ![h] = call],
         UNCHANGED <<clock, polling, acked, receiver, handled, pairingRows, principal, approver,
                     pairingCommands, troubles>>,
         lane' \in [Users -> Nat],
         call.at # "idle", call.update \in Ids,
         PolledInOrder', RoomForApplicants'
  PROVE  TelegramInv'
<1>1. handler' \in [Handlers -> HandleCall]
      /\ \A g \in Handlers : handler'[g].at # "idle" => handler'[g].update \in Ids
  <2>1. handler \in [Handlers -> HandleCall]
        /\ \A g \in Handlers : handler[g].at # "idle" => handler[g].update \in Ids
    BY Zenon DEF TelegramInv, TelegramTypeOK
  <2> QED
    BY <2>1
<1>2. TelegramTypeOK'
  BY <1>1, Zenon DEF TelegramInv, TelegramTypeOK
<1>3. OneOpenRequest' /\ HandledBeforeAcknowledged'
  BY Zenon DEF TelegramInv, OneOpenRequest, HandledBeforeAcknowledged
<1> QED
  BY <1>2, <1>3, Zenon DEF TelegramInv

\* A call of handle begins with the head of the batch, or with a posted update.
LEMMA ReceiveInv ==
  ASSUME TelegramInv,
         HandlePolled \/ \E h \in Handlers, k \in Ids : HandlePosted(h, k)
  PROVE  TelegramInv'
<1>1. /\ polling \in BOOLEAN /\ PolledInOrder /\ handler \in [Handlers -> HandleCall]
      /\ receiver \in ReceiverType /\ lane \in [Users -> Nat]
  BY Zenon DEF TelegramInv, TelegramTypeOK, ReceiverType
<1>2. ASSUME NEW h \in Handlers, NEW k \in Ids, ReceiveUpdate(h, k),
             polling => h = Poller /\ receiver.batch # <<>> /\ k = receiver.offset
                        /\ \A g \in Handlers : handler[g].at # "idle" => g = Poller
      PROVE  TelegramInv'
  <2> DEFINE call == [Idle EXCEPT !.update = k, !.at = IF principal[Updates[k]] = Nobody THEN "pair" ELSE "resolve"]
  <2>1. /\ UNCHANGED <<clock, polling, receiverVars, chatVars, pairingVars, approver, boundVars>>
        /\ handler' = [handler EXCEPT ![h] = call]
    BY <1>2 DEF ReceiveUpdate
  <2>2. k \in Nat
    BY TelegramAssumption DEF Ids
  <2>3. call \in HandleCall /\ call.at \in {"pair", "resolve"} /\ call.update = k
    BY <2>2, IdleType DEF HandleCall
  <2> HIDE DEF call
  <2>4. handler'[h] = call /\ \A g \in Handlers \ {h} : handler'[g] = handler[g]
    BY <1>1, <2>1
  <2>5. UNCHANGED <<clock, polling, acked, receiver, handled, lane, pairingRows, principal, approver,
                    pairingCommands, troubles>>
    BY <2>1 DEF receiverVars, chatVars, pairingVars, boundVars
  <2>6. PolledInOrder'
    <3>1. CASE polling
      BY <1>1, <1>2, <2>3, <2>4, <2>5, <3>1 DEF PolledInOrder
    <3>2. CASE ~polling
      BY <1>1, <2>5, <3>2 DEF PolledInOrder
    <3> QED
      BY <3>1, <3>2
  <2>7. \A g \in Handlers : handler'[g].at = "upsert" => handler[g].at = "upsert" /\ handler'[g] = handler[g]
    BY <2>3, <2>4
  <2>8. RoomForApplicants'
    BY <2>5, <2>7, SamePairing
  <2> QED
    BY <1>1, <2>1, <2>3, <2>5, <2>6, <2>8, HandlerStep
<1>3. CASE HandlePolled
  <2>1. /\ receiver.at = "poll" /\ receiver.batch # <<>> /\ handler[Poller].at = "idle"
        /\ ReceiveUpdate(Poller, Head(receiver.batch))
    BY <1>3 DEF HandlePolled
  <2>2. polling
    BY <1>1, <2>1 DEF PolledInOrder
  <2>3. Head(receiver.batch) = receiver.batch[1] /\ 1 \in DOMAIN receiver.batch /\ Head(receiver.batch) \in Ids
    <3>1. receiver.batch \in Seq(Ids)
      BY <1>1 DEF ReceiverType
    <3>2. Len(receiver.batch) \in Nat \ {0} /\ DOMAIN receiver.batch = 1 .. Len(receiver.batch)
      BY <2>1, <3>1, EmptySeq, LenProperties
    <3>3. Head(receiver.batch) \in Ids
      BY <2>1, <3>1, HeadTailProperties
    <3> QED
      BY <3>1, <3>2, <3>3
  <2>4. Head(receiver.batch) = receiver.offset
        /\ \A g \in Handlers : handler[g].at # "idle" => g = Poller
    <3>1. receiver.offset + 1 - 1 = receiver.offset
      BY <1>1 DEF ReceiverType
    <3> QED
      BY <1>1, <2>2, <2>3, <3>1 DEF PolledInOrder
  <2> QED
    BY <1>2, <2>1, <2>3, <2>4, TelegramAssumption
<1>4. ASSUME NEW h \in Handlers, NEW k \in Ids, HandlePosted(h, k) PROVE TelegramInv'
  <2>1. ReceiveUpdate(h, k) /\ receiver.at = "serve"
    BY <1>4 DEF HandlePosted
  <2>2. ~polling
    BY <1>1, <2>1 DEF PolledInOrder
  <2> QED
    BY <1>2, <2>1, <2>2
<1> QED
  BY <1>3, <1>4

\* A call of handle goes on: the conversation is resolved or started, or the
\* verdict on a pairing falls.
LEMMA HandleGoesOn ==
  ASSUME TelegramInv, NEW h \in Handlers,
         ResolveConversation(h) \/ StartNewConversation(h) \/ JudgePairing(h)
  PROVE  TelegramInv'
<1>1. /\ polling \in BOOLEAN /\ PolledInOrder /\ handler \in [Handlers -> HandleCall]
      /\ lane \in [Users -> Nat] /\ clock \in Nat
      /\ \A g \in Handlers : handler[g].at # "idle" => handler[g].update \in Ids
  BY Zenon DEF TelegramInv, TelegramTypeOK
<1>2. handler[h].at # "idle" /\ handler[h].update \in Ids
  BY <1>1 DEF ResolveConversation, StartNewConversation, JudgePairing
<1>3. UNCHANGED <<clock, polling, acked, receiver, handled, pairingRows, principal, approver,
                  pairingCommands, troubles>>
  BY Zenon DEF ResolveConversation, StartNewConversation, JudgePairing, receiverVars, chatVars,
     pairingVars, boundVars
<1>4. lane' \in [Users -> Nat]
  <2>1. CASE StartNewConversation(h)
    <3>1. From(h) \in Users
      BY <1>2 DEF From, Users
    <3> QED
      BY <1>1, <2>1, <3>1 DEF StartNewConversation
  <2>2. CASE ~StartNewConversation(h)
    BY <1>1, <2>2, Zenon DEF ResolveConversation, JudgePairing, chatVars
  <2> QED
    BY <2>1, <2>2
<1>5. ASSUME NEW call \in HandleCall, handler' = [handler EXCEPT ![h] = call],
             call.at # "idle", call.update = handler[h].update,
             call.at = "upsert" => \/ Cardinality(PendingAt(clock)) < MaxPending
                                   \/ \E i \in PendingAt(clock) : pairingRows[i].user = From(h)
      PROVE  TelegramInv'
  <2>1. handler'[h] = call /\ \A g \in Handlers \ {h} : handler'[g] = handler[g]
    BY <1>1, <1>5
  <2>2. PolledInOrder'
    <3>1. \A g \in Handlers : handler'[g].at # "idle" =>
             handler[g].at # "idle" /\ handler'[g].update = handler[g].update
      BY <1>2, <1>5, <2>1
    <3> QED
      BY <1>3, <3>1, SameReceiving
  <2>3. PendingAt(clock)' = PendingAt(clock) /\ \A g \in Handlers : From(g)' = From(g)
    <3>1. \A g \in Handlers : handler'[g].update = handler[g].update
      BY <1>5, <2>1
    <3> QED
      BY <1>3, <3>1 DEF PendingAt, From
  <2>4. RoomForApplicants'
    <3>1. CASE call.at = "upsert" /\ Cardinality(PendingAt(clock)) < MaxPending
      <4>1. handler' \in [Handlers -> HandleCall]
            /\ \A g \in Handlers : handler'[g].at # "idle" => handler'[g].update \in Ids
        BY <1>1, <1>2, <1>5, <2>1
      <4>2. TelegramTypeOK'
        BY <1>3, <1>4, <4>1, Zenon DEF TelegramInv, TelegramTypeOK
      <4> QED
        BY <1>3, <2>2, <3>1, <4>2, VerdictLeavesRoom
    <3>2. CASE ~(call.at = "upsert" /\ Cardinality(PendingAt(clock)) < MaxPending)
      <4>1. \A g \in Handlers : handler'[g].at = "upsert" =>
               handler[g].at = "upsert" \/ \E i \in PendingAt(clock) : pairingRows[i].user = From(g)
        BY <1>5, <2>1, <3>2
      <4>2. Applicants' \subseteq Applicants
        <5>1. \A i \in PendingAt(clock)' : pairingRows'[i].user \in Applicants
          BY <1>3, <2>3, Zenon DEF Applicants
        <5>2. ASSUME NEW g \in Handlers, handler'[g].at = "upsert" PROVE From(g)' \in Applicants
          BY <2>3, <4>1, <5>2, Zenon DEF Applicants
        <5> QED
          BY <5>1, <5>2, Zenon DEF Applicants
      <4> QED
        BY <1>3, <4>2, FewerApplicants
    <3> QED
      BY <3>1, <3>2
  <2> QED
    BY <1>2, <1>3, <1>4, <1>5, <2>2, <2>4, HandlerStep
<1>6. CASE ResolveConversation(h) \/ StartNewConversation(h)
  <2>1. PICK at \in {"start", "inbound"} : handler' = [handler EXCEPT ![h].at = at]
    BY <1>6 DEF ResolveConversation, StartNewConversation, Move
  <2> DEFINE call == [handler[h] EXCEPT !.at = at]
  <2>2. call \in HandleCall /\ call.at = at /\ call.update = handler[h].update
    BY <1>1 DEF HandleCall
  <2> HIDE DEF call
  <2>3. handler' = [handler EXCEPT ![h] = call]
    BY <2>1 DEF call
  <2> QED
    BY <1>5, <2>1, <2>2, <2>3
<1>7. CASE JudgePairing(h)
  <2>1. CASE PairingVerdict(From(h), clock) = "created"
    <3> DEFINE call == [handler[h] EXCEPT !.at = "upsert", !.now = clock]
    <3>1. handler' = [handler EXCEPT ![h] = call]
      BY <1>7, <2>1, Zenon DEF JudgePairing
    <3>2. call \in HandleCall /\ call.at = "upsert" /\ call.update = handler[h].update
      BY <1>1 DEF HandleCall
    <3> HIDE DEF call
    <3> DEFINE P == PendingAt(clock)
               E == {i \in P : pairingRows[i].user = From(h)}
    <3>3. ~TooMany(P, E)
      BY <2>1 DEF PairingVerdict
    <3>4. Cardinality(P) < MaxPending \/ E # {}
      <4>1. Cardinality(P) \in Nat /\ MaxPending \in Nat
        BY Rows, TelegramAssumption DEF TelegramInv
      <4> HIDE DEF P, E
      <4> QED
        BY <3>3, <4>1 DEF TooMany
    <3>5. \/ Cardinality(PendingAt(clock)) < MaxPending
          \/ \E i \in PendingAt(clock) : pairingRows[i].user = From(h)
      BY <3>4, Zenon
    <3> QED
      BY <1>5, <3>1, <3>2, <3>5
  <2>2. CASE PairingVerdict(From(h), clock) # "created"
    <3> DEFINE call == [handler[h] EXCEPT !.at = "reply"]
    <3>1. handler' = [handler EXCEPT ![h] = call]
      BY <1>7, <2>2, Zenon DEF JudgePairing
    <3>2. call \in HandleCall /\ call.at = "reply" /\ call.update = handler[h].update
      BY <1>1 DEF HandleCall
    <3> HIDE DEF call
    <3> QED
      BY <1>5, <3>1, <3>2
  <2> QED
    BY <2>1, <2>2
<1> QED
  BY <1>6, <1>7

\* A call of handle is over.
LEMMA IdleAgain ==
  ASSUME TelegramInv, NEW h \in Handlers, handler' = [handler EXCEPT ![h] = Idle],
         UNCHANGED <<clock, polling, lane, pairingRows, principal, approver, pairingCommands>>,
         troubles' \in Nat, acked' \subseteq handled', handled' \subseteq Ids,
         receiver' \in ReceiverType, PolledInOrder'
  PROVE  TelegramInv'
<1>1. handler \in [Handlers -> HandleCall] /\ \A g \in Handlers : handler[g].at # "idle" => handler[g].update \in Ids
  BY Zenon DEF TelegramInv, TelegramTypeOK
<1>2. \A g \in Handlers : handler'[g] = IF g = h THEN Idle ELSE handler[g]
  BY <1>1
<1>3. handler' \in [Handlers -> HandleCall] /\ \A g \in Handlers : handler'[g].at # "idle" => handler'[g].update \in Ids
  BY <1>1, <1>2, IdleType
<1>4. acked' \subseteq Ids
  OBVIOUS
<1>5. TelegramTypeOK'
  BY <1>3, <1>4, Zenon DEF TelegramInv, TelegramTypeOK, ReceiverType
<1>6. OneOpenRequest' /\ RoomForApplicants'
  <2>1. \A g \in Handlers : handler'[g].at = "upsert" => handler[g].at = "upsert" /\ handler'[g] = handler[g]
    BY <1>2, IdleType
  <2> QED
    BY <2>1, SamePairing
<1> QED
  BY <1>5, <1>6, Zenon DEF TelegramInv, HandledBeforeAcknowledged

\* A call of handle answers or hands the message on and returns: only now does the
\* offset move, or the update count as answered.
LEMMA ReturnInv ==
  ASSUME TelegramInv, NEW h \in Handlers, Reply(h) \/ Inbound(h)
  PROVE  TelegramInv'
<1>1. /\ polling \in BOOLEAN /\ PolledInOrder /\ handler \in [Handlers -> HandleCall]
      /\ \A g \in Handlers : handler[g].at # "idle" => handler[g].update \in Ids
      /\ receiver \in ReceiverType /\ troubles \in Nat /\ acked \subseteq handled /\ handled \subseteq Ids
  BY Zenon DEF TelegramInv, TelegramTypeOK, HandledBeforeAcknowledged, ReceiverType
<1>2. handler[h].at # "idle" /\ handler[h].update \in Ids
  BY <1>1 DEF Reply, Inbound
<1>3. /\ UNCHANGED <<clock, polling, lane, pairingRows, principal, approver, pairingCommands, troubles>>
      /\ handled' = handled \cup {handler[h].update} /\ handler' = [handler EXCEPT ![h] = Idle]
      /\ IF polling
         THEN /\ receiver' = [receiver EXCEPT !.offset = handler[h].update + 1, !.batch = Tail(@)]
              /\ acked' = acked
         ELSE acked' = acked \cup {handler[h].update} /\ receiver' = receiver
  BY Zenon DEF Reply, Inbound, Return, pairingVars, boundVars
<1>4. \A g \in Handlers : handler'[g] = IF g = h THEN Idle ELSE handler[g]
  BY <1>1, <1>3
<1>5. CASE polling
  <2>1. /\ receiver.at # "serve" /\ receiver.offset >= 1 /\ receiver.offset \in Nat /\ receiver.at = "poll"
        /\ 1 .. receiver.offset - 1 \subseteq handled
        /\ receiver.batch \in Seq(Ids) /\ receiver.batch # <<>>
        /\ \A i \in DOMAIN receiver.batch : receiver.batch[i] = receiver.offset + i - 1
        /\ h = Poller /\ handler[h].update = receiver.offset
        /\ \A g \in Handlers : handler[g].at # "idle" => g = h
    BY <1>1, <1>2, <1>5 DEF PolledInOrder, ReceiverType
  <2>2. /\ Tail(receiver.batch) \in Seq(Ids) /\ Len(receiver.batch) \in Nat
        /\ DOMAIN receiver.batch = 1 .. Len(receiver.batch)
        /\ DOMAIN Tail(receiver.batch) = 1 .. Len(receiver.batch) - 1
        /\ \A i \in 1 .. Len(receiver.batch) - 1 : Tail(receiver.batch)[i] = receiver.batch[i + 1]
    BY <2>1, HeadTailProperties, LenProperties
  <2>3. /\ receiver' \in ReceiverType /\ receiver'.at = "poll" /\ receiver'.offset = receiver.offset + 1
        /\ receiver'.batch = Tail(receiver.batch)
    <3>1. receiver.offset + 1 \in Nat /\ receiver' = [receiver EXCEPT !.offset = receiver.offset + 1, !.batch = Tail(@)]
      BY <1>3, <1>5, <2>1
    <3> QED
      BY <1>1, <2>1, <2>2, <3>1 DEF ReceiverType
  <2>4. 1 .. receiver'.offset - 1 \subseteq handled'
    <3>1. receiver'.offset - 1 = receiver.offset
      BY <2>1, <2>3
    <3>2. \A k \in 1 .. receiver.offset : k \in 1 .. receiver.offset - 1 \/ k = receiver.offset
      BY <2>1
    <3> QED
      BY <1>3, <2>1, <3>1, <3>2
  <2>5. \A i \in DOMAIN receiver'.batch : receiver'.batch[i] = receiver'.offset + i - 1
    <3> SUFFICES ASSUME NEW i \in 1 .. Len(receiver.batch) - 1
                 PROVE  receiver.batch[i + 1] = receiver.offset + 1 + i - 1
      BY <2>2, <2>3
    <3>1. i + 1 \in DOMAIN receiver.batch
      BY <2>2
    <3>2. receiver.batch[i + 1] = receiver.offset + (i + 1) - 1
      BY <2>1, <3>1
    <3> QED
      BY <2>1, <2>2, <3>2
  <2>6. \A g \in Handlers : handler'[g].at = "idle"
    BY <1>4, <2>1, IdleType
  <2>7. receiver'.offset >= 1
    BY <2>1, <2>3
  <2>8. PolledInOrder'
    BY <1>3, <1>5, <2>3, <2>4, <2>5, <2>6, <2>7 DEF PolledInOrder
  <2>9. acked' \subseteq handled' /\ handled' \subseteq Ids
    BY <1>1, <1>2, <1>3, <1>5
  <2> QED
    BY <1>1, <1>3, <2>3, <2>8, <2>9, IdleAgain
<1>6. CASE ~polling
  <2>1. PolledInOrder'
    BY <1>1, <1>3, <1>6 DEF PolledInOrder
  <2>2. acked' \subseteq handled' /\ handled' \subseteq Ids /\ receiver' \in ReceiverType
    BY <1>1, <1>2, <1>3, <1>6
  <2> QED
    BY <1>1, <1>3, <2>1, <2>2, IdleAgain
<1> QED
  BY <1>5, <1>6

\* A call of handle throws.
LEMMA ThrowInv ==
  ASSUME TelegramInv, NEW h \in Handlers, HandleThrows(h)
  PROVE  TelegramInv'
<1>1. /\ polling \in BOOLEAN /\ PolledInOrder /\ handler \in [Handlers -> HandleCall]
      /\ receiver \in ReceiverType /\ troubles \in Nat /\ acked \subseteq handled /\ handled \subseteq Ids
  BY Zenon DEF TelegramInv, TelegramTypeOK, HandledBeforeAcknowledged, ReceiverType
<1>2. /\ UNCHANGED <<clock, polling, acked, handled, lane, pairingRows, principal, approver, pairingCommands>>
      /\ handler' = [handler EXCEPT ![h] = Idle] /\ handler[h].at # "idle"
      /\ receiver' = IF polling THEN Down ELSE receiver
      /\ troubles' = troubles + 1
  BY Zenon DEF HandleThrows, chatVars, pairingVars
<1>3. \A g \in Handlers : handler'[g] = IF g = h THEN Idle ELSE handler[g]
  BY <1>1, <1>2
<1>4. PolledInOrder' /\ receiver' \in ReceiverType
  <2>1. CASE polling
    <3>1. /\ receiver'.at = "down" /\ receiver'.offset = 1 /\ receiver'.batch = <<>>
          /\ DOMAIN receiver'.batch = {} /\ 1 .. receiver'.offset - 1 = {} /\ receiver' \in ReceiverType
      BY <1>2, <2>1, DownType
    <3>2. \A g \in Handlers : handler'[g].at = "idle"
      BY <1>1, <1>2, <1>3, <2>1, IdleType DEF PolledInOrder
    <3> QED
      BY <1>2, <2>1, <3>1, <3>2 DEF PolledInOrder
  <2>2. CASE ~polling
    BY <1>1, <1>2, <2>2 DEF PolledInOrder
  <2> QED
    BY <2>1, <2>2
<1>5. troubles' \in Nat
  BY <1>1, <1>2
<1> QED
  BY <1>1, <1>2, <1>4, <1>5, IdleAgain

\* The request is written: over the user's open one, or as a new row.
LEMMA UpsertInv ==
  ASSUME TelegramInv, NEW h \in Handlers, UpsertRequest(h)
  PROVE  TelegramInv'
<1> DEFINE u == From(h)
           now == handler[h].now
           row == [user |-> u, expires |-> now + CodeTtl, lastSent |-> now,
                   failed |-> 0, lockedUntil |-> 0, consumed |-> FALSE]
           open == {i \in DOMAIN pairingRows : pairingRows[i].user = u /\ ~pairingRows[i].consumed}
           n == Len(pairingRows)
<1>1. /\ polling \in BOOLEAN /\ handler \in [Handlers -> HandleCall]
      /\ \A g \in Handlers : handler[g].at # "idle" => handler[g].update \in Ids
      /\ \A a \in Approvers : approver[a].at # "idle" => approver[a].row \in DOMAIN pairingRows
      /\ TelegramTypeOK /\ PolledInOrder /\ OneOpenRequest
  BY Zenon DEF TelegramInv, TelegramTypeOK
<1>2. handler[h].at = "upsert" /\ handler[h].update \in Ids /\ now \in Nat /\ u \in Users
  BY <1>1 DEF UpsertRequest, HandleCall, From, Users
<1>3. /\ UNCHANGED <<clock, polling, acked, receiver, handled, lane, principal, approver,
                     pairingCommands, troubles>>
      /\ pairingRows' = UpsertedRequests(u, now)
      /\ handler' = [handler EXCEPT ![h].at = "reply", ![h].now = 0]
  BY Zenon DEF UpsertRequest, receiverVars, chatVars, boundVars
<1>4. row \in PairingRow /\ row.user = u /\ row.consumed = FALSE
  BY <1>2, TelegramAssumption, SMTT(30) DEF PairingRow
<1>5. /\ pairingRows \in Seq(PairingRow) /\ n \in Nat /\ DOMAIN pairingRows = 1 .. n
      /\ \A i \in DOMAIN pairingRows : pairingRows[i] \in PairingRow
  BY <1>1, Rows
<1>6. pairingRows' = IF open = {} THEN Append(pairingRows, row)
                     ELSE [i \in DOMAIN pairingRows |-> IF i \in open THEN row ELSE pairingRows[i]]
  BY <1>3 DEF UpsertedRequests
<1>7. \A i, j \in open : i = j
  BY <1>1, Zenon DEF OneOpenRequest
<1> HIDE DEF row, u, now
<1> DEFINE Upserted(k) == /\ pairingRows' \in Seq(PairingRow) /\ DOMAIN pairingRows' = (1 .. n) \cup {k}
                          /\ k \in 1 .. n \/ k = n + 1
                          /\ \A i \in 1 .. n : i # k => pairingRows'[i] = pairingRows[i]
                          /\ pairingRows'[k] = row
                          /\ open \subseteq {k}
<1>8. \E k : Upserted(k)
  <2>1. CASE open = {}
    <3>1. /\ Append(pairingRows, row) \in Seq(PairingRow) /\ Len(Append(pairingRows, row)) = n + 1
          /\ \A i \in 1 .. n : Append(pairingRows, row)[i] = pairingRows[i]
          /\ Append(pairingRows, row)[n + 1] = row
      BY <1>4, <1>5, AppendProperties
    <3>2. DOMAIN Append(pairingRows, row) = 1 .. n + 1
      BY <3>1, LenProperties
    <3>3. 1 .. n + 1 = (1 .. n) \cup {n + 1}
      BY <1>5
    <3>4. pairingRows' = Append(pairingRows, row)
      BY <1>6, <2>1
    <3> HIDE DEF open
    <3> QED
      BY <2>1, <3>1, <3>2, <3>3, <3>4
  <2>2. ASSUME NEW k \in open PROVE Upserted(k)
    <3>1. open = {k} /\ k \in 1 .. n
      BY <1>5, <1>7, <2>2
    <3>2. pairingRows' = [i \in 1 .. n |-> IF i = k THEN row ELSE pairingRows[i]]
      <4> HIDE DEF open
      <4> QED
        BY <1>5, <1>6, <3>1
    <3>3. pairingRows' \in [1 .. n -> PairingRow]
      BY <1>4, <1>5, <3>2
    <3>4. pairingRows' \in Seq(PairingRow)
      BY <1>5, <3>3, SeqDef
    <3> QED
      BY <3>1, <3>2, <3>4
  <2> QED
    BY <2>1, <2>2
<1>9. PICK k : Upserted(k)
  BY <1>8
<1>10. \A i \in DOMAIN pairingRows' : i = k \/ (i \in DOMAIN pairingRows /\ i \notin open /\ pairingRows'[i] = pairingRows[i])
  BY <1>5, <1>9
<1>11. OneOpenRequest'
  <2> SUFFICES ASSUME NEW i \in DOMAIN pairingRows', NEW j \in DOMAIN pairingRows',
                      pairingRows'[i].user = pairingRows'[j].user,
                      ~pairingRows'[i].consumed, ~pairingRows'[j].consumed
               PROVE  i = j
    BY Zenon DEF OneOpenRequest
  <2>1. CASE i # k /\ j # k
    BY <1>1, <1>10, <2>1, Zenon DEF OneOpenRequest
  <2>2. ASSUME NEW x \in DOMAIN pairingRows', x # k, pairingRows'[x].user = pairingRows'[k].user,
               ~pairingRows'[x].consumed
        PROVE  FALSE
    <3>1. x \in open
      BY <1>4, <1>9, <1>10, <2>2, Zenon
    <3> QED
      BY <1>10, <2>2, <3>1
  <2> QED
    BY <2>1, <2>2, Zenon
<1>12. /\ handler' \in [Handlers -> HandleCall]
       /\ \A g \in Handlers : handler'[g].at # "idle" => handler[g].at # "idle" /\ handler'[g].update = handler[g].update
       /\ handler'[h].at = "reply" /\ \A g \in Handlers \ {h} : handler'[g] = handler[g]
  <2>1. handler'[h] = [handler[h] EXCEPT !.at = "reply", !.now = 0] /\ \A g \in Handlers \ {h} : handler'[g] = handler[g]
    BY <1>1, <1>3
  <2>2. [handler[h] EXCEPT !.at = "reply", !.now = 0] \in HandleCall
    BY <1>1 DEF HandleCall
  <2>3. handler'[h].at = "reply" /\ handler'[h].update = handler[h].update
    BY <1>1, <2>1 DEF HandleCall
  <2>4. handler' \in [Handlers -> HandleCall]
    BY <1>1, <1>3, <2>2
  <2> QED
    BY <1>2, <2>1, <2>3, <2>4
<1>13. TelegramTypeOK'
  <2>1. \A a \in Approvers : approver'[a].at # "idle" => approver'[a].row \in DOMAIN pairingRows'
    BY <1>1, <1>3, <1>5, <1>9
  <2>2. \A g \in Handlers : handler'[g].at # "idle" => handler'[g].update \in Ids
    BY <1>1, <1>12
  <2>3. pairingRows' \in Seq(PairingRow)
    BY <1>9
  <2> QED
    BY <1>3, <1>12, <2>1, <2>2, <2>3, Zenon DEF TelegramInv, TelegramTypeOK
<1>14. PolledInOrder' /\ HandledBeforeAcknowledged'
  BY <1>3, <1>12, SameReceiving
<1>15. RoomForApplicants'
  <2>1. u \in Applicants
    BY <1>2, Zenon DEF Applicants, u
  <2>2. \A i \in PendingAt(clock)' : pairingRows'[i].user \in Applicants
    <3> SUFFICES ASSUME NEW i \in PendingAt(clock)' PROVE pairingRows'[i].user \in Applicants
      OBVIOUS
    <3>1. i \in DOMAIN pairingRows' /\ ~pairingRows'[i].consumed /\ pairingRows'[i].expires > clock
      BY <1>3 DEF PendingAt
    <3>2. CASE i = k
      BY <1>4, <1>9, <2>1, <3>2
    <3>3. CASE i # k
      <4>1. i \in DOMAIN pairingRows /\ pairingRows'[i] = pairingRows[i]
        BY <1>10, <3>1, <3>3
      <4>2. i \in PendingAt(clock)
        BY <3>1, <4>1 DEF PendingAt
      <4> QED
        BY <4>1, <4>2, Zenon DEF Applicants
    <3> QED
      BY <3>2, <3>3
  <2>3. ASSUME NEW g \in Handlers, handler'[g].at = "upsert" PROVE From(g)' \in Applicants
    <3>1. g # h
      BY <1>12, <2>3
    <3>2. handler'[g] = handler[g]
      BY <1>12, <3>1
    <3>3. handler[g].at = "upsert" /\ From(g)' = From(g)
      BY <2>3, <3>2 DEF From
    <3> QED
      BY <3>3, Zenon DEF Applicants
  <2>4. Applicants' \subseteq Applicants
    BY <2>2, <2>3, Zenon DEF Applicants
  <2> QED
    BY <1>3, <2>4, FewerApplicants
<1> QED
  BY <1>11, <1>13, <1>14, <1>15, Zenon DEF TelegramInv

\* An approval or a revocation leaves requests, at most fewer of them open.
LEMMA ApprovalStep ==
  ASSUME TelegramInv,
         UNCHANGED <<clock, polling, acked, receiver, handler, handled, lane>>,
         pairingRows' \in Seq(PairingRow), DOMAIN pairingRows' = DOMAIN pairingRows,
         \A i \in DOMAIN pairingRows : /\ pairingRows'[i].user = pairingRows[i].user
                                       /\ pairingRows'[i].expires = pairingRows[i].expires
                                       /\ pairingRows[i].consumed => pairingRows'[i].consumed,
         principal' \in [Users -> Approvers \cup {Nobody}],
         approver' \in [Approvers -> ApproveCall],
         \A a \in Approvers : approver'[a].at # "idle" => approver'[a].row \in DOMAIN pairingRows,
         pairingCommands' \in Nat, troubles' \in Nat
  PROVE  TelegramInv'
<1>1. TelegramTypeOK'
  BY Zenon DEF TelegramInv, TelegramTypeOK
<1>2. PolledInOrder' /\ HandledBeforeAcknowledged'
  BY SameReceiving
<1>3. OneOpenRequest'
  BY Zenon DEF TelegramInv, OneOpenRequest
<1>4. PendingAt(clock)' \subseteq PendingAt(clock)
  BY DEF PendingAt
<1>5. PendingAt(clock) \subseteq DOMAIN pairingRows
  BY Rows DEF TelegramInv
<1>6. RoomForApplicants'
  BY <1>4, <1>5, FewerPending
<1> QED
  BY <1>1, <1>2, <1>3, <1>6, Zenon DEF TelegramInv

\* approveCode, its two transactions and their failure, and a revocation.
LEMMA ApprovalInv ==
  ASSUME TelegramInv,
         (\E a \in Approvers : ApproveStep(a)) \/ \E u \in Users : Revoke(u)
  PROVE  TelegramInv'
<1>1. /\ TelegramTypeOK /\ clock \in Nat /\ principal \in [Users -> Approvers \cup {Nobody}]
      /\ approver \in [Approvers -> ApproveCall]
      /\ \A a \in Approvers : approver[a].at # "idle" => approver[a].row \in DOMAIN pairingRows
      /\ pairingCommands \in Nat /\ troubles \in Nat
  BY Zenon DEF TelegramInv, TelegramTypeOK
<1>2. /\ pairingRows \in Seq(PairingRow) /\ Len(pairingRows) \in Nat
      /\ DOMAIN pairingRows = 1 .. Len(pairingRows)
      /\ \A i \in DOMAIN pairingRows : pairingRows[i] \in PairingRow
      /\ \A now : PendingAt(now) \subseteq DOMAIN pairingRows
  BY <1>1, Rows
<1>3. pairingCommands + 1 \in Nat /\ troubles + 1 \in Nat
  BY <1>1
<1>4. Resting \in ApproveCall /\ Resting.at = "idle"
  BY DEF Resting, ApproveCall
<1>5. ASSUME NEW a \in Approvers, NEW call \in ApproveCall, approver' = [approver EXCEPT ![a] = call],
             call.at # "idle" => call.row \in DOMAIN pairingRows
      PROVE  /\ approver' \in [Approvers -> ApproveCall]
             /\ \A b \in Approvers : approver'[b].at # "idle" => approver'[b].row \in DOMAIN pairingRows
  BY <1>1, <1>5
<1>6. ASSUME NEW a \in Approvers, NEW holder \in 0 .. Len(pairingRows), ReadForApproval(a, holder)
      PROVE  TelegramInv'
  <2> DEFINE awaiting == PendingAt(clock)
             matching == awaiting \cap {holder}
             open == {i \in awaiting : ~IsApprovalLocked(i, clock)}
  <2>1. /\ UNCHANGED <<clock, polling, receiverVars, handler, chatVars, pairingVars, troubles>>
        /\ pairingCommands' = pairingCommands + 1
        /\ \/ /\ matching # {}
              /\ approver' = [approver EXCEPT ![a] = [Resting EXCEPT !.at = "consume", !.row = Min(matching)]]
           \/ /\ open # {}
              /\ \E lock : /\ lock = (IF pairingRows[Min(open)].failed + 1 >= MaxFailed THEN clock + Lockout ELSE 0)
                           /\ approver' = [approver EXCEPT ![a] = [at |-> "fail", row |-> Min(open), lock |-> lock]]
           \/ approver' = approver
    BY <1>6 DEF ReadForApproval
  <2>2. \A S : S \subseteq awaiting /\ S # {} => Min(S) \in DOMAIN pairingRows /\ Min(S) \in Nat
    <3> SUFFICES ASSUME NEW S, S \subseteq awaiting, S # {}
                 PROVE  Min(S) \in DOMAIN pairingRows /\ Min(S) \in Nat
      OBVIOUS
    <3>1. awaiting \subseteq DOMAIN pairingRows /\ DOMAIN pairingRows \subseteq Nat
      BY <1>2
    <3> HIDE DEF awaiting
    <3>2. S \subseteq Nat
      BY <3>1
    <3>3. Min(S) \in S
      BY <3>2, MinIsLeast
    <3> QED
      BY <3>1, <3>3
  <2>3. matching \subseteq awaiting /\ open \subseteq awaiting
    OBVIOUS
  <2> HIDE DEF awaiting, matching, open
  <2>4. UNCHANGED <<clock, polling, acked, receiver, handler, handled, lane, pairingRows, principal, troubles>>
    BY <2>1 DEF receiverVars, chatVars, pairingVars
  <2>5. /\ approver' \in [Approvers -> ApproveCall]
        /\ \A b \in Approvers : approver'[b].at # "idle" => approver'[b].row \in DOMAIN pairingRows
    <3>1. CASE matching # {} /\ approver' = [approver EXCEPT ![a] = [Resting EXCEPT !.at = "consume", !.row = Min(matching)]]
      <4> DEFINE m == Min(matching)
      <4>1. m \in DOMAIN pairingRows /\ m \in Nat
        BY <2>2, <2>3, <3>1
      <4> HIDE DEF m
      <4>2. [Resting EXCEPT !.at = "consume", !.row = m] \in ApproveCall
            /\ [Resting EXCEPT !.at = "consume", !.row = m].row = m
        BY <4>1 DEF Resting, ApproveCall
      <4> QED
        BY <1>5, <3>1, <4>1, <4>2 DEF m
    <3>2. ASSUME NEW lock, open # {},
                 lock = (IF pairingRows[Min(open)].failed + 1 >= MaxFailed THEN clock + Lockout ELSE 0),
                 approver' = [approver EXCEPT ![a] = [at |-> "fail", row |-> Min(open), lock |-> lock]]
          PROVE  /\ approver' \in [Approvers -> ApproveCall]
                 /\ \A b \in Approvers : approver'[b].at # "idle" => approver'[b].row \in DOMAIN pairingRows
      <4> DEFINE m == Min(open)
      <4>1. m \in DOMAIN pairingRows /\ m \in Nat
        BY <2>2, <2>3, <3>2
      <4>2. lock \in Nat
        BY <1>1, <3>2, TelegramAssumption, SMTT(30)
      <4> HIDE DEF m
      <4>3. [at |-> "fail", row |-> m, lock |-> lock] \in ApproveCall
        BY <4>1, <4>2 DEF ApproveCall
      <4> QED
        BY <1>5, <3>2, <4>1, <4>3 DEF m
    <3>3. CASE approver' = approver
      BY <1>1, <3>3
    <3> QED
      BY <2>1, <3>1, <3>2, <3>3
  <2> QED
    BY <1>1, <1>2, <1>3, <2>1, <2>4, <2>5, ApprovalStep
<1>7. ASSUME NEW a \in Approvers, Consume(a) \/ CountFailure(a) \/ ApprovalFails(a)
      PROVE  TelegramInv'
  <2> DEFINE i == approver[a].row
  <2>1. /\ approver' = [approver EXCEPT ![a] = Resting] /\ i \in DOMAIN pairingRows
        /\ UNCHANGED <<clock, polling, acked, receiver, handler, handled, lane, pairingCommands>>
        /\ troubles' \in Nat
    <3>1. approver' = [approver EXCEPT ![a] = Resting] /\ approver[a].at # "idle"
      BY <1>7 DEF Consume, CountFailure, ApprovalFails
    <3>2. UNCHANGED <<clock, polling, acked, receiver, handler, handled, lane, pairingCommands>>
      BY <1>7, Zenon DEF Consume, CountFailure, ApprovalFails, receiverVars, chatVars, boundVars
    <3>3. troubles' = troubles \/ troubles' = troubles + 1
      BY <1>7, Zenon DEF Consume, CountFailure, ApprovalFails, boundVars
    <3> QED
      BY <1>1, <1>3, <3>1, <3>2, <3>3
  <2>2. /\ approver' \in [Approvers -> ApproveCall]
        /\ \A b \in Approvers : approver'[b].at # "idle" => approver'[b].row \in DOMAIN pairingRows
    BY <1>4, <1>5, <2>1
  <2>3. PICK new \in PairingRow :
          /\ pairingRows' = pairingRows \/ pairingRows' = [pairingRows EXCEPT ![i] = new]
          /\ new.user = pairingRows[i].user /\ new.expires = pairingRows[i].expires
          /\ pairingRows[i].consumed => new.consumed
    <3>1. pairingRows[i] \in PairingRow
      BY <1>2, <2>1
    <3>2. CASE pairingRows' = pairingRows
      BY <3>1, <3>2
    <3>3. CASE Consume(a) /\ pairingRows' # pairingRows
      <4> DEFINE row == [pairingRows[i] EXCEPT !.consumed = TRUE]
      <4>1. pairingRows' = [pairingRows EXCEPT ![i] = row]
        BY <3>3 DEF Consume
      <4>2. row \in PairingRow /\ row.user = pairingRows[i].user /\ row.expires = pairingRows[i].expires /\ row.consumed = TRUE
        BY <3>1 DEF PairingRow
      <4> HIDE DEF row
      <4> QED
        BY <4>1, <4>2, Zenon
    <3>4. CASE CountFailure(a)
      <4> DEFINE lock == approver[a].lock
                 until == IF lock = 0 THEN pairingRows[i].lockedUntil ELSE lock
                 row == [pairingRows[i] EXCEPT !.failed = @ + 1, !.lockedUntil = until]
      <4>1. pairingRows' = [pairingRows EXCEPT ![i] = row]
        BY <1>2, <2>1, <3>1, <3>4 DEF CountFailure, PairingRow
      <4>2. until \in Nat /\ pairingRows[i].failed + 1 \in Nat
        BY <1>1, <3>1 DEF ApproveCall, PairingRow
      <4> HIDE DEF until
      <4>3. row \in PairingRow /\ row.user = pairingRows[i].user /\ row.expires = pairingRows[i].expires
            /\ row.consumed = pairingRows[i].consumed
        BY <3>1, <4>2 DEF PairingRow
      <4> HIDE DEF row
      <4> QED
        BY <4>1, <4>3, Zenon
    <3> QED
      BY <1>7, <3>2, <3>3, <3>4 DEF ApprovalFails, pairingVars
  <2>4. /\ pairingRows' \in Seq(PairingRow) /\ DOMAIN pairingRows' = DOMAIN pairingRows
        /\ \A j \in DOMAIN pairingRows : /\ pairingRows'[j].user = pairingRows[j].user
                                         /\ pairingRows'[j].expires = pairingRows[j].expires
                                         /\ pairingRows[j].consumed => pairingRows'[j].consumed
    <3>2. CASE pairingRows' = pairingRows
      BY <1>2, <3>2
    <3>3. CASE pairingRows' = [pairingRows EXCEPT ![i] = new]
      <4>1. i \in 1 .. Len(pairingRows)
        BY <1>2, <2>1
      <4> HIDE DEF i
      <4>2. /\ pairingRows' \in Seq(PairingRow) /\ Len(pairingRows') = Len(pairingRows)
            /\ \A j \in 1 .. Len(pairingRows) : pairingRows'[j] = IF j = i THEN new ELSE pairingRows[j]
        BY <1>2, <3>3, <4>1, ExceptSeq
      <4>3. DOMAIN pairingRows' = DOMAIN pairingRows
        BY <1>2, <4>2, LenProperties
      <4> QED
        BY <1>2, <2>3, <4>2, <4>3
    <3> QED
      BY <2>3, <3>2, <3>3
  <2>5. principal' \in [Users -> Approvers \cup {Nobody}]
    <3>1. principal' = principal \/ principal' = [principal EXCEPT ![pairingRows[i].user] = a]
      BY <1>7 DEF Consume, CountFailure, ApprovalFails, pairingVars
    <3> QED
      BY <1>1, <3>1
  <2> QED
    BY <1>1, <2>1, <2>2, <2>4, <2>5, ApprovalStep
<1>8. ASSUME NEW u \in Users, Revoke(u) PROVE TelegramInv'
  <2>1. /\ UNCHANGED <<clock, polling, acked, receiver, handler, handled, lane, pairingRows, approver, troubles>>
        /\ principal' = [principal EXCEPT ![u] = Nobody] /\ pairingCommands' = pairingCommands + 1
    BY <1>8 DEF Revoke, receiverVars, chatVars
  <2>2. principal' \in [Users -> Approvers \cup {Nobody}]
    BY <1>1, <2>1
  <2> QED
    BY <1>1, <1>2, <1>3, <2>1, <2>2, ApprovalStep
<1> QED
  BY <1>6, <1>7, <1>8, Zenon DEF ApproveStep

\* However updates, calls, approvals, failures and crashes interleave, the offset
\* follows the work, and no more users ask for a pairing than the calls side by side let in.
THEOREM TelegramInvariant == TelegramSpec => []TelegramInv
<1>1. TelegramInit => TelegramInv
  <2> SUFFICES ASSUME TelegramInit PROVE TelegramInv
    OBVIOUS
  <2>1. /\ clock = 0 /\ polling \in BOOLEAN /\ acked = {} /\ receiver = Down /\ handled = {}
        /\ handler = [h \in Handlers |-> Idle] /\ pairingRows = <<>>
        /\ principal = [u \in Users |-> Nobody] /\ lane = [u \in Users |-> 0]
        /\ approver = [a \in Approvers |-> Resting] /\ pairingCommands = 0 /\ troubles = 0
    BY Zenon DEF TelegramInit
  <2>2. DOMAIN pairingRows = {} /\ pairingRows \in Seq(PairingRow)
    BY <2>1, EmptySeq, LenProperties
  <2>3. Resting \in ApproveCall /\ Resting.at = "idle"
    BY DEF Resting, ApproveCall
  <2>4. handler \in [Handlers -> HandleCall] /\ \A h \in Handlers : handler[h].at = "idle"
    BY <2>1, IdleType
  <2>5. /\ approver \in [Approvers -> ApproveCall] /\ \A a \in Approvers : approver[a].at = "idle"
        /\ principal \in [Users -> Approvers \cup {Nobody}] /\ lane \in [Users -> Nat]
        /\ clock \in Nat /\ pairingCommands \in Nat /\ troubles \in Nat
        /\ acked \subseteq Ids /\ handled \subseteq Ids
    BY <2>1, <2>3
  <2>6. TelegramTypeOK
    BY <2>1, <2>2, <2>4, <2>5, DownType, Zenon DEF TelegramTypeOK, ReceiverType
  <2>7. PolledInOrder
    <3>1. /\ receiver.at = "down" /\ receiver.offset = 1 /\ receiver.batch = <<>>
          /\ DOMAIN receiver.batch = {} /\ 1 .. receiver.offset - 1 = {}
      BY <2>1, DownType
    <3> QED
      BY <2>4, <3>1 DEF PolledInOrder
  <2>8. PendingAt(clock) = {}
    BY <2>2 DEF PendingAt
  <2>9. RoomForApplicants
    <3>1. Applicants = {}
      BY <2>4, <2>8 DEF Applicants
    <3>2. Cardinality(Callers) \in Nat /\ MaxPending \in Nat \ {0} /\ Cardinality({}) = 0
      BY CallersSize, FS_EmptySet, TelegramAssumption
    <3> QED
      BY <3>1, <3>2 DEF RoomForApplicants
  <2>10. OneOpenRequest /\ RoomForApplicants /\ HandledBeforeAcknowledged
    BY <2>1, <2>2, <2>9 DEF OneOpenRequest, HandledBeforeAcknowledged
  <2> QED
    BY <2>6, <2>7, <2>10, Zenon DEF TelegramInv
<1>2. TelegramInv /\ [TelegramNext]_telegramVars => TelegramInv'
  <2> SUFFICES ASSUME TelegramInv, [TelegramNext]_telegramVars PROVE TelegramInv'
    OBVIOUS
  <2>1. CASE UNCHANGED telegramVars
    <3>1. UNCHANGED <<clock, polling, acked, receiver, handler, handled, lane, pairingRows, principal,
                      approver, pairingCommands, troubles>>
      BY <2>1 DEF telegramVars, receiverVars, chatVars, pairingVars, boundVars
    <3>2. /\ pairingRows \in Seq(PairingRow) /\ principal \in [Users -> Approvers \cup {Nobody}]
          /\ approver \in [Approvers -> ApproveCall]
          /\ \A a \in Approvers : approver[a].at # "idle" => approver[a].row \in DOMAIN pairingRows
          /\ pairingCommands \in Nat /\ troubles \in Nat
      BY Zenon DEF TelegramInv, TelegramTypeOK
    <3> QED
      BY <3>1, <3>2, ApprovalStep
  <2> QED
    BY <2>1, TickInv, ReceiverInv, ReceiveInv, HandleGoesOn, UpsertInv, ReturnInv, ThrowInv, ApprovalInv,
       Zenon DEF TelegramNext, ReceiveStep, HandleStep
<1> QED
  BY <1>1, <1>2, PTL DEF TelegramSpec

\* Neither receiver acknowledges an update that was not handled to its end.
THEOREM HandledBeforeAcknowledgedAlways == TelegramSpec => []HandledBeforeAcknowledged
<1>1. TelegramInv => HandledBeforeAcknowledged
  BY Zenon DEF TelegramInv
<1> QED
  BY <1>1, TelegramInvariant, PTL

\* createPairingRequest keeps MAX_PENDING where its calls come one by one, and goes past
\* it by at most one for each further call that can run beside it.
THEOREM PendingBoundedAlways == TelegramSpec => []PendingBounded
<1>1. TelegramInv => PendingBounded
  BY PendingWithinApplicants
<1> QED
  BY <1>1, TelegramInvariant, PTL

\* consumePendingAndApprove changes the household of a user only with a request
\* that nobody consumed before.
THEOREM ApprovalStandsAlways == TelegramSpec => ApprovalStands
<1> DEFINE Stands == \A u \in Users :
              principal[u] # Nobody /\ principal'[u] \notin {principal[u], Nobody} =>
                \E i \in DOMAIN pairingRows :
                  /\ pairingRows[i].user = u
                  /\ ~pairingRows[i].consumed /\ pairingRows'[i].consumed
<1>1. TelegramInv /\ [TelegramNext]_telegramVars => [Stands]_telegramVars
  <2> SUFFICES ASSUME TelegramInv, TelegramNext PROVE Stands
    OBVIOUS
  <2>1. CASE principal' = principal
    BY <2>1
  <2>2. ASSUME NEW u \in Users, Revoke(u) PROVE Stands
    <3>1. principal' = [principal EXCEPT ![u] = Nobody] /\ principal \in [Users -> Approvers \cup {Nobody}]
      BY <2>2, Zenon DEF Revoke, TelegramInv, TelegramTypeOK
    <3> QED
      BY <3>1
  <2>3. ASSUME NEW a \in Approvers, Consume(a), principal' # principal PROVE Stands
    <3> DEFINE i == approver[a].row
    <3>1. /\ ~pairingRows[i].consumed
          /\ pairingRows' = [pairingRows EXCEPT ![i].consumed = TRUE]
          /\ principal' = [principal EXCEPT ![pairingRows[i].user] = a]
      BY <2>3 DEF Consume, MayConsume
    <3>2. i \in DOMAIN pairingRows
      BY <2>3, Zenon DEF Consume, TelegramInv, TelegramTypeOK
    <3>3. pairingRows[i] \in PairingRow
      BY <3>2, Rows DEF TelegramInv
    <3>4. principal \in [Users -> Approvers \cup {Nobody}]
      BY Zenon DEF TelegramInv, TelegramTypeOK
    <3>5. pairingRows'[i].consumed
      <4>1. pairingRows'[i] = [pairingRows[i] EXCEPT !.consumed = TRUE]
        BY <3>1, <3>2
      <4> QED
        BY <3>3, <4>1 DEF PairingRow
    <3> QED
      BY <3>1, <3>2, <3>4, <3>5
  <2>4. \/ principal' = principal
        \/ \E u \in Users : Revoke(u)
        \/ \E a \in Approvers : Consume(a)
    BY Zenon DEF TelegramNext, ReceiveStep, HandleStep, ApproveStep, Tick, Start, DeleteWebhook, GetUpdates,
       HandlePolled, HandlePosted, ReceiveUpdate, Crash, ApiFails, JudgePairing, UpsertRequest, Reply,
       ResolveConversation, StartNewConversation, Inbound, HandleThrows, ReadForApproval, CountFailure,
       ApprovalFails, pairingVars
  <2> QED
    BY <2>1, <2>2, <2>3, <2>4
<1> QED
  BY <1>1, TelegramInvariant, PTL DEF TelegramSpec, ApprovalStands
=============================================================================
