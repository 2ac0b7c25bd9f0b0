------------------------------ MODULE Scheduler ------------------------------
(***************************************************************************)
(* The application scheduler (packages/runtime/src/scheduler) over the     *)
(* scheduled_jobs and scheduled_runs tables (PostgresSchedulerRepository). *)
(* Several processes call dispatchDue: each claims due occurrences in one  *)
(* transaction, runs them one after the other and records an outcome.      *)
(* An occurrence is a job with the time it was due.  The run key has the   *)
(* job's version between the two, which is left out: no code of the        *)
(* repository changes it, and an external edit that raised it without      *)
(* moving the next run would make a second occurrence of the same time.    *)
(***************************************************************************)
EXTENDS Naturals, FiniteSets

CONSTANTS
    Dispatchers,  \* processes that call dispatchDue
    Jobs,         \* scheduled jobs, as numbers: the row id orders equal times
    Overlap,      \* overlap_policy of a job: "skip" or "allow"
    Missed,       \* missed_run_policy of a job: "skip" or "run_once"
    JobRetries,   \* max_retries of every job
    Limit,        \* the limit dispatchDue passes to claimDueRuns
    MaxTime,      \* bound on the clock
    MaxMishaps    \* bound on database calls that fail and processes that die

ASSUME SchedulerAssumption ==
    /\ Jobs \subseteq Nat /\ IsFiniteSet(Jobs)
    /\ Overlap \in [Jobs -> {"skip", "allow"}]
    /\ Missed \in [Jobs -> {"skip", "run_once"}]
    /\ JobRetries \in Nat /\ Limit \in Nat \ {0}
    /\ MaxTime \in Nat /\ MaxMishaps \in Nat

VARIABLES
    time,       \* the time every process reads
    nextRun,    \* next_eligible_run_at of each job
    runs,       \* scheduled_runs: the status of each occurrence, "none" without a row
    delivered,  \* how often the response of an occurrence reached the user
    proc,       \* each dispatcher: its step and its local variables
    mishaps     \* failed calls and deaths so far
scheduleVars == <<time, nextRun, runs, delivered, proc, mishaps>>

Occurrences == Jobs \X (0 .. MaxTime)
RunStatus == {"none", "claimed", "succeeded", "failed", "timed_out", "skipped"}
ActiveStatuses == {"claimed"}

(* at: the step; now: dispatchDue's argument; seen: the jobs of the scan;   *)
(* held: the due rows it has locked; queue: its claims still to dispatch;   *)
(* claim: the one it is at; tries: attempts left; outcome: what to record.  *)
Asleep == [at |-> "idle", now |-> 0, seen |-> {}, held |-> {}, queue |-> {},
           claim |-> {}, tries |-> 0, outcome |-> "none"]

(* ORDER BY next_eligible_run_at, id: rows are claimed in this order, and   *)
(* claims dispatched in it.                                                 *)
DueFirst(a, b) == a[2] < b[2] \/ (a[2] = b[2] /\ a[1] < b[1])

ScheduleInit ==
    /\ time = 0
    /\ nextRun = [j \in Jobs |-> 0]
    /\ runs = [o \in Occurrences |-> "none"]
    /\ delivered = [o \in Occurrences |-> 0]
    /\ proc = [d \in Dispatchers |-> Asleep]
    /\ mishaps = 0

Advance(d, p) == proc' = [proc EXCEPT ![d] = p]

(* Time passes, and whoever owns a job (schedule_kind 'external') moves its *)
(* next run forward; that writer waits for the row lock of a claim.         *)
TimePasses == time < MaxTime /\ time' = time + 1
        /\ UNCHANGED <<nextRun, runs, delivered, proc, mishaps>>
LockedBy(d) == {o[1] : o \in proc[d].held}
Rearm(j) ==
    /\ \A d \in Dispatchers : j \notin LockedBy(d)
    /\ nextRun[j] < MaxTime
    /\ nextRun' = [nextRun EXCEPT ![j] = @ + 1]
    /\ UNCHANGED <<time, runs, delivered, proc, mishaps>>

-----------------------------------------------------------------------------
(* The loop of dispatchDue, and the start of dispatchClaim: the call ends   *)
(* with the last claim, a missed run is skipped, any other gets its         *)
(* attempts.                                                                *)
Dispatching(p, o) ==
    LET q == [p EXCEPT !.queue = @ \ {o}, !.claim = {o}]
    IN  IF Missed[o[1]] = "skip" /\ o[2] < p.now
        THEN [q EXCEPT !.at = "record", !.outcome = "skipped"]
        ELSE [q EXCEPT !.at = "run", !.tries = JobRetries + 1, !.outcome = "none"]
StartClaim(d, p) ==
    \/ p.queue = {} /\ Advance(d, Asleep)
    \/ \E o \in p.queue : /\ \A x \in p.queue \ {o} : DueFirst(o, x)
                         /\ Advance(d, Dispatching(p, o))

-----------------------------------------------------------------------------
(* claimDueRuns *)

Due(now, j) ==
    /\ nextRun[j] <= now
    /\ Overlap[j] = "allow" \/ \A o \in Occurrences : o[1] = j => runs[o] \notin ActiveStatuses

(* BEGIN and the snapshot of the SELECT. *)
Scan(d) ==
    /\ proc[d].at = "idle"
    /\ Advance(d, [Asleep EXCEPT !.at = "scanned", !.now = time,
                                !.seen = {j \in Jobs : Due(time, j)}])
    /\ UNCHANGED <<time, nextRun, runs, delivered, mishaps>>

(* The first LIMIT rows FOR UPDATE SKIP LOCKED: a row moved since the       *)
(* snapshot is judged again on its new time only.                           *)
LockRows(d) ==
    /\ proc[d].at = "scanned"
    /\ LET free == {j \in proc[d].seen : /\ nextRun[j] <= proc[d].now
                                         /\ \A e \in Dispatchers : j \notin LockedBy(e)}
           rows == {<<j, nextRun[j]>> : j \in free}
       IN  Advance(d, [proc[d] EXCEPT !.at = "inserting", !.seen = {},
                         !.held = {o \in rows : Cardinality({x \in rows : DueFirst(x, o)}) < Limit}])
    /\ UNCHANGED <<time, nextRun, runs, delivered, mishaps>>

(* (seeded fault: a run that exists is claimed again) *)
NewClaimsAnyway(d) == proc[d].held

(* INSERT ... ON CONFLICT (household_id, run_key) DO NOTHING for each row,  *)
(* then COMMIT.  The locks keep other claims of these occurrences out, so   *)
(* the inserts are one step with the commit; a failure rolls all back.      *)
NewClaims(d) == {o \in proc[d].held : runs[o] = "none"}
InsertRuns(d) ==
    /\ proc[d].at = "inserting"
    /\ runs' = [o \in Occurrences |-> IF o \in NewClaims(d) THEN "claimed" ELSE runs[o]]
    /\ StartClaim(d, [proc[d] EXCEPT !.held = {}, !.queue = NewClaims(d)])
    /\ UNCHANGED <<time, nextRun, delivered, mishaps>>
ClaimFails(d) ==
    /\ proc[d].at \in {"scanned", "inserting"} /\ mishaps < MaxMishaps
    /\ mishaps' = mishaps + 1
    /\ Advance(d, Asleep)
    /\ UNCHANGED <<time, nextRun, runs, delivered>>

-----------------------------------------------------------------------------
(* dispatchClaim *)

(* runWithRetries: the target (external) answers, times out, or fails and   *)
(* is tried again while attempts are left.                                  *)
AttemptFailed(p) ==
    IF p.tries > 1 THEN [p EXCEPT !.tries = @ - 1]
                   ELSE [p EXCEPT !.at = "catch", !.outcome = "failed", !.tries = 0]
RunTarget(d) ==
    /\ proc[d].at = "run"
    /\ Advance(d, [proc[d] EXCEPT !.at = "deliver", !.tries = 0])
       \/ Advance(d, [proc[d] EXCEPT !.at = "catch", !.outcome = "timed_out", !.tries = 0])
       \/ Advance(d, AttemptFailed(proc[d]))
    /\ UNCHANGED <<time, nextRun, runs, delivered, mishaps>>

(* delivery.deliver: delivered; blocked, failed or ambiguous; or it throws, *)
(* a TimeoutError or something else.  An ambiguous delivery and a throw may *)
(* come after the user was reached.                                         *)
Deliver(d) ==
    /\ proc[d].at = "deliver"
    /\ \E reached \in BOOLEAN, o \in proc[d].claim,
          end \in {<<"record", "succeeded">>, <<"record", "failed">>,
                   <<"catch", "failed">>, <<"catch", "timed_out">>} :
          /\ end[2] = "succeeded" => reached
          /\ delivered' = IF reached THEN [delivered EXCEPT ![o] = @ + 1] ELSE delivered
          /\ Advance(d, [proc[d] EXCEPT !.at = end[1], !.outcome = end[2]])
    /\ UNCHANGED <<time, nextRun, runs, mishaps>>

(* (seeded fault: the status of the run is not compared) *)
CompletableAlways(o) == TRUE

(* completeRun updates a row that is still active and throws when it found  *)
(* none.                                                                    *)
Completable(o) == runs[o] \in ActiveStatuses

(* A completeRun that throws leads to the catch, which records a failure;   *)
(* that of the catch throws out of dispatchDue and leaves the rest of the   *)
(* queue.                                                                   *)
RecordingFailed(p) ==
    IF p.at = "record" THEN [p EXCEPT !.at = "catch", !.outcome = "failed"] ELSE Asleep

CompleteRun(d) ==
    /\ proc[d].at \in {"record", "catch"}
    /\ \E o \in proc[d].claim :
          IF Completable(o)
          THEN /\ runs' = [runs EXCEPT ![o] = proc[d].outcome]
               /\ StartClaim(d, proc[d])
          ELSE runs' = runs /\ Advance(d, RecordingFailed(proc[d]))
    /\ UNCHANGED <<time, nextRun, delivered, mishaps>>
(* The call fails, before the update or after it. *)
CompleteFails(d) ==
    /\ proc[d].at \in {"record", "catch"} /\ mishaps < MaxMishaps
    /\ mishaps' = mishaps + 1
    /\ Advance(d, RecordingFailed(proc[d]))
    /\ \E o \in proc[d].claim :
          \/ runs' = runs
          \/ Completable(o) /\ runs' = [runs EXCEPT ![o] = proc[d].outcome]
    /\ UNCHANGED <<time, nextRun, delivered>>

(* The process dies: its transaction rolls back, its claims stay. *)
Die(d) ==
    /\ proc[d].at # "idle" /\ mishaps < MaxMishaps
    /\ mishaps' = mishaps + 1
    /\ Advance(d, Asleep)
    /\ UNCHANGED <<time, nextRun, runs, delivered>>

Dispatch(d) == \/ LockRows(d) \/ InsertRuns(d) \/ RunTarget(d)
               \/ Deliver(d) \/ CompleteRun(d)
ScheduleNext ==
    \/ TimePasses
    \/ \E j \in Jobs : Rearm(j)
    \/ \E d \in Dispatchers : Scan(d) \/ Dispatch(d) \/ ClaimFails(d) \/ CompleteFails(d) \/ Die(d)

ScheduleSpec == ScheduleInit /\ [][ScheduleNext]_scheduleVars

-----------------------------------------------------------------------------
(* Each occurrence reaches the user at most once, whichever processes claim *)
(* at the same time, fail to record the outcome or die and come back        *)
(* (claimDueRuns, the unique run key).                                      *)
OccurrenceOnce == \A o \in Occurrences : delivered[o] <= 1

(* A recorded outcome is never rewritten, by the catch that records a       *)
(* failure after an update whose answer was lost either, and a success is   *)
(* recorded only for what was delivered (completeRun, dispatchClaim).       *)
OutcomeRecordedOnce ==
    [][\A o \in Occurrences :
          /\ runs[o] \notin {"none", "claimed"} => runs'[o] = runs[o]
          /\ runs'[o] = "succeeded" => delivered[o] = 1]_scheduleVars
-----------------------------------------------------------------------------
(* The inductive invariant behind them.                                     *)

Claims(d) == proc[d].queue \cup proc[d].claim

ProcType ==
    [at : {"idle", "scanned", "inserting", "run", "deliver", "record", "catch"},
     now : 0 .. MaxTime, seen : SUBSET Jobs, held : SUBSET Occurrences,
     queue : SUBSET Occurrences, claim : SUBSET Occurrences,
     tries : Nat, outcome : RunStatus \ {"claimed"}]
ScheduleTypeOK ==
    /\ time \in 0 .. MaxTime
    /\ nextRun \in [Jobs -> 0 .. MaxTime]
    /\ runs \in [Occurrences -> RunStatus]
    /\ delivered \in [Occurrences -> Nat]
    /\ proc \in [Dispatchers -> ProcType]
    /\ mishaps \in Nat

(* Only a claim can be delivered, once, and only a delivered one succeeds.  *)
RowsTrue ==
    \A o \in Occurrences :
      /\ delivered[o] <= 1
      /\ runs[o] = "none" => delivered[o] = 0
      /\ runs[o] = "succeeded" => delivered[o] = 1

(* What a dispatcher knows of its claims: the ones to come are untouched,   *)
(* and the one it is at is delivered only by its own delivery.              *)
ClaimsTrue(d) ==
    /\ proc[d].at \in {"idle", "scanned", "inserting"} => Claims(d) = {}
    /\ proc[d].queue \cap proc[d].claim = {}
    /\ \A o \in Claims(d) : runs[o] # "none"
    /\ \A o \in proc[d].queue : runs[o] = "claimed" /\ delivered[o] = 0
    /\ \A o, x \in proc[d].claim : o = x
    /\ \A o \in proc[d].claim :
         /\ proc[d].at \in {"run", "deliver"} => runs[o] = "claimed" /\ delivered[o] = 0
         /\ proc[d].at = "record" => runs[o] = "claimed"
         /\ proc[d].outcome = "succeeded" => proc[d].at = "record" /\ delivered[o] = 1
    /\ proc[d].at \in {"record", "catch"} => proc[d].outcome # "none"

(* A claim has one dispatcher. *)
ClaimsApart ==
    \A d, e \in Dispatchers : d # e => Claims(d) \cap Claims(e) = {}

ScheduleInv ==
    ScheduleTypeOK /\ RowsTrue /\ ClaimsApart /\ \A d \in Dispatchers : ClaimsTrue(d)
=============================================================================
