--------------------------- MODULE TeamExecution ---------------------------
(***************************************************************************)
(* One call of runTeamLead: TeamLeadSupervisor asks the lead for a plan    *)
(* and has its work cells executed, and repeats that while the execution   *)
(* failed and a retry may help.  Each work cell is a TeamExecutor; each    *)
(* agent it needs is a call of AgentInvocationRunner.                      *)
(*                                                                         *)
(* A step is what happens between two awaits.  Work cells of a parallel    *)
(* plan go on when another one has thrown, although the call has returned. *)
(***************************************************************************)
EXTENDS VerificationLedger

CONSTANTS
  Cells,         \* work items
  Teams,         \* what the teams make of a request
  MaxAttempts,   \* bound on the attempt limits of the policies
  MaxFaults      \* bound on statements that fail

\* The plans that the team accepts for the request, and what becomes of an
\* accepted artifact: a "report" has no effect, "execute" runs the mutation in
\* the same call, "confirm" waits for the user.  "unwired" cells declare an
\* effect, but the coordinator that runs them does not prepare one.  A mutation
\* is prepared for a plan of one work item only.
ASSUME TeamAssumption ==
  /\ Teams \subseteq [kind : {"report", "execute", "confirm", "unwired"},
                     plans : SUBSET SUBSET Cells, limit : 1..MaxAttempts]
  /\ \A tm \in Teams : tm.kind \in {"execute", "confirm"} =>
       \A p \in tm.plans : \E c \in Cells : p = {c}
  /\ MaxAttempts \in 1..8
  /\ MaxFaults \in Nat

\* A task is an execution with one of its cells, or with its lead.
ASSUME TaskAssumption ==
  /\ "lead" \notin Cells
  /\ Tasks = (1..MaxAttempts) \X (Cells \cup {"lead"})

VARIABLES
  team,     \* the team that was called
  lead,     \* where the supervisor is
  ord,      \* executionOrdinal
  plan,     \* the plan of every execution
  at,       \* what the lead or the cell of a task awaits
  outcome,  \* how the current agent call of a task ended
  res,      \* result of a work cell
  applied,  \* tasks whose mutation changed the books
  answer,   \* the team result
  aborted,  \* whether and why the signal of the turn was aborted
  faults

supervisor == <<team, lead, ord, plan>>
vars == <<ledger, supervisor, at, outcome, res, applied, answer, aborted, faults>>

Leads == {t \in Tasks : t[2] = "lead"}
Works == {t \in Tasks : t[2] # "lead"}
Planned == {<<ord, w>> : w \in plan[ord]}

\* "refused" stands for the errors that forbid a retry.
Outcomes == {"succeeded", "failed", "refused", "timed_out", "cancelled"}
NoResult == [status |-> "none", effect |-> "none", phase |-> "none", code |-> "none"]

TeamInit ==
  /\ LedgerInit
  /\ team \in Teams
  /\ lead = "request"
  /\ ord = 1
  /\ plan = [n \in 1..MaxAttempts |-> {}]
  /\ at = [t \in Tasks |-> "idle"]
  /\ outcome = [t \in Tasks |-> "none"]
  /\ res = [t \in Tasks |-> NoResult]
  /\ applied = {}
  /\ answer = [status |-> "none", effect |-> "none"]
  /\ aborted = "no"
  /\ faults = 0

-----------------------------------------------------------------------------
Goto(t, l) == at' = [at EXCEPT ![t] = l] /\ UNCHANGED <<outcome, res>>

Return(t, r) ==
  /\ at' = [at EXCEPT ![t] = "returned"]
  /\ res' = [res EXCEPT ![t] = r]
  /\ UNCHANGED outcome

\* A statement of the task fails and the await at l goes on at h.
FaultAt(t, l, h) ==
  /\ at[t] = l
  /\ faults < MaxFaults
  /\ faults' = faults + 1
  /\ Goto(t, h)
  /\ UNCHANGED ledger

\* The same for a statement of an agent call, whose error is no PlusOneError.
CallFault(t, l) ==
  /\ at[t] = l
  /\ faults < MaxFaults
  /\ faults' = faults + 1
  /\ at' = [at EXCEPT ![t] = "raise"]
  /\ outcome' = [outcome EXCEPT ![t] = "storage"]
  /\ UNCHANGED res

OK == UNCHANGED faults

-----------------------------------------------------------------------------
(* AgentInvocationRunner.run for the lead, the maker or the checker.         *)

Role(t) == CASE t \in Leads -> "lead"
             [] task[t] = "maker_running" -> "maker"
             [] OTHER -> "checker"

Agent(t) == <<t, Role(t)>>

\* startRun; when it fails nothing was written.
StartRun(t) ==
  \/ at[t] = "start_run" /\ StartRunRow(Agent(t)) /\ Goto(t, "start_attempt") /\ OK
  \/ CallFault(t, "start_run") /\ UNCHANGED ledger

\* startAttempt; when it fails, the run is finished as failed.
StartAttempt(t) ==
  \/ at[t] = "start_attempt" /\ StartAttemptRow(Agent(t)) /\ Goto(t, "generate") /\ OK
  \/ CallFault(t, "start_attempt") /\ FinishRunRow(Agent(t), "failed")

\* classifyFailure: an aborted caller takes precedence over the cause.
Classify(o) == CASE o = "succeeded" -> o
                 [] aborted = "cancel" -> "cancelled"
                 [] aborted = "timeout" -> "timed_out"
                 [] OTHER -> o

\* The model answers, errs, or is cut off by the deadline of the call.
Generate(t) ==
  /\ at[t] = "generate"
  /\ \E o \in Outcomes \ {"cancelled"} :
       outcome' = [outcome EXCEPT ![t] = Classify(o)]
  /\ at' = [at EXCEPT ![t] = "end_attempt"]
  /\ UNCHANGED <<ledger, res, faults>>

\* finishAttempt; when it fails after a success, the failure is recorded.
EndAttempt(t) ==
  \/ /\ at[t] = "end_attempt"
     /\ FinishAttemptRow(Agent(t), outcome[t])
     /\ Goto(t, "end_run")
     /\ OK
  \/ /\ outcome[t] # "succeeded"
     /\ CallFault(t, "end_attempt")
     /\ UNCHANGED ledger
  \/ /\ at[t] = "end_attempt"
     /\ outcome[t] = "succeeded"
     /\ faults < MaxFaults
     /\ faults' = faults + 1
     /\ outcome' = [outcome EXCEPT ![t] = Classify("failed")]
     /\ UNCHANGED <<ledger, at, res>>

RunStatus(o) == IF o \in {"succeeded", "timed_out", "cancelled"} THEN o ELSE "failed"

\* (seeded fault: a cancelled call does not finish its run)
EndRunUnlessCancelled(t) ==
  /\ at[t] = "end_run"
  /\ IF outcome[t] = "cancelled"
     THEN UNCHANGED ledger
     ELSE FinishRunRow(Agent(t), RunStatus(outcome[t]))
  /\ Goto(t, CASE outcome[t] = "succeeded" -> "called"
               [] outcome[t] = "cancelled" -> "cancel"
               [] OTHER -> "raise")
  /\ OK

\* finishRun; when it fails after a success, the attempt is not running any
\* more, and the second finishAttempt raises.
EndRun(t) ==
  \/ /\ at[t] = "end_run"
     /\ FinishRunRow(Agent(t), RunStatus(outcome[t]))
     /\ Goto(t, CASE outcome[t] = "succeeded" -> "called"
                  [] outcome[t] = "cancelled" -> "cancel"
                  [] OTHER -> "raise")
     /\ OK
  \/ CallFault(t, "end_run") /\ UNCHANGED ledger

AgentCall(t) ==
  StartRun(t) \/ StartAttempt(t) \/ Generate(t) \/ EndAttempt(t) \/ EndRun(t)

-----------------------------------------------------------------------------
(* TeamExecutor.executeWorkCell over VerificationRuntime.                    *)

\* createTask, for cells and for leads; a lead task is never moved on.
CreateTask(t) ==
  \/ /\ at[t] = "create"
     /\ CreateTaskRow(t)
     /\ Goto(t, IF t \in Leads THEN "start_run" ELSE "contract")
     /\ OK
  \/ FaultAt(t, "create", "threw")

\* A move of the runtime between two steps of the executor.
Move(t, l, from, to, next) ==
  \/ at[t] = l /\ Transition(t, from, to) /\ Goto(t, next) /\ OK
  \/ FaultAt(t, l, "threw")

SelectContract(t) ==
  /\ SelectExecutionContract(t)
  /\ Move(t, "contract", "created", "skill_selected", "begin_maker")

BeginMaker(t) == Move(t, "begin_maker", "skill_selected", "maker_running", "start_run")

\* validateMaker: the artifact is saved and linked, then the task moves.
SaveMaker(t) ==
  /\ task[t] = "maker_running"
  /\ \/ at[t] = "called" /\ LinkMakerArtifact(t) /\ Goto(t, "linked") /\ OK
     \/ FaultAt(t, "called", "threw")

ValidateMaker(t) == Move(t, "linked", "maker_running", "maker_validated", "begin_checker")

BeginChecker(t) ==
  Move(t, "begin_checker", "maker_validated", "checker_running", "start_run")

\* validateChecker: the verdict covers the artifact of this cell.
SaveVerdict(t) ==
  /\ task[t] = "checker_running"
  /\ \/ /\ at[t] = "called"
        /\ \E v \in Verdicts : RecordCheckerVerdict(t, v)
        /\ Goto(t, "recorded")
        /\ OK
     \/ FaultAt(t, "called", "threw")

ValidateChecker(t) ==
  Move(t, "recorded", "checker_running", "checker_validated", "checked")

\* (seeded fault: only failed calls are caught, not cancelled ones)
FailUnlessCancelled(t) ==
  /\ at[t] = "raise"
  /\ Transition(t, task[t], "failed")
  /\ Return(t, [status |-> "failed", effect |-> "none",
                phase |-> Role(t), code |-> outcome[t]])
  /\ OK

\* The catch of an agent call: the task fails, and the cell returns a failed
\* result, or throws when the call was cancelled.
FailCell(t) ==
  \/ /\ at[t] \in {"raise", "cancel"}
     /\ Transition(t, task[t], "failed")
     /\ IF at[t] = "cancel"
        THEN Goto(t, "threw")
        ELSE Return(t, [status |-> "failed", effect |-> "none",
                        phase |-> Role(t), code |-> outcome[t]])
     /\ OK
  \/ FaultAt(t, "raise", "threw")
  \/ FaultAt(t, "cancel", "threw")

TerminalFor(v) ==
  IF v \in {"insufficient_evidence", "conflicted"} THEN v ELSE "failed"

\* What an accepted artifact or another verdict makes of the task.
StatusOf(v) ==
  IF v = "accepted" THEN {"verified", "insufficient_evidence"} ELSE {TerminalFor(v)}

CheckedResult(t, s, effect) ==
  [status |-> s, effect |-> effect,
   phase |-> IF s = "failed" THEN "checker_rejection" ELSE "none",
   code |-> IF s = "failed" THEN verdict[t] ELSE "none"]

\* VerificationRuntime.complete.
Complete(t, s) ==
  /\ s = "verified" => verdict[t] = "accepted"
  /\ Transition(t, "checker_validated", s)

\* A verified proposal stays in checker_validated for the mutation.
Conclude(t) ==
  \/ /\ at[t] = "checked"
     /\ \E s \in StatusOf(verdict[t]) :
          IF s = "verified" /\ team.kind # "report"
          THEN /\ Return(t, CheckedResult(t, s, "pending"))
               /\ UNCHANGED ledger
          ELSE /\ Complete(t, s)
               /\ Return(t, CheckedResult(t, s, "none"))
     /\ OK
  \/ /\ at[t] = "checked"      \* a verified stop without claims
     /\ verdict[t] = "accepted"
     /\ Complete(t, "failed")
     /\ Goto(t, "threw")
     /\ OK
  \/ FaultAt(t, "checked", "threw")

WorkCell(t) ==
  \/ CreateTask(t) \/ SelectContract(t) \/ BeginMaker(t) \/ SaveMaker(t)
  \/ ValidateMaker(t) \/ BeginChecker(t) \/ SaveVerdict(t) \/ ValidateChecker(t)
  \/ FailCell(t) \/ Conclude(t)

\* The lead: its plan, or the error that ends the call.
LeadCall(t) ==
  \/ CreateTask(t)
  \/ /\ at[t] \in {"raise", "cancel"}
     /\ Goto(t, "threw")
     /\ OK
     /\ UNCHANGED ledger

-----------------------------------------------------------------------------
(* TeamLeadSupervisor.run and the execution of a plan.                       *)

\* (seeded fault: a mutation that throws counts as a failed work cell)
MutationAsFailure(t) ==
  \/ /\ res' = [res EXCEPT ![t].effect = "persisted"]
     /\ task' = [task EXCEPT ![t] = "verified"]
     /\ applied' = applied \cup {t}
     /\ UNCHANGED lead
  \/ /\ applied' \in {applied, applied \cup {t}}
     /\ task' = [task EXCEPT ![t] = "execution_pending"]
     /\ res' = [res EXCEPT ![t].status = "failed", ![t].effect = "none"]
     /\ UNCHANGED lead

\* executePrepared (CheckedMutation): the mutation is verified, or the call
\* throws, and then the books may have changed or not.
MutationOf(t) ==
  \/ /\ res' = [res EXCEPT ![t].effect = "persisted"]
     /\ task' = [task EXCEPT ![t] = "verified"]
     /\ applied' = applied \cup {t}
     /\ UNCHANGED lead
  \/ /\ \/ /\ applied' = applied
           /\ task' \in {[task EXCEPT ![t] = s] :
                           s \in {"checker_validated", "execution_pending", "execution_failed"}}
        \/ /\ applied' = applied \cup {t}
           /\ task' \in {[task EXCEPT ![t] = s] :
                           s \in {"execution_pending", "committed", "readback_failed",
                                  "readback_verified"}}
     /\ lead' = "threw"
     /\ UNCHANGED res

ExecuteMutation(t) ==
  /\ lead = "execute"
  /\ t \in Planned
  /\ at[t] = "returned"
  /\ team.kind = "execute"
  /\ res[t].effect = "pending"
  /\ MutationOf(t)
  /\ UNCHANGED <<linked, verdict, run, attempt, team, ord, plan, at, outcome, answer>>

\* The request is completed with what the books and the reports say, or refused:
\* nothing has been written yet.
MaterializeRequest ==
  /\ lead = "request"
  /\ \/ lead' = "plan" /\ at' = [at EXCEPT ![<<1, "lead">>] = "create"]
     \/ lead' = "threw" /\ UNCHANGED at
  /\ UNCHANGED <<ledger, team, ord, plan, outcome, res, applied, answer>>

\* The plan is one that the team accepts.
Plan ==
  /\ lead = "plan"
  /\ at[<<ord, "lead">>] = "called"
  /\ \E p \in team.plans :
       /\ plan' = [plan EXCEPT ![ord] = p]
       /\ at' = [t \in Tasks |-> IF t[1] = ord /\ t[2] \in p THEN "create" ELSE at[t]]
  /\ lead' = "execute"
  /\ UNCHANGED <<ledger, team, ord, outcome, res, applied, answer>>

\* The planner throws, or a work cell does: Promise.all waits for no other.
Reject ==
  /\ \/ lead = "plan" /\ at[<<ord, "lead">>] = "threw"
     \/ lead = "execute" /\ \E t \in Planned : at[t] = "threw"
  /\ lead' = "threw"
  /\ UNCHANGED <<ledger, team, ord, plan, at, outcome, res, applied, answer>>

\* (seeded fault: one failed work cell does not make the result fail)
AnyStatus(R) ==
  IF \E r \in R : r.status = "verified" THEN "verified"
  ELSE IF \E r \in R : r.status = "failed" THEN "failed"
  ELSE "partial"

AggregateStatus(R) ==
  CASE \E r \in R : r.status = "failed" -> "failed"
    [] \E r \in R : r.status = "conflicted" -> "conflicted"
    [] \A r \in R : r.status = "insufficient_evidence" -> "insufficient_evidence"
    [] \A r \in R : r.status = "verified" -> "verified"
    [] OTHER -> "partial"

\* assemble; a proposal that nobody prepared is an error.
Assembled ==
  LET R == {res[t] : t \in Planned} IN
  IF \E r \in R : r.effect = "pending"
  THEN [status |-> "partial", effect |-> "awaiting_confirmation"]
  ELSE [status |-> AggregateStatus(R),
        effect |-> IF \E r \in R : r.effect = "persisted" THEN "persisted" ELSE "none"]

\* The failure of a work item as the supervisor sees it.  The chart path hands
\* no work-cell results over, so that its failures take the fallback.
FailureOf(t) ==
  IF team.kind = "confirm"
  THEN [cell |-> t[2], phase |-> "execution", code |-> res[t].code, retry |-> TRUE]
  ELSE [cell |-> t[2], phase |-> res[t].phase, code |-> res[t].code,
        retry |-> res[t].code \notin {"rejected", "refused"}]

Failures(n) == {FailureOf(<<n, w>>) : w \in {v \in plan[n] : res[<<n, v>>].status = "failed"}}

\* One work item that did not fail is enough: only failures can forbid a retry.
ShouldRetry(a) ==
  /\ ord < team.limit
  /\ a.status = "failed" /\ a.effect = "none"
  /\ \E t \in Planned : res[t].status = "failed" => FailureOf(t).retry

\* Plans are compared with the wording that the lead gave them.
MadeNoProgress(sameWording) ==
  /\ ord > 1
  /\ sameWording
  /\ plan[ord] = plan[ord - 1]
  /\ Failures(ord) = Failures(ord - 1)

\* All work is done: the result is returned, or the next execution begins.
Supervise ==
  /\ lead = "execute"
  /\ \A t \in Planned : at[t] = "returned"
  /\ team.kind = "execute" => \A t \in Planned : res[t].effect # "pending"
  /\ IF team.kind = "unwired" /\ \E t \in Planned : res[t].effect = "pending"
     THEN lead' = "threw" /\ UNCHANGED <<ord, at, answer>>
     ELSE \E sameWording \in BOOLEAN :
          IF ShouldRetry(Assembled) /\ ~MadeNoProgress(sameWording)
          THEN /\ lead' = "plan"
               /\ ord' = ord + 1
               /\ at' = [at EXCEPT ![<<ord + 1, "lead">>] = "create"]
               /\ UNCHANGED answer
          ELSE /\ lead' = "returned"
               /\ answer' = Assembled
               /\ UNCHANGED <<ord, at>>
  /\ UNCHANGED <<ledger, team, plan, outcome, res, applied>>

\* The deadline of the turn or of the team passes, or the user gives up.
Abort ==
  /\ aborted = "no"
  /\ aborted' \in {"timeout", "cancel"}
  /\ UNCHANGED <<ledger, supervisor, at, outcome, res, applied, answer, faults>>

-----------------------------------------------------------------------------
TaskStep(t) ==
  /\ \/ t \in Works /\ WorkCell(t)
     \/ t \in Leads /\ LeadCall(t)
     \/ AgentCall(t)
  /\ UNCHANGED <<supervisor, applied, answer, aborted>>

SupervisorStep ==
  /\ MaterializeRequest \/ Plan \/ Reject \/ Supervise \/ \E t \in Works : ExecuteMutation(t)
  /\ UNCHANGED <<aborted, faults>>

\* The call has returned and every work cell has come to its end.
Done ==
  /\ lead \in {"returned", "threw"}
  /\ \A t \in Works : at[t] \in {"idle", "returned", "threw"}

TeamNext == SupervisorStep \/ Abort \/ \E t \in Tasks : TaskStep(t)

TeamSpec == TeamInit /\ [][TeamNext]_vars

\* The event loop and PostgreSQL go on, and every agent call has a deadline.
TeamFairSpec ==
  /\ TeamSpec
  /\ WF_vars(SupervisorStep)
  /\ \A t \in Tasks : WF_vars(TaskStep(t))

-----------------------------------------------------------------------------
(* Properties.                                                               *)

\* A verified team result rests on work that the ledger verified, by an
\* accepting verdict on the linked artifact; and so does every mutation.
VerifiedIsChecked ==
  /\ answer.status = "verified" =>
       \A t \in Planned : /\ task[t] = "verified"
                          /\ verdict[t] = "accepted"
                          /\ t \in linked
  /\ \A t \in applied : verdict[t] = "accepted" /\ t \in linked

\* Each execution has a command of its own, which no idempotency key ties to
\* the one before: a call may change the books once, however often it retries.
OneEffect == Cardinality(applied) <= 1

\* Without storage faults, no run or attempt of any agent is left running when
\* the work has ended, cancelled and timed out work included, and the task of
\* every work cell is terminal unless a mutation has it or a proposal was left to
\* nobody.  The lead's own task is not meant: CreateTask makes it, and no code
\* moves it on from "created".
WorkIsSettled ==
  Done /\ faults = 0 =>
    /\ \A a \in Tasks \X Roles : run[a] # "running" /\ attempt[a] # "running"
    /\ \A t \in Works :
         task[t] \in Terminal \cup {"none"} \/ res[t].effect = "pending"

\* A call ends although agents fail and statements fail, and so do the cells
\* that it leaves behind.
CallEnds == <>[]Done
-----------------------------------------------------------------------------
(* The inductive invariant behind them.                                      *)

TaskStatus == DOMAIN Allowed \cup Terminal \cup
  {"none", "execution_pending", "committed", "readback_verified"}
Locations ==
  {"idle", "create", "contract", "begin_maker", "start_run", "start_attempt", "generate",
   "end_attempt", "end_run", "called", "linked", "begin_checker", "recorded", "checked",
   "raise", "cancel", "threw", "returned"}

TeamTypeOK ==
  /\ task \in [Tasks -> TaskStatus]
  /\ linked \subseteq Tasks
  /\ verdict \in [Tasks -> Verdicts \cup {"none"}]
  /\ run \in [Tasks \X Roles -> {"none", "running", "succeeded", "failed", "timed_out", "cancelled"}]
  /\ attempt \in [Tasks \X Roles -> Outcomes \cup {"none", "running", "storage"}]
  /\ team \in Teams
  /\ lead \in {"request", "plan", "execute", "returned", "threw"}
  /\ ord \in 1..MaxAttempts
  /\ plan \in [1..MaxAttempts -> SUBSET Cells]
  /\ at \in [Tasks -> Locations]
  /\ outcome \in [Tasks -> Outcomes \cup {"none", "storage"}]
  /\ res \in [Tasks -> [status : {"none", "verified", "insufficient_evidence", "conflicted", "failed"},
                       effect : {"none", "pending", "persisted"},
                       phase : Roles \cup {"none", "checker_rejection"},
                       code : Outcomes \cup Verdicts \cup {"none", "storage"}]]
  /\ applied \subseteq Works
  /\ aborted \in {"no", "timeout", "cancel"}
  /\ faults \in Nat

\* A work cell has a result when it has returned; one that is verified or has an
\* effect was accepted, and its task is verified unless a mutation has it.
ResultRests(t) ==
  /\ at[t] # "returned" => res[t] = NoResult
  /\ verdict[t] # "none" => t \in linked
  /\ res[t].effect # "none" => res[t].status = "verified"
  /\ res[t].status = "verified" =>
       verdict[t] = "accepted" /\ (res[t].effect # "pending" => task[t] = "verified")

\* Cells start after the plan of their execution, leads with it.
InOrder ==
  /\ lead = "request" => ord = 1
  /\ \A n \in 1..MaxAttempts : plan[n] = {} \/ plan[n] \in team.plans
  /\ \A t \in Works : at[t] # "idle" =>
       t[1] < ord \/ (t[1] = ord /\ lead \notin {"request", "plan"})
  /\ \A t \in Leads : at[t] \notin {"idle", "called", "threw"} => lead = "plan" /\ t[1] = ord

\* A mutation was made by the last execution, which is not repeated after it.
AppliedLast ==
  \A t \in applied :
    /\ team.kind = "execute"
    /\ t \in Planned
    /\ res[t].effect # "none"
    /\ lead \in {"execute", "returned", "threw"}
    /\ lead = "execute" => res[t].effect = "persisted"

AnswerRests ==
  answer.status = "verified" =>
    /\ lead = "returned"
    /\ \A t \in Planned : res[t].status = "verified" /\ res[t].effect # "pending"

RunOpen(t) == at[t] \in {"start_attempt", "generate", "end_attempt", "end_run"}
AttemptOpen(t) == at[t] \in {"generate", "end_attempt"}

\* A row is running while its agent is at work, and a cell's task is terminal when
\* the cell has ended: as long as no statement fails.
RowsSettled(t) ==
  /\ \A r \in Roles :
       /\ run[<<t, r>>] = "running" => RunOpen(t) /\ r = Role(t)
       /\ attempt[<<t, r>>] = "running" => AttemptOpen(t) /\ r = Role(t)
  /\ t \in Works =>
       /\ at[t] = "idle" => task[t] = "none"
       /\ at[t] \in {"returned", "threw"} =>
            task[t] \in Terminal \/ res[t].effect = "pending"

TeamInv ==
  /\ TeamTypeOK
  /\ \A t \in Works : ResultRests(t)
  /\ InOrder /\ AppliedLast /\ AnswerRests
  /\ faults = 0 => \A t \in Tasks : RowsSettled(t)
=============================================================================
