-------------------------- MODULE OrchestratorTurn --------------------------
(***************************************************************************)
(* One conversation with the orchestrator: the workflow that suspends when *)
(* the user has to answer and resumes with the next message, the model     *)
(* loop of OrchestratorAgent.runTurn with its delegations, and the answer  *)
(* to a proposed mutation.                                                 *)
(*                                                                         *)
(* The model chooses freely among the tools that a step offers it.  A      *)
(* delegated call returns or throws as DelegatedCall promises, a promise   *)
(* that TeamExecution keeps; what resuming a mutation does is what         *)
(* CheckedMutation does.                                                   *)
(* The messages of a conversation are answered one at a time, which is     *)
(* what ActiveTurnRegistry is for.                                         *)
(***************************************************************************)
EXTENDS Naturals, Sequences, TeamResult

CONSTANTS
  MaxTurns,         \* bound on the messages of the conversation
  MaxSteps,         \* MAX_ORCHESTRATOR_STEPS
  MaxDelegations,   \* MAX_DELEGATIONS_PER_TURN
  MaxCalls          \* bound on the tool calls of one model step

ASSUME TurnAssumption ==
  /\ MaxTurns \in Nat \ {0} /\ MaxSteps \in Nat \ {0}
  /\ MaxDelegations \in Nat \ {0} /\ MaxCalls \in Nat \ {0}

VARIABLES
  turns,      \* messages received
  phase,      \* what the turn awaits
  stored,     \* the suspended workflow run of the conversation
  resumed,    \* the run as it was when the message of this turn resumed it
  results,    \* teamResults of the invocation
  count,      \* delegationCount
  failed,     \* delegationFailed
  cont,       \* a transaction capture waits for its continuation
  memory,     \* "ok", "degraded" or "retried": memoryDegraded and memoryRetryUsed
  proposal,   \* a working-memory mutation was proposed
  steps,      \* steps of this generation
  calls,      \* delegateTeam calls of the current step that have not ended
  changed,    \* the books were changed by a call of this turn
  reply,      \* what the user was told last
  hit,        \* a call of the current step had an effect or threw
  hits        \* number of steps of the turn in which that happened

invocation == <<results, count, failed, cont, memory, proposal, steps, calls>>
trace == <<changed, hit, hits>>
turnVars == <<turns, phase, stored, resumed, invocation, trace, reply>>

NoRun == [kind |-> "none", cont |-> FALSE]

OrchestratorInit ==
  /\ turns = 0
  /\ phase = "idle"
  /\ stored = NoRun
  /\ resumed = NoRun
  /\ results = <<>>
  /\ count = 0
  /\ failed = FALSE
  /\ cont = FALSE
  /\ memory = "ok"
  /\ proposal = FALSE
  /\ steps = 0
  /\ calls = 0
  /\ changed = FALSE
  /\ reply = "none"
  /\ hit = FALSE
  /\ hits = 0

-----------------------------------------------------------------------------
(* The workflow around a turn.                                               *)

\* runOrchestratorLoop: the message resumes the suspended run, if any.
Receive ==
  /\ phase = "idle"
  /\ turns < MaxTurns
  /\ turns' = turns + 1
  /\ resumed' = stored
  /\ stored' = NoRun
  /\ phase' = IF stored.kind = "confirm" THEN "classify" ELSE "context"
  /\ results' = <<>>
  /\ count' = 0
  /\ failed' = FALSE
  /\ cont' = stored.cont
  /\ memory' = "ok"
  /\ proposal' = FALSE
  /\ steps' = 0
  /\ calls' = 0
  /\ changed' = FALSE
  /\ reply' = "none"
  /\ hit' = FALSE
  /\ hits' = 0

\* The step of the workflow ends: it suspends for a question, or is done.
EndTurn(r, run) ==
  /\ phase' = "idle"
  /\ reply' = r
  /\ stored' = run
  /\ UNCHANGED <<turns, resumed, invocation, trace>>

\* An error ends the run, and its suspension is gone with it.
Throw == EndTurn("error", NoRun)

\* The deadline passes or the process dies.  Mastra leaves a run that was
\* resumed suspended or not, depending on what it had saved.
GiveUp ==
  /\ phase # "idle"
  /\ \E run \in {NoRun, resumed} : EndTurn("error", run)

-----------------------------------------------------------------------------
(* The results of a turn.                                                    *)

StatusRank(s) ==
  CASE s = "verified" -> 0 [] s = "partial" -> 1 [] s = "insufficient_evidence" -> 2
    [] s = "conflicted" -> 3 [] OTHER -> 4

\* selectTeamResult: the best status, and the latest of these.
Selected(rs) ==
  CHOOSE i \in DOMAIN rs : \A j \in DOMAIN rs \ {i} :
    LET a == StatusRank(rs[i].status) b == StatusRank(rs[j].status) IN
    a < b \/ (a = b /\ i > j)

\* selectTurnTeamResult: with a continuation, the latest of several.
SelectedForTurn(rs, c) == IF c /\ Len(rs) > 1 THEN Len(rs) ELSE Selected(rs)

\* turnFromTeamResults.  A capture goes on after the answer only when what was
\* proposed is the category it needs (isCreateTransactionCategoryProposal).
TurnFromTeamResults(rs, c) ==
  LET i == SelectedForTurn(rs, c) IN
  IF rs[i].effect = "awaiting_confirmation"
  THEN \E category \in BOOLEAN :
         EndTurn("asked", [kind |-> "confirm", cont |-> c /\ category])
  ELSE IF rs[i].status = "insufficient_evidence"
  THEN EndTurn("asked", [kind |-> "clarify", cont |-> c])
  ELSE EndTurn("final", NoRun)

\* (seeded fault: a change that was made does not end the delegations)
CanDelegateAfterChange ==
  /\ ~failed
  /\ count < MaxDelegations
  /\ \A i \in DOMAIN results :
       /\ results[i].status \notin {"failed", "conflicted"}
       /\ results[i].effect # "awaiting_confirmation"

\* canDelegateAnotherSubstep.
CanDelegate ==
  /\ ~failed
  /\ count < MaxDelegations
  /\ \A i \in DOMAIN results :
       /\ results[i].status \notin {"failed", "conflicted"}
       /\ results[i].status = "insufficient_evidence" => cont
       /\ results[i].effect = "none"

-----------------------------------------------------------------------------
(* runTurn: the model loop.                                                  *)

\* recordMemoryOutcome: a failure of working memory degrades the rest of the turn.
RecordMemoryOutcome ==
  memory' \in IF memory = "ok" THEN {"ok", "degraded"} ELSE {memory}

\* orchestratorInput reads the saved context.
Prepare ==
  /\ phase = "context"
  /\ RecordMemoryOutcome
  /\ phase' = "step"
  /\ UNCHANGED <<turns, stored, resumed, results, count, failed, cont, proposal,
                 steps, calls, trace, reply>>

\* A step that delegates; calls of one step are made side by side.
DelegateStep ==
  /\ phase = "step"
  /\ CanDelegate
  /\ calls' \in 1..MaxCalls
  /\ phase' = "tools"
  /\ UNCHANGED <<turns, stored, resumed, results, count, failed, cont, memory,
                 proposal, steps, trace, reply>>

\* A step without delegation: memory tools, which may fail or propose a change,
\* or a delegation that is rejected before it counts.
OtherStep ==
  /\ phase = "step"
  /\ RecordMemoryOutcome
  /\ proposal' \in IF memory = "ok" THEN {proposal, TRUE} ELSE {proposal}
  /\ phase' = "tools"
  /\ UNCHANGED <<turns, stored, resumed, results, count, failed, cont, steps, calls,
                 trace, reply>>

Hit == hit' = TRUE /\ hits' = hits + (IF hit THEN 0 ELSE 1)

\* runTeamLead of a delegation: the result is kept, or the call throws, and then the
\* books may have changed.
TeamCall ==
  \/ /\ \E r \in TeamResults :
          /\ results' = Append(results, r)
          /\ changed' = (changed \/ r.effect = "persisted")
          /\ IF r.effect # "none" THEN Hit ELSE UNCHANGED <<hit, hits>>
     /\ UNCHANGED failed
  \/ /\ failed' = TRUE
     /\ changed' \in {changed, TRUE}
     /\ Hit
     /\ UNCHANGED results

\* delegateTeam, which refuses a call over the limit.
Delegate ==
  /\ phase = "tools"
  /\ calls > 0
  /\ calls' = calls - 1
  /\ IF count >= MaxDelegations
     THEN /\ failed' = TRUE
          /\ UNCHANGED <<results, count, cont, trace>>
     ELSE /\ count' = count + 1
          /\ cont' \in {cont, TRUE}      \* a transaction capture keeps its draft
          /\ TeamCall
  /\ UNCHANGED <<turns, phase, stored, resumed, memory, proposal, steps, reply>>

\* The end of a step: stopWhen, and then requireSubmission finds nothing.
EndStep ==
  /\ phase = "tools"
  /\ calls = 0
  /\ steps' = steps + 1
  /\ hit' = FALSE
  /\ phase' = IF (results # <<>> /\ ~CanDelegate) \/ steps + 1 >= MaxSteps
              THEN "unsubmitted" ELSE "step"
  /\ UNCHANGED <<turns, stored, resumed, results, count, failed, cont, memory, proposal,
                 calls, changed, hits, reply>>

\* submitFinalResponse is accepted, or the model never gets it right, or the
\* generation fails: working memory, a model that is unavailable, anything else.
LeaveLoop ==
  /\ phase = "step"
  /\ phase' \in {"submitted", "unsubmitted", "memory_error", "transient_error", "error"}
  /\ UNCHANGED <<turns, stored, resumed, invocation, trace, reply>>

\* (seeded fault: the retry is not remembered)
RetryEveryTime ==
  /\ phase = "memory_error"
  /\ memory' = "degraded"
  /\ phase' = "context"
  /\ steps' = 0
  /\ UNCHANGED <<turns, stored, resumed, results, count, failed, cont, proposal, calls,
                 trace, reply>>

\* The generation is repeated once after a working-memory failure.
RetryWithoutMemory ==
  /\ phase = "memory_error"
  /\ memory # "retried"
  /\ memory' = "retried"
  /\ phase' = "context"
  /\ steps' = 0
  /\ UNCHANGED <<turns, stored, resumed, results, count, failed, cont, proposal, calls,
                 trace, reply>>

\* recoverTeamResults: a reply is generated from the results, or that fails.
Recover ==
  /\ results # <<>>
  /\ \/ phase = "unsubmitted"
     \/ phase = "error" /\ memory # "retried"
  /\ TurnFromTeamResults(results, cont) \/ Throw

\* The errors that are not recovered; a failed delegation is reported.
TurnFails ==
  \/ /\ phase = "transient_error" \/ (phase \in {"memory_error", "error"} /\ memory = "retried")
     /\ Throw
  \/ phase = "unsubmitted" /\ results = <<>> /\ Throw
  \/ /\ phase = "error" /\ memory # "retried" /\ results = <<>>
     /\ IF failed THEN EndTurn("no_changes", NoRun) ELSE Throw

\* The reply was submitted.
Submitted ==
  /\ phase = "submitted"
  /\ IF count > 0 /\ results = <<>> THEN EndTurn("no_changes", NoRun)
     ELSE IF proposal THEN EndTurn("memory_asked", NoRun)
     ELSE IF results # <<>> THEN TurnFromTeamResults(results, cont)
     ELSE EndTurn("final", NoRun)

-----------------------------------------------------------------------------
(* resolvePendingMutation: the answer to a proposed change.                  *)

\* Both classifications agree on a decision, or the answer is ambiguous.
ClassifyAnswer ==
  /\ phase = "classify"
  /\ phase' \in {"approve", "reject", "ambiguous"}
  /\ UNCHANGED <<turns, stored, resumed, invocation, trace, reply>>

\* The question is put again, or the reply cannot be generated.
AskAgain ==
  \/ EndTurn("asked", resumed)
  \/ Throw

\* ChartMutationRuntime.resume, and what the conversation makes of it.  A draft
\* that waited for the new category is captured next.
Approve ==
  /\ phase = "approve"
  /\ \/ /\ phase' = "approved"
        /\ \/ /\ results' = <<[status |-> "verified", effect |-> "persisted"]>>
              /\ changed' = TRUE
           \/ /\ results' = <<[status |-> "failed", effect |-> "unresolved"]>>
              /\ changed' \in BOOLEAN
        /\ UNCHANGED reply
        /\ UNCHANGED stored
     \/ /\ phase' = "threw"
        /\ changed' \in BOOLEAN
        /\ UNCHANGED <<results, reply, stored>>
  /\ UNCHANGED <<turns, resumed, count, failed, cont, memory, proposal, steps, calls,
                 hit, hits>>

\* continueTransactionCapture.
ContinueCapture ==
  /\ phase = "approved"
  /\ cont
  /\ Len(results) = 1
  /\ results[1].effect = "persisted"
  /\ \/ /\ \E r \in TeamResults : results' = Append(results, r)
        /\ UNCHANGED phase
     \/ phase' = "threw" /\ UNCHANGED results
  /\ UNCHANGED <<turns, stored, resumed, count, failed, cont, memory, proposal, steps,
                 calls, trace, reply>>

\* The results are reported; when that fails, the catch applies.
ReportApproved ==
  /\ phase = "approved"
  /\ ~(cont /\ Len(results) = 1 /\ results[1].effect = "persisted")
  /\ \/ TurnFromTeamResults(results, cont)
     \/ IF cont THEN AskAgain ELSE Throw

\* The change is not approved, or resuming it threw.
NotApproved ==
  \/ phase = "reject" /\ (EndTurn("final", NoRun) \/ IF cont THEN AskAgain ELSE Throw)
  \/ phase = "ambiguous" /\ AskAgain
  \/ phase = "threw" /\ IF cont THEN AskAgain ELSE Throw

-----------------------------------------------------------------------------
TurnStep ==
  \/ Prepare \/ DelegateStep \/ OtherStep \/ Delegate \/ EndStep \/ LeaveLoop
  \/ RetryWithoutMemory \/ Recover \/ TurnFails \/ Submitted
  \/ ClassifyAnswer \/ Approve \/ ContinueCapture \/ ReportApproved \/ NotApproved

OrchestratorNext == Receive \/ TurnStep \/ GiveUp

OrchestratorSpec == OrchestratorInit /\ [][OrchestratorNext]_turnVars

\* The event loop goes on, and every call of a model or a team has a deadline.
OrchestratorFairSpec == OrchestratorSpec /\ WF_turnVars(TurnStep)

-----------------------------------------------------------------------------
(* Properties.                                                               *)

\* The calls of a turn that changed the books, proposed a change or failed in a
\* way that may have changed them belong to one step of the model: no later step
\* adds to them, neither in the same generation nor in the one that repeats it
\* after a working-memory failure.
EffectsInOneStep == hits <= 1

\* However its model behaves, a turn comes to a reply or an error.
TurnAnswers == phase # "idle" ~> phase = "idle"

\* "No changes were made" is said only when no call of the turn changed the books.
NoChangesIsTrue == reply = "no_changes" => ~changed
-----------------------------------------------------------------------------
(* The inductive invariant behind EffectsInOneStep.                          *)

Kept == TeamResults \cup {[status |-> "failed", effect |-> "unresolved"]}
Answering == {"classify", "approve", "reject", "ambiguous", "approved", "threw"}
Generating == {"context", "step", "tools", "submitted", "unsubmitted",
               "memory_error", "transient_error", "error"}

OrchestratorTypeOK ==
  /\ turns \in Nat
  /\ phase \in {"idle"} \cup Answering \cup Generating
  /\ stored \in [kind : {"none", "confirm", "clarify"}, cont : BOOLEAN]
  /\ resumed \in [kind : {"none", "confirm", "clarify"}, cont : BOOLEAN]
  /\ results \in Seq(Kept)
  /\ failed \in BOOLEAN /\ cont \in BOOLEAN /\ proposal \in BOOLEAN
  /\ changed \in BOOLEAN /\ hit \in BOOLEAN
  /\ count \in 0..MaxDelegations /\ steps \in Nat /\ calls \in 0..MaxCalls /\ hits \in Nat
  /\ memory \in {"ok", "degraded", "retried"}
  /\ reply \in {"none", "error", "asked", "final", "no_changes", "memory_asked"}

\* What keeps a turn from another delegation, whatever is still to come in it.
Barred == failed \/ \E i \in DOMAIN results : results[i].effect # "none"

OrchestratorInv ==
  /\ OrchestratorTypeOK
  /\ hits <= 1
  /\ phase \notin {"idle", "tools"} => calls = 0 /\ ~hit
  /\ phase \in Answering => hits = 0
  /\ hits = 1 => Barred
  /\ phase = "tools" /\ calls > 0 /\ hits = 1 => hit
=============================================================================
