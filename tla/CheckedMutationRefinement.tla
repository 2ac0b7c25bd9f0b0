--------------------- MODULE CheckedMutationRefinement ---------------------
(* CheckedMutation implements MutationOutcome. *)
EXTENDS CheckedMutation

CONSTANT NoAnswer

\* The outcome is read off the domain rows, the read-back and the commands;
\* the task status decides only whether the user declined.
OutcomeOf(t) ==
  CASE task[t] = "partial" -> "cancelled"
    [] \E e \in Of(t) : readback[e] = "passed" -> "verified"
    [] \E e \in Of(t) : readback[e] = "failed" -> "unverified"
    [] (\E e \in Of(t) : applied[e] > 0) /\ \A e \in Of(t) : readback[e] = "none"
         -> "applied"
    [] (\E e \in Of(t) : row[e] = "execution_failed")
         /\ \A e \in Of(t) : applied[e] = 0 -> "rejected"
    [] OTHER -> "open"

\* What other parts of the program conclude from the status of a task.
PublishedAs(s) ==
  CASE s = "verified" -> "verified"
    [] s = "readback_failed" -> "unverified"
    [] s = "execution_failed" -> "rejected"
    [] s = "partial" -> "cancelled"
    [] OTHER -> "open"

\* A call that ended without an error answers success for its proposal.
AnswerOf(p) ==
  IF pc[p] = "done" /\ err[p] = "none" THEN Proposal[env[p]] ELSE NoAnswer

\* The three things an outside observer sees.
outcomes == [t \in Proposals |-> OutcomeOf(t)]
publications == [t \in Proposals |-> PublishedAs(task[t])]
answers == [p \in Callers |-> AnswerOf(p)]

\* The promise, stated of what is seen.
Promise == INSTANCE MutationOutcome WITH
  outcome <- outcomes, published <- publications, answer <- answers

\* Whatever the calls, faults and retries do, an outside observer sees one
\* outcome per proposal, never revised, and success only for a verified effect.
KeepsPromise == Promise!Spec
=============================================================================
