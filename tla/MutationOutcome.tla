-------------------------- MODULE MutationOutcome --------------------------
(***************************************************************************)
(* What the checked-mutation subsystem promises for each checked proposal, *)
(* seen from outside: one outcome, decided once and published later in the *)
(* verification ledger, and success answered only for a verified effect.   *)
(***************************************************************************)
CONSTANTS Proposals, Callers, NoAnswer

VARIABLES
  outcome,   \* what happened to the proposal in the books
  published, \* the outcome other parts of the program see
  answer     \* the proposal a call currently answers success for

promise == <<outcome, published, answer>>

Settled == {"verified", "unverified", "rejected", "cancelled"}
Outcome == {"open", "applied"} \cup Settled

Init ==
  /\ outcome = [t \in Proposals |-> "open"]
  /\ published = [t \in Proposals |-> "open"]
  /\ answer = [p \in Callers |-> NoAnswer]

\* The effect happens once, then its read-back passes or does not; without an
\* effect the proposal is rejected.
Decide(t, from, to) ==
  /\ outcome[t] = from
  /\ outcome' = [outcome EXCEPT ![t] = to]
  /\ UNCHANGED <<published, answer>>

\* The user declines before anything was decided; both views agree at once.
Decline(t) ==
  /\ outcome[t] = "open"
  /\ outcome' = [outcome EXCEPT ![t] = "cancelled"]
  /\ published' = [published EXCEPT ![t] = "cancelled"]
  /\ UNCHANGED answer

Publish(t) ==
  /\ outcome[t] \in Settled
  /\ published[t] = "open"
  /\ published' = [published EXCEPT ![t] = outcome[t]]
  /\ UNCHANGED <<outcome, answer>>

\* A call answers success for a proposal already published as verified, or
\* publishes it itself.
Answer(p, t) ==
  /\ answer[p] = NoAnswer
  /\ outcome[t] = "verified"
  /\ published' = [published EXCEPT ![t] = "verified"]
  /\ answer' = [answer EXCEPT ![p] = t]
  /\ UNCHANGED outcome

Forget(p) ==
  /\ answer' = [answer EXCEPT ![p] = NoAnswer]
  /\ UNCHANGED <<outcome, published>>

Next ==
  \/ \E t \in Proposals :
       \/ Decide(t, "open", "applied")
       \/ Decide(t, "applied", "verified")
       \/ Decide(t, "applied", "unverified")
       \/ Decide(t, "open", "rejected")
       \/ Decline(t)
       \/ Publish(t)
       \/ \E p \in Callers : Answer(p, t)
  \/ \E p \in Callers : Forget(p)

Spec == Init /\ [][Next]_promise
=============================================================================
