---------------------------- MODULE DelegatedCall ----------------------------
(***************************************************************************)
(* What a delegated call promises to the conversation that waits for it:   *)
(* the books change at most once and only while the call is open, a result *)
(* says whether they did, and only an error leaves that unsaid.  This is   *)
(* what OrchestratorTurn relies on when it takes a call in one step.       *)
(***************************************************************************)
EXTENDS TeamResult, Naturals

VARIABLES
  result,   \* the result, or that the call is open or threw
  changes   \* how often the call changed the books

\* The call has not ended, or it ended with an error.
Open == [status |-> "open", effect |-> "none"]
Thrown == [status |-> "threw", effect |-> "none"]

Init == result = Open /\ changes = 0

\* A mutation of the call is verified.
Change ==
  /\ result = Open /\ changes = 0
  /\ changes' = 1
  /\ UNCHANGED result

\* The result owns up to a change, and claims none that was not made.
Return ==
  /\ result = Open
  /\ result' \in TeamResults
  /\ result'.effect = "persisted" <=> changes = 1
  /\ UNCHANGED changes

\* An error, perhaps in the middle of a mutation, but never after a verified one.
Throw ==
  /\ result = Open /\ changes = 0
  /\ result' = Thrown
  /\ changes' \in 0..1

Next == Change \/ Return \/ Throw

Spec == Init /\ [][Next]_<<result, changes>>
=============================================================================
