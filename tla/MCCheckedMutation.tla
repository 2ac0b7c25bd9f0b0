------------------------- MODULE MCCheckedMutation -------------------------
(* Small instances of CheckedMutation for TLC. *)
EXTENDS CheckedMutationRefinement, TLC

CONSTANTS t1, t2, e1, e2, e3, e4, e5, e6, p1, p2

\* e2 executes the proposal of e1 under another id and key, e3 is a replay of
\* e1 with another confirmation.  For another proposal, e4 has no exact
\* confirmation, e5 reuses the command id of e1, and e6 was not accepted.
MCCommandId ==
  [e \in Envelopes |-> CASE e = e2 -> 2 [] e = e4 -> 4 [] e = e6 -> 6 [] OTHER -> 1]

MCIdemKey ==
  [e \in Envelopes |-> CASE e = e2 -> 2 [] e = e4 -> 4 [] e = e5 -> 5
                        [] e = e6 -> 6 [] OTHER -> 1]

MCProposal == [e \in Envelopes |-> IF e \in {e4, e5, e6} THEN t2 ELSE t1]

CallerSymmetry == Permutations(Callers)
=============================================================================
