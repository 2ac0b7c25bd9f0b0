------------------------- MODULE TeamCallRefinement -------------------------
(* TeamExecution implements DelegatedCall. *)
EXTENDS TeamExecution

\* What the caller of runTeamLead sees.  A caller whose turn was aborted stops
\* waiting (abortable in orchestrator.ts); that turn is given up.
ResultOfCall ==
  CASE lead = "returned" -> answer
    [] lead = "threw" -> [status |-> "threw", effect |-> "none"]
    [] OTHER -> [status |-> "open", effect |-> "none"]
Changes == Cardinality(applied)

\* The promise, stated of what is seen.
Call == INSTANCE DelegatedCall WITH result <- ResultOfCall, changes <- Changes

\* Whatever agents, retries, failing statements and aborts do, the caller of a
\* team sees one result that says whether the books changed, or an error, and
\* nothing that the call left behind changes the books later (runTeamLead).
CallKeepsPromise == Call!Spec

\* What the mapping needs beside TeamInv: a work cell says that its mutation was
\* made only when it was.
PersistedApplied == \A t \in Works : res[t].effect = "persisted" => t \in applied
=============================================================================
