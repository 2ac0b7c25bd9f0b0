----------------------------- MODULE TeamResult -----------------------------
(* What runTeamLead returns to the orchestrator, as far as the two sides   *)
(* tell results apart.                                                     *)

\* What a delegated call returns: a report, a checked change, or a proposal.
TeamResults ==
  [status : {"verified", "partial", "insufficient_evidence", "conflicted", "failed"},
   effect : {"none"}]
    \cup {[status |-> "verified", effect |-> "persisted"],
          [status |-> "partial", effect |-> "awaiting_confirmation"]}
=============================================================================
