----------------------------- MODULE MCRecords -----------------------------
(* The records of a household in one small instance for TLC: the books and *)
(* their periods, the projections of a ledger, and the plans.  They share  *)
(* no state, and a behaviour is one of the part that Init chooses.         *)
EXTENDS MCPeriodClose, MCProjections, MCPlanning

VARIABLE part

RecordsInit ==
  /\ part \in {"books", "projections", "planning"}
  /\ CloseInit /\ ProjectionInit /\ PlanningInit

RecordsNext ==
  \/ /\ part = "books" /\ CloseNext
     /\ UNCHANGED <<part, projectionVars, planningVars>>
  \/ /\ part = "projections" /\ ProjectionNext
     /\ UNCHANGED <<part, ledgerVars, planningVars>>
  \/ /\ part = "planning" /\ PlanningNext
     /\ UNCHANGED <<part, ledgerVars, projectionVars>>

RecordsSpec ==
  RecordsInit /\ [][RecordsNext]_<<part, ledgerVars, projectionVars, planningVars>>
=============================================================================
