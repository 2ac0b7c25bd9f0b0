------------------------------ MODULE MCAgents ------------------------------
(* The agents in one small instance for TLC: a team that executes a call,  *)
(* and the orchestrator's turns, in which a call of a team is one step.    *)
(* A behaviour is one of the part that Init chooses.                       *)
EXTENDS TeamCallRefinement, OrchestratorTurn

\* A transaction capture, a chart change, an import, a query that the lead may
\* give to either of two cells, and two analyses side by side.
MCTeams ==
  {[kind |-> k, plans |-> {{"a"}}, limit |-> 2] : k \in {"execute", "confirm", "unwired"}}
    \cup {[kind |-> "report", plans |-> {{"a"}, {"b"}}, limit |-> 2],
          [kind |-> "report", plans |-> {{"a", "b"}}, limit |-> 1]}
MCTasks == (1..MaxAttempts) \X (Cells \cup {"lead"})

VARIABLE part

InTeam(A) == part = "team" /\ A /\ UNCHANGED <<part, turnVars>>
InTurn(A) == part = "turn" /\ A /\ UNCHANGED <<part, vars>>

AgentsInit ==
  /\ part \in {"team", "turn"}
  /\ TeamInit /\ OrchestratorInit
  /\ part = "turn" => team = CHOOSE t \in Teams : TRUE

AgentsNext ==
  \/ InTeam(SupervisorStep) \/ InTeam(Abort) \/ \E t \in Tasks : InTeam(TaskStep(t))
  \/ InTurn(OrchestratorNext)

\* The fairness of TeamFairSpec and of OrchestratorFairSpec.
AgentsSpec ==
  /\ AgentsInit /\ [][AgentsNext]_<<part, vars, turnVars>>
  /\ WF_<<part, vars, turnVars>>(InTeam(SupervisorStep))
  /\ \A t \in Tasks : WF_<<part, vars, turnVars>>(InTeam(TaskStep(t)))
  /\ WF_<<part, vars, turnVars>>(InTurn(TurnStep))

\* A team call ends although agents fail, statements fail and the caller gives
\* up, and so do the work cells that it leaves behind (TeamExecution!CallEnds).
TeamCallEnds == part = "team" => CallEnds
=============================================================================
