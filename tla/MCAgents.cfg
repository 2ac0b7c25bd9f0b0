\* One call per kind of team, with two executions, an abort and a failing
\* statement; and a conversation of two messages.
SPECIFICATION AgentsSpec
CONSTANTS
  Cells = {"a", "b"}
  Teams <- MCTeams
  Tasks <- MCTasks
  MaxAttempts = 2
  MaxFaults = 1
  MaxTurns = 2
  MaxSteps = 3
  MaxDelegations = 2
  MaxCalls = 2
INVARIANTS VerifiedIsChecked WorkIsSettled EffectsInOneStep
PROPERTIES CallKeepsPromise TeamCallEnds TurnAnswers
CHECK_DEADLOCK FALSE
