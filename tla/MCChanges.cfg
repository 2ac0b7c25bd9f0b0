\* What the answer after a failed team call says of the books.
SPECIFICATION AgentsSpec
CONSTANTS
  Cells = {"a", "b"}
  Teams <- MCTeams
  Tasks <- MCTasks
  MaxAttempts = 2
  MaxFaults = 1
  MaxTurns = 2
  MaxSteps = 3
  MaxDelegations = 2
  MaxCalls = 2
INVARIANT NoChangesIsTrue
CHECK_DEADLOCK FALSE
