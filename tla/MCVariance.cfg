\* Planning commands, of which three can activate budgets that follow each other.
SPECIFICATION PlanningSpec
CONSTANTS
  Budgets <- MCBudgets
  Obligations <- MCObligations
  Goals <- MCGoals
  Debts <- MCDebts
  MaxCommands = 3
INVARIANT RowCountsOnce
CHECK_DEADLOCK FALSE
