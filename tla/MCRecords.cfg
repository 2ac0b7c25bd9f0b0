\* Three requests that change the books, two maintenance calls beside postings,
\* and five planning commands.
SPECIFICATION RecordsSpec
CONSTANTS
  \* books
  Requests = {r1, r2, r3}
  Proposals <- MCProposals
  Chart <- MCChart
  Opened = {1}
  Rows <- MCRows
  Checked = {"april"}
  Covered = {1}
  \* projections
  BalanceAccounts = {"cash", "card", "travel"}
  Foreign = {"travel"}
  Class <- MCClass
  Journals <- MCJournals
  Dates = {1, 2}
  Workers = {w1, w2}
  MaxJobs = 2
  Missing = Missing
  \* planning
  Budgets <- MCBudgets
  Obligations <- MCObligations
  Goals <- MCGoals
  Debts <- MCDebts
  MaxCommands = 5
SYMMETRY RequestSymmetry
INVARIANTS
  PostingsFitAccounts
  CorrectedOnce
  HistoryIsTrue
  BatchPostedOnce
  BalancesFollowLedger
  MappedOnce
PROPERTY ClosedBooksAreFinal
CHECK_DEADLOCK FALSE
