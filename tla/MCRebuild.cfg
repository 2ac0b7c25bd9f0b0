SPECIFICATION ProjectionSpec
CONSTANTS
    BalanceAccounts = {"cash", "card", "travel"}
    Foreign = {"travel"}
    Class <- MCClass
    Journals <- MCJournals
    Dates = {1, 2}
    Workers = {w1, w2}
    MaxJobs = 2
    Missing = Missing
INVARIANT RebuildRepairs
CHECK_DEADLOCK FALSE
