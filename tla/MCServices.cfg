\* Two schedulers, three updates with two approvals, four log records, and two
\* operators at the launcher.
SPECIFICATION ServicesSpec
CONSTANTS
  \* scheduler
  Dispatchers = {d1, d2}
  Jobs = {1, 2}
  Overlap <- MCOverlap
  Missed <- MCMissed
  JobRetries = 1
  Limit = 2
  MaxTime = 1
  MaxMishaps = 1
  \* telegram
  Updates <- MCUpdates
  Handlers = {h1, h2}
  Poller = h1
  Approvers = {home, flat}
  RateLimit = 1
  CodeTtl = 1
  Lockout = 1
  MaxPending = 1
  MaxFailed = 1
  MaxRetries = 1
  MaxClock = 1
  MaxPairingCommands = 2
  MaxTroubles = 1
  Nobody = Nobody
  \* logging
  Sinks = {agent, errors}
  AllLevels = {agent}
  Severities = {1, 3}
  Capacity = 1
  MaxRecords = 4
  MaxFailures = 1
  \* launcher
  Commands = {c1, c2}
  MaxPid = 3
  MaxCalls = 4
SYMMETRY ServicesSymmetry
INVARIANTS
  OccurrenceOnce
  HandledBeforeAcknowledged
  PendingBounded
  FlushIsComplete
  NoGatewayLost
PROPERTIES
  OutcomeRecordedOnce
  ApprovalStands
CHECK_DEADLOCK FALSE
