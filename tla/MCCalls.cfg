\* The guards of the mutation_commands table, waiting and retrying callers, and a
\* caller that submits its command again.
SPECIFICATION CallsSpec
CONSTANTS
  t1 = t1
  t2 = t2
  e1 = e1
  e2 = e2
  e3 = e3
  e4 = e4
  e5 = e5
  e6 = e6
  p1 = p1
  p2 = p2
  Free = Free
  Orphan = Orphan
  NoAnswer = NoAnswer
  CommandId <- MCCommandId
  IdemKey <- MCIdemKey
  Proposal <- MCProposal
  Envelopes = {e1, e4, e5, e6}
  Proposals = {t1, t2}
  Callers = {p1, p2}
  Accepted = {e1, e4, e5}
  Confirmed = {e1, e5, e6}
  MaxAttempts = 2
  MaxFaults = 3
  Cancellable = {t1}
INVARIANT OnlyCheckedApplied
PROPERTIES CallReturns RetrySettles
