\* Two calls of one command, nothing fails, nobody declines.
SPECIFICATION Spec
CONSTANTS
  t1 = t1
  t2 = t2
  e1 = e1
  e2 = e2
  e3 = e3
  e4 = e4
  e5 = e5
  e6 = e6
  p1 = p1
  p2 = p2
  Free = Free
  Orphan = Orphan
  NoAnswer = NoAnswer
  CommandId <- MCCommandId
  IdemKey <- MCIdemKey
  Proposal <- MCProposal
  Envelopes = {e1}
  Proposals = {t1}
  Callers = {p1, p2}
  Accepted = {e1}
  Confirmed = {e1}
  MaxAttempts = 2
  MaxFaults = 0
  Cancellable = {}
INVARIANT Repairable
