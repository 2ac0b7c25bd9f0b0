\* Calls of one command, a drifted replay and a rival command for its proposal.
SPECIFICATION Spec
CONSTANTS
  t1 = t1
  t2 = t2
  e1 = e1
  e2 = e2
  e3 = e3
  e4 = e4
  e5 = e5
  e6 = e6
  p1 = p1
  p2 = p2
  Free = Free
  Orphan = Orphan
  NoAnswer = NoAnswer
  CommandId <- MCCommandId
  IdemKey <- MCIdemKey
  Proposal <- MCProposal
  Envelopes = {e1, e2, e3}
  Proposals = {t1}
  Callers = {p1, p2}
  Accepted = {e1, e2, e3}
  Confirmed = {e1, e2, e3}
  MaxAttempts = 2
  MaxFaults = 2
  Cancellable = {t1}
SYMMETRY CallerSymmetry
INVARIANTS EffectOnce ReceiptMatchesEffect VerifiedAnswer InDoubtNotFailed
PROPERTY KeepsPromise
