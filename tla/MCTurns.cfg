\* Four turns of one conversation and one of another in the registry; a message
\* delivered twice and a follow-up in the gateway.
SPECIFICATION TurnsSpec
CONSTANTS
  c1 = c1
  c2 = c2
  w1 = w1
  w2 = w2
  w3 = w3
  w4 = w4
  w5 = w5
  None = None
  Works = {w1, w2, w3, w4, w5}
  Few = {w1, w2, w3}
  Conversations = {c1, c2}
  Conv <- MCConv
  Message <- MCMessage
  MaxCrashes = 0
  MaxFaults = 0
INVARIANTS OneTurn FirstComeFirstServed
PROPERTIES TurnsEnd ShutdownReturns
CHECK_DEADLOCK FALSE
