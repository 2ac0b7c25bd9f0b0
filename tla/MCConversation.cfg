\* A message delivered twice and a follow-up, a crash and a failing statement; and
\* a proposal, two messages that answer it or not, and another member.
SPECIFICATION ConversationSpec
CONSTANTS
  c1 = c1
  c2 = c2
  w1 = w1
  w2 = w2
  w3 = w3
  w4 = w4
  w5 = w5
  None = None
  Works = {w1, w2, w3}
  Conversations = {c1}
  Conv <- MCConv
  Message <- MCMessage
  MaxCrashes = 1
  MaxFaults = 1
  Speakers = {"a", "b"}
  Count <- MCCount
  Says <- MCSays
  Prompted = {"a"}
  Operations = {"create", "replace", "delete", "clear"}
  MaxTroubles = 1
INVARIANTS PostedOnce PostLeavesTrace RecordTruthful TimeoutIsRecorded RecordIsTrue
PROPERTIES WritesOnWhatWasShown ApprovedInTime OutcomeIsFinal
CHECK_DEADLOCK FALSE
