SPECIFICATION CloseSpec
CONSTANTS
  Requests = {r1, r2, r3}
  Proposals <- MCProposals
  Chart <- MCChart
  Opened = {1}
  Rows <- MCRows
  Checked = {"april"}
  Covered = {1}
SYMMETRY RequestSymmetry
CHECK_DEADLOCK FALSE
INVARIANT CorrectionLands
