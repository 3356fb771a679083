SPECIFICATION Spec
CONSTANTS
  Requests = {q1}
  EarlierIds = {e1}
  Viewers = {}
  Pairings = {p1}
  Directions = {d1, d2}
  DryRuns = {FALSE}
  Rows = {r1, r2}
  ExternalRows = {}
  NoApproval = NoApproval
  NoDiff = NoDiff
  RequireApproval = TRUE
SYMMETRY Symmetry
CHECK_DEADLOCK FALSE
INVARIANTS
  ApprovedWrites
