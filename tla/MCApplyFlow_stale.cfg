SPECIFICATION Spec
CONSTANTS
  Requests = {q1}
  EarlierIds = {}
  Viewers = {v1}
  Pairings = {p1}
  Directions = {d1}
  DryRuns = {FALSE}
  Rows = {r1}
  ExternalRows = {}
  NoApproval = NoApproval
  NoDiff = NoDiff
  RequireApproval = FALSE
SYMMETRY Symmetry
CHECK_DEADLOCK FALSE
INVARIANTS
  NextViewIsFresh
