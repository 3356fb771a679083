SPECIFICATION Spec
CONSTANTS
  Requests = {q1, q2}
  EarlierIds = {}
  Viewers = {}
  Pairings = {p1}
  Directions = {d1}
  DryRuns = {FALSE}
  Rows = {r1}
  ExternalRows = {}
  NoApproval = NoApproval
  NoDiff = NoDiff
  RequireApproval = FALSE
SYMMETRY Symmetry
CHECK_DEADLOCK FALSE
INVARIANTS
  PlanUndoesOwnChanges
