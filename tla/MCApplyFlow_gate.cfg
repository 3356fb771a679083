SPECIFICATION Spec
CONSTANTS
  Requests = {q1, q2}
  EarlierIds = {e1}
  Viewers = {}
  Pairings = {p1, p2}
  Directions = {d1}
  DryRuns = {FALSE}
  Rows = {r1}
  ExternalRows = {}
  NoApproval = NoApproval
  NoDiff = NoDiff
  RequireApproval = TRUE
SYMMETRY Symmetry
CHECK_DEADLOCK FALSE
INVARIANTS
  TypeOK
  ExecutedWasCarriedThrough
PROPERTIES
  ImplementsWorkflow
