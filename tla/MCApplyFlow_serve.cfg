SPECIFICATION FairSpec
CONSTANTS
  Requests = {q1}
  EarlierIds = {}
  Viewers = {v1}
  Pairings = {p1}
  Directions = {d1}
  DryRuns = {TRUE, FALSE}
  Rows = {r1, r2}
  ExternalRows = {r1}
  NoApproval = NoApproval
  NoDiff = NoDiff
  RequireApproval = FALSE
CHECK_DEADLOCK FALSE
INVARIANTS
  WritesAreAudited
  WritesAreVerified
  OutcomeAccountsForWrites
  MirrorNeverAhead
PROPERTIES
  RequestsAreAnswered
