SPECIFICATION Spec
CONSTANTS
  Ids = {p1}
  Legacy = {}
  Rights = {r1}
  Viewers = {v}
  Scanner = Scanner
  NoPairing = NoPairing
  NoDiff = NoDiff
  NoSnapshot = NoSnapshot
  MaxChanges <- OneChange
  MaxRestarts = 1
  Jobs = {j1, j2}
  MaxCrashes = 2
  Items = {i1}
  Roles = {d1, d2}
  Securables = {s1}
  Ordinary = {o1}
  BuiltIn = {b1}
  SystemGenerated = {y1}
  NoFile = NoFile
  Unread = Unread
  MaxEdits = 1
  Runs = {e1}
  w1 = w1
  w2 = w2
  Workspaces = {w1, w2}
  Assignees = {u1}
  WorkspaceRoles = {admin}
  NoRole = NoRole
  LakehouseName <- SameName
  SourceGrants = {g1}
  OneLake = TRUE
CHECK_DEADLOCK FALSE
INVARIANTS
  TypeOK
  DriftIsReal
  DriftsChain
  StatusIsTrue
  LogsStayWithin
  ProtectedStay
  RestoreBringsBack
  ReconcileTypeOK
  RemovesOnlyListed
  BothDiscoveriesReturned
  TrailFollowsCalls
PROPERTIES
  ScansGoOn
  RestoreLosesOnlyNewer
