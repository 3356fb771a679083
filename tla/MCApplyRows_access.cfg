SPECIFICATION Spec
CONSTANTS
  ada = ada
  ops = ops
  s1 = s1
  t1 = t1
  Users = {u1}
  Groups = {g1}
  Names = {ada, ops}
  Internal = {ada}
  Display <- SameName
  NoRow = NoRow
  Nobody = Nobody
  Catalog = catalog
  Workspace = workspace
  Schemas = {s1}
  Tables = {t1}
  SchemaOf <- OneSchema
  Jobs = {j1}
  Grantable = {"MODIFY", "USE_CATALOG"}
  MaxTaken = 1
  MaxGiven = 1
INVARIANTS
  TypeOK
  AccessFollowsGrants
  GrantsAreReachable
PROPERTIES
  OkRowsArrive
  DecisionsStick
