SPECIFICATION Spec
CONSTANTS
  Jobs = {j1}
  c1 = c1
  c2 = c2
  slot1 = slot1
  Constraints = {c1, c2}
  Slots = {slot1}
  SlotOf <- OneSlot
  Users = {alice}
  Groups = {staff}
  UsersOf <- WholeGroup
  Tries = 2
  Nothing = Nothing
  MaxChanges = 0
  t1 = t1
  t2 = t2
  s1 = s1
  a = a
  b = b
  param1 = param1
  v1 = v1
  v2 = v2
  tag1 = tag1
  u1 = u1
  u2 = u2
  al = al
  be = be
  p1 = p1
  p2 = p2
  p3 = p3
  p4 = p4
  p5 = p5
  p6 = p6
  p7 = p7
  p8 = p8
  Tables = {t1, t2}
  Schemas = {s1}
  SchemaOf <- InSchema
  Columns <- TwoColumns
  Params = {param1}
  Values = {v1, v2}
  Keys = {tag1}
  Staff = {u1}
  Guests = {u2}
  FilterInputs <- SomeFilters
  PolicyInputs <- SomePolicies
  TagInputs <- SomeTags
  ColumnTagInputs <- SomeColumnTags
  MaskInputs <- SomeMasks
  Catalog = Catalog
  NoTag = NoTag
  AnyValue = AnyValue
  NoColumn = NoColumn
  NoOne = NoOne
  Unsupported = Unsupported
  Elsewhere = Elsewhere
  Bracketed = {u2}
  p9 = p9
  p10 = p10
  Writers = {j1}
  ItemTables = {t1, t2}
  People = {bea}
  Caller = hub
  Rules = {rule1}
  AdminRoles = {readers}
  AdminPaths <- AnyTables
  EditedPaths <- OneTable
  NoRole = NoRole
  NoRule = NoRule
  MaxEdits = 0
SYMMETRY Symmetry
CHECK_DEADLOCK FALSE
INVARIANTS
  OkRowsAreNotBroadened
