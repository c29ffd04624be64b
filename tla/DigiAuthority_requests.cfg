SPECIFICATION RequestsSpec
CONSTANTS
  None = None
  publish = publish
  single = single
  pay = pay
  c1 = c1
  c2 = c2
  Keys = {publish, pay}
  Policy <- Rules
  Grants = {g1, g2, g3}
  Requests = {r1}
  Tokens = {t1}
  Calls = {c1, c2}
  Home <- OneHome
  MaxFailures = 1
  MaxUses = 1
  LegacyCalls = {c1, c2}
  LegacyIds = {g1, g2, g3}
  Masters = {m1, m2}
  MaxPending = 1
SYMMETRY MCOneHomeSymmetry
INVARIANTS TypeOK GrantIsRecorded WasteIsBounded
PROPERTY LegacyIsSound
