SPECIFICATION IdentitySpec
CONSTANTS
  x1 = x1
  x2 = x2
  y1 = y1
  y2 = y2
  z1 = z1
  z2 = z2
  CerCalls = {x1, x2}
  Chals = {y1, y2}
  Accounts = {z1, z2}
  Installs = {i1}
  Nobody = Nobody
  MaxTicks = 2
  IdCalls = {x1, x2}
  Pics = {y1, y2}
  Verifications = {z1, z2}
  Assertions = {a1}
  NoPic = NoPic
  MaxBumps = 2
  MaxStops = 1
  RecCalls = {x1, x2}
  Circles = {y1, y2}
  RecSessions = {s1}
  Indexes = {z1, z2}
  Quorate = 2
  NoCircle = NoCircle
  KeyCalls = {x1, x2}
  Media = {m1}
  MaxEpochs = 2
  MaxKeyEnds = 2
  Packages = {z1, z2}
  MaxWindows = 2
  MaxEdits = 2
SYMMETRY MCSymmetry
INVARIANTS IdentityIsSound RecoveryIsSound MediaIsSafe ShieldIsSound
PROPERTIES CeremoniesAreSound RevokedStaysRevoked
CHECK_DEADLOCK FALSE
