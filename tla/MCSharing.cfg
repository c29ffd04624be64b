SPECIFICATION SharingSpec
CONSTANTS
  c1 = c1
  c2 = c2
  c3 = c3
  u1 = u1
  u2 = u2
  OCalls = {c1, c2, c3}
  Codes = {k1, k2}
  Grants = {u1, u2}
  Scopes = {read, offline}
  Offline = offline
  MaxDeaths = 1
  IssueCalls = {i1, i2}
  ExchangeCalls = {c1, c2, c3}
  Subjects = {u1, u2}
  MaxPerWindow = 1
  MaxWindows = 1
  MaxFailures = 1
  Captures = {c1, c2, c3}
  NoCamera = NoCamera
  MaxFrames = 2
  VaultCalls = {u1, u2}
  Assets = {a1}
  MaxKeys = 2
  MaxPages = 2
SYMMETRY MCSymmetry
INVARIANTS ConsentIsCurrent CameraIsShared VaultIsSound
PROPERTIES CodesAreTickets SpentForOneSession
CHECK_DEADLOCK FALSE
