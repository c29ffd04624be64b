SPECIFICATION ClientsSpec
CONSTANTS
  A = A
  B = B
  C = C
  p1 = p1
  p2 = p2
  q1 = q1
  q2 = q2
  MaxAttempts = 2
  MaxEnrols = 2
  MaxPasses = 4
  MaxReplacements = 2
  Loads = {p1, p2}
  Bases = 1
  Size = 3
  MaxRange = 1
  MaxReloads = 1
  MaxReplaced = 1
  Releases = {A, B, C}
  VersionOf <- Ver
  Genuine = {A, C}
  NoRelease = NoRelease
  Blocks = 2
  MaxStalls = 2
  MaxEnqueued = 2
  MaxEvents = 2
  LockerCalls = {p1, p2}
  LockApps = {q1, q2}
  MaxVisits = 2
  Subjects = {p1, p2}
  EvalSessions = {q1, q2}
  Images = {f1}
  NoImage = NoImage
  Embeddings = {b1, b2}
  MaxCaptures = 3
  MaxStops = 1
SYMMETRY MCSymmetry
INVARIANTS EnrolsTheFaceScanned ReadyIsChecked FilesAreWhole InstallerGetsAVerifiedApk ListIsEnforced DeletedLeaveTheExport
CHECK_DEADLOCK FALSE
