SPECIFICATION AccountSpec
CONSTANTS
  x1 = x1
  x2 = x2
  x3 = x3
  y1 = y1
  y2 = y2
  DeviceCalls = {x1, x2, x3}
  MaxDevices = 3
  PairCalls = {x1, x2, x3}
  PairDeaths = 1
  SyncCalls = {x1, x2, x3}
  Envelopes = {y1, y2}
  BundleSize = 2
  MaxPublications = 2
  FaceCalls = {y1, y2}
  People = {x1, x2, x3}
  Procs = {i1}
  NoFace = NoFace
  NoCall = NoCall
  FacePoints = {0, 2, 4}
  Threshold = 3
  Margin = 1
  TopK = 2
  MaxFaults = 1
  SignCalls = {s1}
  MaxChanges = 2
  LoginRuns = {x1, x2, x3}
  LoginPeople = {y1, y2}
  MaxBegins = 2
SYMMETRY MCSymmetry
INVARIANTS DevicesAreSound CodeOpensOnce OneTimeUse SilentIsSound
PROPERTIES FacesAreSound SignInIsSound
CHECK_DEADLOCK FALSE
