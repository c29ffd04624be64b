SPECIFICATION PairSpec
CONSTANTS
  c1 = c1
  c2 = c2
  c3 = c3
  m1 = m1
  d1 = d1
  d2 = d2
  s1 = s1
  s2 = s2
  s3 = s3
  MasterCalls = {c3}
  GuestCalls = {c1, c2}
  Crashes = FALSE
  Masters = {m1}
  NewDevices = {d1, d2}
  SessionIds = {s1, s2, s3}
  NoDevice = NoDevice
SYMMETRY MCSymmetry
INVARIANTS AccessNeedsDecision SessionKindMatchesDevice ClaimsAreBounded DyingCallsAreSafe
PROPERTIES ClosedStaysClosed
