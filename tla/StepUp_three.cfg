SPECIFICATION PairSpec
CONSTANTS
  None = None
  t1 = t1
  t2 = t2
  p1 = p1
  u1 = u1
  u2 = u2
  k1 = k1
  k3 = k3
  r1 = r1
  r2 = r2
  s1 = s1
  s2 = s2
  x1 = x1
  x2 = x2
  RpCalls = {r1}
  SubjectCalls = {s1, s2}
  Challenges = {x1}
  Accesses <- OneAccess
  Terms = {o1}
  Users = {u1}
  Keys = {k1}
  KeyOwner <- OwnerOf
  FaceUsers = {}
  PadReady = FALSE
  MaxFailedAttempts = 3
  MaxPending = 1
  MaxCrashes = 0
PROPERTY ThreeFailuresDeny
