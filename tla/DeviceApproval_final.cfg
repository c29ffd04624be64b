SPECIFICATION PairSpec
CONSTANTS
  c1 = c1
  c2 = c2
  c3 = c3
  m1 = m1
  d1 = d1
  d2 = d2
  s1 = s1
  s2 = s2
  s3 = s3
  MasterCalls = {c1}
  GuestCalls = {c2}
  Crashes = FALSE
  Masters = {m1}
  NewDevices = {d1}
  SessionIds = {s1}
  NoDevice = NoDevice
PROPERTIES TerminalIsFinal
