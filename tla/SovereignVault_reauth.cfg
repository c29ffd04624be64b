SPECIFICATION VaultSpec
CONSTANTS
  VaultCalls = {c1, c2}
  Assets = {a1}
  MaxKeys = 3
  MaxPages = 1
PROPERTY ReauthStreams
CHECK_DEADLOCK FALSE
