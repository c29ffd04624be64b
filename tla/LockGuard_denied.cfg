SPECIFICATION GuardSpec
CONSTANTS
  Packages = {a1}
  MaxWindows = 2
  MaxEdits = 0
INVARIANT TargetStaysObscured
CHECK_DEADLOCK FALSE
