SPECIFICATION LiveSpec
CONSTANTS
  c1 = c1
  c2 = c2
  c3 = c3
  None = None
  Keys = {"publish", "single"}
  Policy <- Rules
  Grants = {"g1"}
  Requests = {}
  Tokens = {"t1", "t2"}
  Calls = {c1, c2}
  Home <- TwoHomes
  MaxFailures = 0
  MaxUses = 2
PROPERTIES GuestIsAnswered StepUpIsFinished ConsumedIsUsed KeepsBudget
CHECK_DEADLOCK FALSE
