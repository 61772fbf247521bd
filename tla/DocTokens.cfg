\* Two users ask for tokens.
SPECIFICATION Spec
CONSTANTS
  u1 = u1
  u2 = u2
  Users = {u1, u2}
  Grants <- ReadOrAll
  Expiries = {1}
  Needs = {"READ"}
  MaxTokens = 3
  MaxCalls = 2
  MaxTime = 2
PROPERTIES NumberIsFree
CHECK_DEADLOCK FALSE
