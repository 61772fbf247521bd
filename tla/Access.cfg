\* Two users, three tokens that may expire, and two requests at a time.
SPECIFICATION Spec
CONSTANTS
  u1 = u1
  u2 = u2
  Users = {u1, u2}
  Grants <- ReadOrAll
  Expiries = {1}
  Needs = {"READ"}
  MaxTokens = 3
  MaxCalls = 2
  MaxTime = 2
SYMMETRY Symmetry
INVARIANTS TypeOK LateIsRefused
PROPERTIES TokensKept
CHECK_DEADLOCK FALSE
