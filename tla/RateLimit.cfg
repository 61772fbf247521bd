\* Two keys with two requests in each window, over more than two windows.
SPECIFICATION LimiterSpec
CONSTANTS
  k1 = k1
  k2 = k2
  Keys = {k1, k2}
  Limit = 2
  WindowMs = 2
  MaxTime = 6
  MaxRefused = 2
INVARIANTS LimiterTypeOK AtMostTwice
PROPERTIES RefusalEarned
CHECK_DEADLOCK FALSE
