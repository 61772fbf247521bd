\* One slot and three runs, one of them manual.
SPECIFICATION Spec
CONSTANTS
  j1 = j1
  j2 = j2
  p1 = p1
  p2 = p2
  Jobs = {j1}
  Processes = {p1}
  MaxConcurrent = 1
  RetryCount <- Once
  Replies = {200}
  MaxRuns = 3
  MaxFaults = 0
PROPERTIES ManualFirst
CHECK_DEADLOCK FALSE
