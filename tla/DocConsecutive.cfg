\* Two processes, a job whose executions all failed, for the rule on consecutive failures.
SPECIFICATION Spec
CONSTANTS
  p1 = p1
  p2 = p2
  Processes = {p1, p2}
  Expressions <- Fields
  Histories <- AllFailed
  Window = 11
  TimeoutMs = 10
  Times = {1, 9, 10}
  MaxChanges = 1
  MaxRuns = 1
  MaxFaults = 1
PROPERTY ConsecutiveFailuresDisable
CHECK_DEADLOCK FALSE
