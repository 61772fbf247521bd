\* Two processes, executions around the thresholds of the rules, users that interfere.
SPECIFICATION FairSpec
CONSTANTS
  p1 = p1
  p2 = p2
  Processes = {p1, p2}
  Expressions <- Fields
  Histories <- AtThresholds
  Window = 11
  TimeoutMs = 10
  Times = {1, 9, 10}
  MaxChanges = 2
  MaxRuns = 1
  MaxFaults = 1
INVARIANTS ScheduleTypeOK NeverFasterThanChosen DisabledOnFailures
PROPERTY BacksOff
CHECK_DEADLOCK FALSE
