\* Two processes share the database; two runs of two jobs, one retried and one
\* without an attempt, while up to two statements of each run end in an error.
SPECIFICATION Spec
CONSTANTS
  j1 = j1
  j2 = j2
  p1 = p1
  p2 = p2
  Jobs = {j1, j2}
  Processes = {p1, p2}
  MaxConcurrent = 2
  RetryCount <- RetriedAndNever
  Replies = {200, 500}
  MaxRuns = 2
  MaxFaults = 2
SYMMETRY Symmetry
INVARIANTS ExecutionTypeOK NoLeakedRunning NoOrphanRow AnswersAccounted AttemptsAccounted EventsMatchRow
PROPERTIES VerdictStable KeepsLedger
CHECK_DEADLOCK FALSE
