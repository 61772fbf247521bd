\* One process with one slot and three runs, each of which may meet an error of the
\* database: the queue fills and drains, also when its runs are rejected or lost.
SPECIFICATION FairSpec
CONSTANTS
  j1 = j1
  j2 = j2
  p1 = p1
  p2 = p2
  Jobs = {j1}
  Processes = {p1}
  MaxConcurrent = 1
  RetryCount <- Once
  Replies = {200}
  MaxRuns = 3
  MaxFaults = 1
INVARIANTS ConcurrencyLimit WorkConserving NoOvertaking
PROPERTIES EveryRunEnds
CHECK_DEADLOCK FALSE
