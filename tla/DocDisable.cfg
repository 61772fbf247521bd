\* The hourly rules against the timers of one process.
SPECIFICATION Spec
CONSTANTS
  j1 = j1
  p1 = p1
  p2 = p2
  c1 = c1
  c2 = c2
  z1 = z1
  z2 = z2
  Jobs = {j1}
  Processes = {p1}
  Expressions = {c1, c2}
  Zones = {z1}
  KnownZones = {z1}
  Extended <- Slowed
  Rows <- FirstRows
  Updates <- AnyUpdate
  Rules = {"disable"}
  MaxRequests = 2
  MaxFaults = 0
INVARIANTS DisabledMeansStopped
CHECK_DEADLOCK FALSE
