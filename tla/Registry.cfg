\* Two processes share the table; one of two zones is unknown, a statement fails, rules
\* extend and disable, and requests overlap in pairs.
SPECIFICATION Spec
CONSTANTS
  j1 = j1
  p1 = p1
  p2 = p2
  c1 = c1
  c2 = c2
  z1 = z1
  z2 = z2
  Jobs = {j1}
  Processes = {p1, p2}
  Expressions = {c1, c2}
  Zones = {z1, z2}
  KnownZones = {z1}
  Extended <- Slowed
  Rows <- FirstRows
  Updates <- FewUpdates
  Rules = {"extend", "disable"}
  MaxRequests = 2
  MaxFaults = 1
SYMMETRY Symmetry
INVARIANTS TypeOK Consistency OnlyCommittedRows
PROPERTIES BootHeals ChangesRecorded
CHECK_DEADLOCK FALSE
