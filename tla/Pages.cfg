\* One job, two executions, two changes, two fetches at a time, one loss.
SPECIFICATION Spec
CONSTANTS
  j1 = j1
  j2 = j2
  e1 = e1
  e2 = e2
  l1 = l1
  l2 = l2
  v1 = v1
  v2 = v2
  i1 = i1
  o1 = o1
  Jobs = {j1}
  Executions = {e1, e2}
  Loads = {l1, l2}
  MaxChanges = 2
  MaxDrops = 1
  MaxClicks = 2
  Valid = {v1, v2}
  Invalid = {i1}
  Odd = {o1}
  Presets = {v2}
  MaxEdits = 4
  MaxRequests = 3
SYMMETRY Symmetry
INVARIANTS TypeOK ListCurrent StatsCurrent VerdictCurrent
PROPERTY CopyMatches
CHECK_DEADLOCK FALSE
