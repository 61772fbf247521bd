\* One job, three changes, two fetches at a time, one loss.
SPECIFICATION Spec
CONSTANTS
  j1 = j1
  j2 = j2
  l1 = l1
  l2 = l2
  Jobs = {j1}
  Loads = {l1, l2}
  MaxChanges = 3
  MaxDrops = 1
SYMMETRY Symmetry
INVARIANTS TypeOK TableCurrent
CHECK_DEADLOCK FALSE
