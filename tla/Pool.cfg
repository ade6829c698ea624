\* Three leaves for the copies of the bundle; a client may rest.
SPECIFICATION SceneSpec
CONSTANTS
  l1 = l1
  l2 = l2
  l3 = l3
  o1 = o1
  o2 = o2
  o3 = o3
  t1 = t1
  t2 = t2
  t3 = t3
  None = None
  Leaves = {l1, l2, l3}
  Quantity = 2
  Openings = {o1, o2, o3}
  Tabs = {t1, t2, t3}
  MaxDrafts = 2
  MaxToggles = 1
  MaxFaults = 1
  MaxLate = 2
SYMMETRY Alike
CHECK_DEADLOCK FALSE
INVARIANTS PoolSound LiveFromOneDraft
