\* Airdrops that are refused, time out or are pressed on; pools that are wound up.
SPECIFICATION SceneSpec
CONSTANTS
  w1 = w1
  w2 = w2
  w3 = w3
  l1 = l1
  l2 = l2
  o1 = o1
  o2 = o2
  t1 = t1
  NoPool = NoPool
  Receivers = {w1, w2, w3}
  Lists <- SomeLists
  PerTx = 2
  Boxes = 6
  AccountRent = 3
  Fee = 1
  MaxFaults = 2
  MaxTimeouts = 2
  MaxSpent = 2
  MaxOpened = 2
CHECK_DEADLOCK FALSE
INVARIANT AirdropSound
PROPERTIES ListIsServed PoolsWindUp
