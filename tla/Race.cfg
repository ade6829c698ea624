\* Pages of the creator behind a cache and in two tabs; and the cron run and the browser of the second opening's holder:
\* calls fail, and a confirmation that timed out may still land.
SPECIFICATION SceneSpec
CONSTANTS
  cron = cron
  browser = browser
  t1 = t1
  t2 = t2
  p1 = p1
  p2 = p2
  None = None
  Tabs = {t1, t2}
  Prizes = {p1, p2}
  Cached = TRUE
  TTL = 1
  MaxRead = 2
  Lag = 1
  OpensAt = 2
  MaxTime = 4
  MaxBundles = 2
  MaxFaults = 1
  Relayers = {cron, browser}
  Claimers = {}
  Until <- BrowserStops
  MaxOpenings = 2
  Stock <- TwoBundles
  Entropy = {2}
  MaxSlot = 1
  Timeout = 1
  Faults = TRUE
  MaxLate = 1
CHECK_DEADLOCK FALSE
INVARIANTS PassSound PagesSound
