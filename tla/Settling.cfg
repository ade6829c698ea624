\* Two relayers on two openings, or two claimers on one bundle with the asset of
\* a pool; requests fail and the proof of one claimer may be too old.
SPECIFICATION SceneSpec
CONSTANTS
  cron = cron
  browser = browser
  Relayers = {cron, browser}
  Claimers = {c1, c2}
  Until <- BrowserStops
  MaxOpenings = 2
  Stock <- TwoBundles
  Entropy = {2}
  MaxSlot = 1
  Timeout = 1
  Faults = FALSE
  MaxLate = 0
  Resolvers = {c1}
  Assets <- Three
  Pool = 1
  MaxFaults = 1
  MaxMoves = 1
  Retires = FALSE
INVARIANT ClaimsSound
PROPERTIES QueueKept DeliveredInTheEnd
CHECK_DEADLOCK FALSE
