SPECIFICATION SceneSpec
CONSTANTS
  b1 = b1
  b2 = b2
  b3 = b3
  press1 = press1
  press2 = press2
  press3 = press3
  t1 = t1
  t2 = t2
  home = home
  y = y
  z = z
  None = None
  Tabs = {t1, t2}
  Wallets = {y, z}
  Nonces = {1, 2}
  Ids = {1, 2}
  NonceTTL = 2
  SessionTTL = 1
  ClockSkew = 0
  Repeats = TRUE
  MaxTime = 2
  MaxTyped = 2
  Browsers = {b1, b2, b3}
  Flows = {press1, press2, press3}
  BrowserOf <- EachTheirs
  StoreOf <- Stores
  MaxTemplates = 2
  MaxEdits = 2
  MaxFaults = 2
  Reorder = TRUE
  EditsGoOn = TRUE
  TimePasses = TRUE
SYMMETRY Alike
CHECK_DEADLOCK FALSE
INVARIANTS PageIsTrue TreasuryIsPinned KeptTillThePage StoredAsShown
PROPERTY SessionsSound
