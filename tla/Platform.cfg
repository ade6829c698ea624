SPECIFICATION SceneSpec
CONSTANTS
  a = a
  b = b
  None = None
  Runs <- MCRuns
  MaxId = 2
  Ttl = 4
  Duration = 2
  RpcTimeout = 1
  DbTimeout = 1
  Past = 1
  PageSize = 1
  Transactions = 1
  PerLootbox = 1
  Keys = {k1, k2}
  Drafts = {d1}
  Uploads = {u1}
  Requests = {r1}
  NoPage = NoPage
  Quota = 2
  Limit = 1
INVARIANTS RelayerSound StorageSound
PROPERTY EveryLootboxHasTurns
