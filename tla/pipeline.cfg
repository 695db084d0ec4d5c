CONSTANTS
  store = store
  w1 = w1  w2 = w2
  f1 = f1  t1 = t1  d1 = d1
  NoId = NoId  NoTime = NoTime  NoRow = NoRow  NoWorker = NoWorker  NoRequest = NoRequest
  StoreServer = {store}
  ApiServer = {}
  CliProcess = {}
  Worker = {w1, w2}
  ServerOf <- TwoThreads
  Id = {f1}
  Text = {t1}
  Digest <- MCDigest
  Mean = {1, 2}
  Snapshot <- MCSnapshot
  BONITO_RETENTION_DAYS = 0
  DEFAULT_RETENTION = 0
  PRUNE_EVERY = 1
  BATCH_LIMIT = 2
  BootTime = 2
  MaxTime = 3
  MaxSends = 3
  MaxPrunes = 0
SPECIFICATION PFairSpec
INVARIANTS
  PTypeOK
  StoredOnce
  TrueIsStored
PROPERTIES
  RequestAnswered
CHECK_DEADLOCK FALSE
