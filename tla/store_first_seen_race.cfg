CONSTANTS
  store = store  api = api  cli = cli
  w1 = w1  w2 = w2  w3 = w3
  f1 = f1  f2 = f2  t1 = t1  d1 = d1
  NoId = NoId  NoTime = NoTime  NoRow = NoRow  NoWorker = NoWorker  NoRequest = NoRequest
  StoreServer = {store}
  ApiServer = {}
  CliProcess = {}
  Worker = {w1, w2}
  ServerOf <- TwoThreads
  Id <- MCId
  Text = {t1}
  Digest <- MCDigest
  Mean <- MCMean
  Snapshot <- BothSnapshots
  BONITO_RETENTION_DAYS = 1
  DEFAULT_RETENTION = 1
  PRUNE_EVERY = 1
  BATCH_LIMIT = 2
  BootTime = 2
  MaxTime = 3
  MaxSends = 1
  MaxPrunes = 2
SPECIFICATION Spec
INVARIANT SameQueryUpdates
SYMMETRY Threads
CHECK_DEADLOCK FALSE
