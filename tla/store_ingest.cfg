CONSTANTS
  store = store  api = api  cli = cli
  w1 = w1  w2 = w2  w3 = w3
  f1 = f1  f2 = f2  t1 = t1  d1 = d1
  NoId = NoId  NoTime = NoTime  NoRow = NoRow  NoWorker = NoWorker  NoRequest = NoRequest
  StoreServer = {store}
  ApiServer = {api}
  CliProcess = {cli}
  Worker = {w1, w2, w3}
  ServerOf <- ServersAndPrune
  Id <- MCId
  Text = {t1}
  Digest <- MCDigest
  Mean <- MCMean
  Snapshot <- AllSnapshots
  BONITO_RETENTION_DAYS = 1
  DEFAULT_RETENTION = 1
  PRUNE_EVERY = 1
  BATCH_LIMIT = 3
  BootTime = 2
  MaxTime = 3
  MaxSends = 1
  MaxPrunes = 2
SPECIFICATION Spec
INVARIANTS
  TypeOK
  SampleHasIdentity
  OneAuditEntryPerFingerprint
  Isolation
  SnapshotAtomic
  AckedIsStored
  TextsMatchSamples
PROPERTIES
  IdentityKept
  RetentionHonoured
  ImplementsLedger
SYMMETRY Servers
CHECK_DEADLOCK FALSE
