CONSTANTS
  app = app  app2 = app2  active = active  idle_in_transaction = idle_in_transaction
  None = None
  Ratio = {90}
  Tracing = TRUE
  Order <- Two
  State = {active, idle_in_transaction}
  IdleInTx = idle_in_transaction
SPECIFICATION FairSpec
INVARIANTS
  TypeOK
  GaugesOfLastSnapshot
PROPERTIES
  EveryInstanceCollected
  OutageCounted
