CONSTANTS
  app = app  app2 = app2  active = active  idle_in_transaction = idle_in_transaction
  None = None
  Ratio = {90}
  Tracing = FALSE
  Order <- One
  State = {active, idle_in_transaction}
  IdleInTx = idle_in_transaction
SPECIFICATION Spec
INVARIANT StatesAddUp
