\* Two days closed by two calls and opened again, an order parked overnight.
SPECIFICATION Spec
CONSTANTS
  Order = {o1}
  Terminal = {t1}
  Idle = Idle
  Client = {c1}
  NoClient = NoClient
  Txn = {}
  NoTxn = NoTxn
  SplitTxn = {}
  Methods = {"cash", "credit"}
  Quantity = 1
  Gross = 1
  Totals = {1}
  Mismatch = 0
  Holds = TRUE
  CounterRepay = TRUE
  Days = 2
  Closer = {a1, a2}
  Reopens = TRUE
SYMMETRY Alike
INVARIANT DaysAddUp
PROPERTY ClosedOnce
CHECK_DEADLOCK FALSE
