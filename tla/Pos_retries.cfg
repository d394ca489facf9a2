\* Two clients and two terminals racing for two orders.
SPECIFICATION Spec
CONSTANTS
  Order = {o1, o2}
  Terminal = {t1, t2}
  Idle = Idle
  Client = {c1, c2}
  NoClient = NoClient
  Txn = {x1}
  NoTxn = NoTxn
  SplitTxn = {}
  Methods = {"cash", "credit"}
  Quantity = 1
  Gross = 2
  Totals = {2}
  Mismatch = 0
  Holds = TRUE
  CounterRepay = TRUE
SYMMETRY Alike
INVARIANT OneOrderPerClient
INVARIANT CancelledTookNothing
INVARIANT BookedOnce
CHECK_DEADLOCK FALSE
