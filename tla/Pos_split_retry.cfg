\* A split payment sent twice.
SPECIFICATION Spec
CONSTANTS
  Order = {o1}
  Terminal = {t1}
  Idle = Idle
  Client = {c1}
  NoClient = NoClient
  Txn = {x1}
  NoTxn = NoTxn
  SplitTxn = {x1}
  Methods = {"cash", "wechat", "credit"}
  Quantity = 2
  Gross = 3
  Totals = {3}
  Mismatch = 0
  Holds = TRUE
  CounterRepay = FALSE
SYMMETRY Alike
INVARIANT BookedOnce
CHECK_DEADLOCK FALSE
