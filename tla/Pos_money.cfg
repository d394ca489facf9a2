\* One order of three units with a rounding rest and a cent of mismatch; one
\* good over two days, three rows of the ledger and an order; two utterances,
\* two records, two calls under way, one lost.
SPECIFICATION AllSpec
CONSTANTS
  Order = {o1}
  Terminal = {t1}
  Idle = Idle
  Client = {c1}
  NoClient = NoClient
  Txn = {}
  NoTxn = NoTxn
  SplitTxn = {}
  Methods = {"cash", "wechat", "credit"}
  Quantity = 3
  Gross = 4
  Totals = {2, 4}
  Mismatch = 1
  Holds = TRUE
  CounterRepay = TRUE
  Product = {1}
  Costs = {1}
  NoCost = nocost
  PerRow = 2
  UnitPrice = 2
  PerUnit = 2
  Discounts = {0, 1}
  Amounts = {1}
  Recorded <- Rows
  Window = 1
  Week = 2
  Days = 2
  MaxRows = 3
  MaxSlips = 1
  Parts = {1, 2}
  MaxSaid = 2
  MaxLogs = 2
  MaxSent = 2
  MaxBreaks = 1
SYMMETRY Alike
INVARIANT PaidOrOwed
INVARIANT RefundsAddUp
INVARIANT ReportsAddUp
INVARIANT VoiceHeeds
PROPERTY PastStands
CHECK_DEADLOCK FALSE
