\* Two items on two lists, deliveries of up to two, payments with two keys; or a stocktake.
SPECIFICATION BackroomSpec
SYMMETRY Keys
CONSTANTS
  NumItems = 2
  NumLists = 2
  MaxQty = 2
  Key = {k1, k2}
  MaxForms = 2
  MaxReturns = 1
  Product = {p1}
  Opening = 2
  MaxSessions = 2
  MaxMoves = 2
  MaxEntries = 2
INVARIANTS PurchasesAddUp StockIsCounted
PROPERTY Calibrated
CHECK_DEADLOCK FALSE
