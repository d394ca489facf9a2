\* Two batches, four ledger rows, one food-safety inspector.
SPECIFICATION Spec
CONSTANTS
  Batch = {1, 2}
  NoBatch = 0
  Sku = {}
  NoSku = NoSku
  Label = {t1, t2}
  NoLabel = NoLabel
  FefoRank <- LastExpiresFirst
  BuyRank <- InOrder
  MaxQty = 2
  MaxRecords = 4
  VoidKinds = {"sale", "purchase", "offline_purchase", "purchase_return", "recall", "destroy"}
  LabelsCollide = TRUE
  SupplierReturns = TRUE
  Inspectors = {i1}
  Idle = Idle
INVARIANT BatchBounds
INVARIANT SoldGoodsCovered
INVARIANT NoPhantomStock
PROPERTY NeverRestocked
SYMMETRY Alike
CHECK_DEADLOCK FALSE
