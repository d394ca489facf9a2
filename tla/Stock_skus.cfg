\* Two SKUs and unowned stock over three batches; no voids and no inspector.
SPECIFICATION Spec
CONSTANTS
  Batch = {1, 2, 3}
  NoBatch = 0
  Sku = {s1, s2}
  NoSku = NoSku
  Label = {t1}
  NoLabel = NoLabel
  FefoRank <- LastExpiresFirst
  BuyRank <- InOrder
  MaxQty = 2
  MaxRecords = 5
  VoidKinds = {}
  LabelsCollide = FALSE
  SupplierReturns = FALSE
  Inspectors = {}
  Idle = Idle
INVARIANT SkuSoldCovered
SYMMETRY Alike
CHECK_DEADLOCK FALSE
