\* The desks at the counter and behind it; larger constants are in MCCounter.
SPECIFICATION AllSpec
CONSTANTS
  Batch = {1, 2, 3}
  MaxQty = 3
  Supplier = {1, 2}
  Nobody = nobody
  Advice = {1, 2}
  MaxItems = 2
  MaxUnits = 2
  MaxKeys = 2
  MaxPosts = 2
  MaxLosses = 1
  Together <- Buttons
  Address = {"a1", "a2"}
  Policies <- Rules
  MaxTogether = 2
  Sku = {p1}
  Prices = {2, 5}
  Forms <- Filled
  Delivery <- Delivered
  MaxOffers = 2
  MaxDeliveries = 2
INVARIANTS NothingLost WalkIsTheSplit BuyingHeeds LimitsAreFair RankingIsFair
CHECK_DEADLOCK FALSE
