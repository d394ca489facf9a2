\* Two suppliers, a page of one row, five sets of buttons.
SPECIFICATION PageSpec
CONSTANTS
  p1 = p1
  p2 = p2
  Supplier = {1, 2}
  Sku = {p1, p2}
  Prices = {2}
  Sorts = {"value", "price"}
  Forms <- AllForms
  Delivery <- Deliveries
  Setups <- AllSetups
  Matching = {2}
  Limit = 1
  MaxOffers = 2
  MaxDeliveries = 1
  MaxCalls = 2
  MaxAsked = 3
  MaxFaults = 1
INVARIANT ComparedIsCurrent
PROPERTY SpinnersStop
CHECK_DEADLOCK FALSE
