\* An item is added between the count of the items and the close.
SPECIFICATION Spec
CONSTANTS
  NULL = NULL
  DELETED = DELETED
  Worker = {w1, w2}
  TableId = {t1}
  OrderId = {o1}
  ItemId = {i1}
  ProductId = {p1}
  Price = {1}
  Quantity = {1}
  SeedTables = {t1}
  SeedProducts = {p1}
  Endpoint <- KitchenEndpoints
  Faults = FALSE
INVARIANT ClosedOrderIsReady
