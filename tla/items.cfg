\* Two workers change, send and cook one order and delete its product, and any
\* statement may fail.  No symmetry: one property is a liveness property.
SPECIFICATION FairSpec
CONSTANTS
  NULL = NULL
  DELETED = DELETED
  Worker = {w1, w2}
  TableId = {t1}
  OrderId = {o1}
  ItemId = {i1}
  ProductId = {p1}
  Price = {1}
  Quantity = {1, 2}
  SeedTables = {t1}
  SeedProducts = {p1}
  Endpoint <- OrderEndpoints
  Faults = TRUE
INVARIANTS TypeOK ItemsHaveProducts RefusalLeavesNoTrace
PROPERTIES LockedOrderStaysLocked OrderStatusPath ItemStatusPath
  EveryRequestAnswered
