\* One worker: deleting a product changes the orders that were sent.
SPECIFICATION Spec
CONSTANTS
  NULL = NULL
  DELETED = DELETED
  Worker = {w1}
  TableId = {t1}
  OrderId = {o1}
  ItemId = {i1}
  ProductId = {p1}
  Price = {1}
  Quantity = {1}
  SeedTables = {t1}
  SeedProducts = {p1}
  Endpoint <- ItemEndpoints
  Faults = FALSE
PROPERTY ItemsChangeOnlyWhileOpen
