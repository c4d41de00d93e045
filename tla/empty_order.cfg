\* A sent order without items, drawn by one screen.
SPECIFICATION BoardSpec
CONSTANTS
  NULL = NULL
  DELETED = DELETED
  Worker = {w1}
  TableId = {t1}
  OrderId = {o1}
  ItemId = {i1}
  ProductId = {p1}
  Price = {1}
  Quantity = {1}
  SeedTables = {t1}
  SeedProducts = {p1}
  Screen = {s1}
  Endpoint <- BoardEndpoints
  Faults = FALSE
INVARIANT DrawnOrdersHaveItems
