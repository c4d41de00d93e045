\* One screen and one order with one item, two workers, any fault.  No
\* symmetry: one of the properties is a liveness property.
SPECIFICATION FairBoardSpec
CONSTANTS
  NULL = NULL
  DELETED = DELETED
  Worker = {w1, w2}
  TableId = {t1}
  OrderId = {o1}
  ItemId = {i1}
  ProductId = {p1}
  Price = {1}
  Quantity = {1}
  SeedTables = {t1}
  SeedProducts = {p1}
  Screen = {s1}
  Endpoint <- BoardEndpoints
  Faults = TRUE
INVARIANTS
  BoardTypeOK
  NoOpenOrderDrawn
  DrawnProgressIsReal
PROPERTIES DrawnItemsStayStarted BoardCatchesUp
