\* The desk itself, with nobody setting a table by hand.
SPECIFICATION Spec
CONSTANTS
  NULL = NULL
  DELETED = DELETED
  TableId = {t1, t2}
  OrderId = {o1, o2}
  ItemId = {i1, i2}
  ProductId = {p1, p2}
  Price = {1}
  Quantity = {1}
  FirstTables = {t1}
  FirstProducts = {p1}
SYMMETRY Interchangeable
INVARIANTS SchemaOK ClosedMeansReady TableFollowsOrders
PROPERTY EndedOrderIsFinal
\* All orders ended, all items gone and the product deleted: nothing is left.
CHECK_DEADLOCK FALSE
