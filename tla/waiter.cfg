\* One waiter with two orders and two workers.  No symmetry: one property is a
\* liveness property; VIEW leaves out what nothing looks at any more.
SPECIFICATION FairWaiterSpec
VIEW Looked
CONSTANTS
  NULL = NULL
  DELETED = DELETED
  Worker = {w1, w2}
  TableId = {t1}
  OrderId = {o1, o2}
  ItemId = {i1}
  ProductId = {p1}
  Price = {1}
  Quantity = {1}
  SeedTables = {t1}
  SeedProducts = {p1}
  Waiter = {d1}
  Endpoint <- WaiterEndpoints
  Faults = TRUE
INVARIANTS WaiterTypeOK LockedCartIsLocked RestingCartIsTrue
PROPERTIES SentEmptyOnlyAfterRemoval LostOrderStaysLost SpinnerEnds
\* When both orders are lost and nothing is under way, nothing is left to do.
CHECK_DEADLOCK FALSE
