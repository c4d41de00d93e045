\* One admin, two workers, and one product that is created, edited and deleted.
SPECIFICATION ScreenSpec
CONSTANTS
  NULL = NULL
  DELETED = DELETED
  Worker = {w1, w2}
  TableId = {t1}
  OrderId = {o1}
  ItemId = {i1}
  ProductId = {p1}
  Price = {1}
  Quantity = {1}
  SeedTables = {t1}
  SeedProducts = {}
  Admin = {a1}
  Endpoint <- FormEndpoints
  Faults = TRUE
SYMMETRY Goroutines
INVARIANTS ScreenTypeOK AcknowledgedSaveStays RestingListShowsSaves
PROPERTY FormClosedByOwnAnswer
