\* One worker, no faults, every route of the house: the server is the desk.
SYMMETRY Interchangeable
SPECIFICATION Spec
CONSTANTS
  NULL = NULL
  DELETED = DELETED
  Worker = {w1}
  TableId = {t1}
  OrderId = {o1, o2}
  ItemId = {i1}
  ProductId = {p1}
  Price = {0, 1}
  Quantity = {1, 2}
  SeedTables = {}
  SeedProducts = {}
  Endpoint <- AllEndpoints
  Faults = FALSE
INVARIANT TypeOK
PROPERTIES ImplementsDesk PatchKeepsOtherFields NotesKeepQuantity
