-------------------------- MODULE MCRestaurantAPI --------------------------
(* Instances of RestaurantAPI for TLC: the routes each run calls, the      *)
(* bounds on rows and workers, and the symmetry of the identifiers.        *)
EXTENDS RestaurantAPI, TLC

\* One order and its items, while waiters change them, the order is sent and
\* a product is deleted.
ItemEndpoints ==
  {"orders.Create", "orders.AddItem", "orders.UpdateItem", "orders.DeleteItem",
   "orders.UpdateStatus", "products.Delete"}

\* One order on its way through the kitchen.
KitchenEndpoints ==
  {"orders.Create", "orders.AddItem", "orders.DeleteItem", "orders.UpdateStatus",
   "kitchen.UpdateItemStatus"}

\* Every route that writes to an order or its items.
OrderEndpoints == ItemEndpoints \cup KitchenEndpoints

\* Every route that writes to the relations of the desk.
AllEndpoints ==
  OrderEndpoints \cup {"products.Create", "products.Update", "tables.Create", "tables.UpdateStatus"}

\* Identifiers are interchangeable: UUIDs, table numbers and goroutines.
Interchangeable ==
  Permutations(Worker) \cup Permutations(OrderId) \cup Permutations(ItemId)
  \cup Permutations(TableId \ SeedTables) \cup Permutations(SeedTables)
  \cup Permutations(ProductId \ SeedProducts) \cup Permutations(SeedProducts)
=============================================================================
