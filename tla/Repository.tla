----------------------------- MODULE Repository -----------------------------
(***************************************************************************)
(* The PostgreSQL schema and the repository methods.  One operator per     *)
(* method of the three repositories: a read returns the row (or NULL for   *)
(* pgx.ErrNoRows), a write is an action on the relations it changes.       *)
(* Every method is one auto-committed SQL statement, so one atomic step;   *)
(* ProductsDelete is the COMMIT of the only transaction of the program.    *)
(*                                                                         *)
(* Names, notes, categories and time stamps are left out: no condition of  *)
(* the program depends on them.  A table is identified by its number,      *)
(* which is UNIQUE and never changes.  Rows of orders and tables are never *)
(* deleted; rows of order_items and products are, and since ids are random *)
(* UUIDs a deleted id is never issued again: it stays DELETED.             *)
(***************************************************************************)
EXTENDS RestaurantModel, Absent

CONSTANTS TableId, OrderId, ItemId, ProductId,
          Price,        \* the product prices, in cents
          Quantity,     \* the quantities of an order item
          DELETED       \* a row that was deleted

VARIABLES tables, orders, items, products

db == <<tables, orders, items, products>>

OrderRow   == [table : TableId, status : OrderStatus]
ItemRow    == [order : OrderId, product : ProductId, quantity : Quantity,
               price : Price, status : ItemStatus]
ProductRow == [price : Price, available : BOOLEAN]

\* The CHECK constraints of the schema: price >= 0, quantity > 0.
ASSUME CheckConstraints == Price \subseteq Nat /\ Quantity \subseteq Nat \ {0}

\* The markers are no rows and no field values.
ASSUME MarkersAreNoValues ==
  /\ NULL # DELETED
  /\ \A m \in {NULL, DELETED} :
       /\ m \notin TableStatus \cup OrderStatus \cup ItemStatus
       /\ m \notin TableId \cup OrderId \cup ItemId \cup ProductId
       /\ m \notin OrderRow /\ m \notin ItemRow /\ m \notin ProductRow
       /\ m \notin Int /\ m \notin BOOLEAN

Exists(row) == row # NULL /\ row # DELETED

\* Type invariant of the database: column types and CHECK constraints.
SchemaOK ==
  /\ tables   \in [TableId -> TableStatus \cup {NULL}]
  /\ orders   \in [OrderId -> OrderRow \cup {NULL}]
  /\ items    \in [ItemId -> ItemRow \cup {NULL, DELETED}]
  /\ products \in [ProductId -> ProductRow \cup {NULL, DELETED}]

(* The foreign key of order_items.  Deleting a product races with requests *)
(* that add it to an order: no item is left without its product, whichever *)
(* comes first.                                                            *)
ItemsHaveProducts ==
  \A i \in ItemId : Exists(items[i]) => Exists(products[items[i].product])

-----------------------------------------------------------------------------
(* TablePGRepository *)

TablesGetByID(t) == tables[t]

\* INSERT ... number UNIQUE; the status column defaults to 'free'.
TablesCreate(t) ==
  /\ tables[t] = NULL
  /\ tables' = [tables EXCEPT ![t] = "free"]
  /\ UNCHANGED <<orders, items, products>>

TablesUpdateStatus(t, status) ==
  /\ tables[t] # NULL
  /\ tables' = [tables EXCEPT ![t] = status]
  /\ UNCHANGED <<orders, items, products>>

-----------------------------------------------------------------------------
(* OrderPGRepository *)

OrdersGetByID(o) == orders[o]

OrdersCreate(o, t) ==
  /\ orders[o] = NULL
  /\ orders' = [orders EXCEPT ![o] = [table |-> t, status |-> "open"]]
  /\ UNCHANGED <<tables, items, products>>

OrdersUpdateStatus(o, status) ==
  /\ orders' = [orders EXCEPT ![o].status = status]
  /\ UNCHANGED <<tables, items, products>>

ItemsOf(o) == {i \in ItemId : Exists(items[i]) /\ items[i].order = o}

GetItemByID(o, i) == IF i \in ItemsOf(o) THEN items[i] ELSE NULL

\* The foreign key order_items.product_id refuses a product that is gone.
AddItem(i, o, p, quantity, price) ==
  /\ items[i] = NULL
  /\ Exists(products[p])
  /\ items' = [items EXCEPT ![i] = [order |-> o, product |-> p,
                 quantity |-> quantity, price |-> price, status |-> "pending"]]
  /\ UNCHANGED <<tables, orders, products>>

UpdateItem(i, quantity) ==
  /\ items' = [items EXCEPT ![i].quantity = quantity]
  /\ UNCHANGED <<tables, orders, products>>

DeleteItem(i) ==
  /\ items' = [items EXCEPT ![i] = DELETED]
  /\ UNCHANGED <<tables, orders, products>>

UpdateItemStatus(i, status) ==
  /\ items' = [items EXCEPT ![i].status = status]
  /\ UNCHANGED <<tables, orders, products>>

\* CountNonReadyItems, of which the program only asks whether it is > 0.
NonReadyItems(o) == {i \in ItemsOf(o) : items[i].status # "ready"}

HasActiveOrdersByTable(t) ==
  \E o \in OrderId : /\ orders[o] # NULL
                     /\ orders[o].table = t
                     /\ orders[o].status \in {"open", "sent"}

-----------------------------------------------------------------------------
(* ProductPGRepository *)

ProductsGetByID(p) == IF Exists(products[p]) THEN products[p] ELSE NULL

ProductsCreate(p, row) ==
  /\ products[p] = NULL
  /\ products' = [products EXCEPT ![p] = row]
  /\ UNCHANGED <<tables, orders, items>>

ProductsUpdate(p, row) ==
  /\ products' = [products EXCEPT ![p] = row]
  /\ UNCHANGED <<tables, orders, items>>

ItemsWithProduct(p) == {i \in ItemId : Exists(items[i]) /\ items[i].product = p}

\* Mutant: a schema without the foreign key.
ProductsDelete_NoForeignKey(p, doomed) ==
  /\ products' = [products EXCEPT ![p] = DELETED]
  /\ items' = [i \in ItemId |-> IF i \in doomed THEN DELETED ELSE items[i]]
  /\ UNCHANGED <<tables, orders>>

\* The second DELETE and the COMMIT.  The foreign key refuses the delete when
\* an item outside `doomed`, the set the first DELETE took, uses the product.
ProductsDelete(p, doomed) ==
  /\ ItemsWithProduct(p) \subseteq doomed
  /\ products' = [products EXCEPT ![p] = DELETED]
  /\ items' = [i \in ItemId |-> IF i \in doomed THEN DELETED ELSE items[i]]
  /\ UNCHANGED <<tables, orders>>
=============================================================================
