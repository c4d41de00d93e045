------------------------- MODULE Repository_proofs -------------------------
(***************************************************************************)
(* What every repository method preserves: the schema and the foreign key  *)
(* of order_items.  Both the server and the desk are built from these      *)
(* methods, and their proofs cite these lemmas.                            *)
(***************************************************************************)
EXTENDS Repository, TLAPS

\* A row that exists is a row of its table's type.
LEMMA RowsExist ==
  ASSUME SchemaOK
  PROVE  /\ \A o \in OrderId : orders[o] # NULL => orders[o] \in OrderRow
         /\ \A i \in ItemId : Exists(items[i]) => items[i] \in ItemRow
         /\ \A p \in ProductId : Exists(products[p]) => products[p] \in ProductRow
BY DEF SchemaOK, Exists

\* What GetItemByID returns, when it returns a row, is an item of the order.
LEMMA GetItemRow ==
  ASSUME SchemaOK, NEW o, NEW i \in ItemId, GetItemByID(o, i) # NULL
  PROVE  i \in ItemsOf(o) /\ items[i] = GetItemByID(o, i) /\ items[i] \in ItemRow
BY RowsExist DEF GetItemByID, ItemsOf

LEMMA TablesCreateSchema ==
  ASSUME SchemaOK, NEW t \in TableId, TablesCreate(t)
  PROVE  SchemaOK'
BY DEF SchemaOK, TablesCreate, TableStatus, OrderRow, ItemRow, ProductRow

LEMMA TablesUpdateStatusSchema ==
  ASSUME SchemaOK, NEW t \in TableId, NEW status \in TableStatus, TablesUpdateStatus(t, status)
  PROVE  SchemaOK'
BY DEF SchemaOK, TablesUpdateStatus, OrderRow, ItemRow, ProductRow

LEMMA OrdersCreateSchema ==
  ASSUME SchemaOK, NEW o \in OrderId, NEW t \in TableId, OrdersCreate(o, t)
  PROVE  SchemaOK'
BY DEF SchemaOK, OrdersCreate, OrderRow, OrderStatus, ItemRow, ProductRow

LEMMA OrdersUpdateStatusSchema ==
  ASSUME SchemaOK, NEW o \in OrderId, orders[o] # NULL, NEW status \in OrderStatus,
         OrdersUpdateStatus(o, status)
  PROVE  SchemaOK'
<1>1. orders[o] \in OrderRow
  BY RowsExist
<1>2. orders' \in [OrderId -> OrderRow \cup {NULL}]
  BY <1>1 DEF SchemaOK, OrdersUpdateStatus, OrderRow
<1> QED
  BY <1>2 DEF SchemaOK, OrdersUpdateStatus, ItemRow, ProductRow, OrderRow

LEMMA AddItemSchema ==
  ASSUME SchemaOK, NEW i \in ItemId, NEW o \in OrderId, NEW p \in ProductId,
         NEW quantity \in Quantity, NEW price \in Price, AddItem(i, o, p, quantity, price)
  PROVE  SchemaOK'
<1>1. [order |-> o, product |-> p, quantity |-> quantity, price |-> price,
       status |-> "pending"] \in ItemRow
  BY DEF ItemRow, ItemStatus
<1>2. items' \in [ItemId -> ItemRow \cup {NULL, DELETED}]
  BY <1>1 DEF SchemaOK, AddItem
<1> QED
  BY <1>2 DEF SchemaOK, AddItem

\* An update of one column of an item leaves the others, and the other items.
LEMMA UpdateItemRow ==
  ASSUME SchemaOK, NEW i \in ItemId, Exists(items[i]), NEW quantity \in Quantity,
         UpdateItem(i, quantity)
  PROVE  /\ items'[i] \in ItemRow /\ Exists(items'[i])
         /\ items'[i].order = items[i].order /\ items'[i].product = items[i].product
         /\ items'[i].status = items[i].status
         /\ \A j \in ItemId \ {i} : items'[j] = items[j]
<1>1. items[i] \in ItemRow
  BY RowsExist
<1>2. items'[i] = [items[i] EXCEPT !.quantity = quantity]
  BY DEF SchemaOK, UpdateItem
<1>3. [items[i] EXCEPT !.quantity = quantity] \in ItemRow
  BY <1>1 DEF ItemRow
<1>4. Exists(items'[i])
  BY <1>2, <1>3, MarkersAreNoValues DEF Exists
<1>5. \A j \in ItemId \ {i} : items'[j] = items[j]
  BY DEF SchemaOK, UpdateItem
<1> QED
  BY <1>1, <1>2, <1>3, <1>4, <1>5 DEF ItemRow

LEMMA UpdateItemSchema ==
  ASSUME SchemaOK, NEW i \in ItemId, Exists(items[i]), NEW quantity \in Quantity,
         UpdateItem(i, quantity)
  PROVE  SchemaOK'
<1>1. items' \in [ItemId -> ItemRow \cup {NULL, DELETED}]
  BY UpdateItemRow DEF SchemaOK, UpdateItem
<1> QED
  BY <1>1 DEF SchemaOK, UpdateItem

LEMMA DeleteItemSchema ==
  ASSUME SchemaOK, NEW i \in ItemId, DeleteItem(i)
  PROVE  SchemaOK'
BY DEF SchemaOK, DeleteItem

LEMMA UpdateItemStatusRow ==
  ASSUME SchemaOK, NEW i \in ItemId, Exists(items[i]), NEW status \in ItemStatus,
         UpdateItemStatus(i, status)
  PROVE  /\ items'[i] \in ItemRow /\ Exists(items'[i])
         /\ items'[i].order = items[i].order /\ items'[i].product = items[i].product
         /\ items'[i].status = status
         /\ \A j \in ItemId \ {i} : items'[j] = items[j]
<1>1. items[i] \in ItemRow
  BY RowsExist
<1>2. items'[i] = [items[i] EXCEPT !.status = status]
  BY DEF SchemaOK, UpdateItemStatus
<1>3. [items[i] EXCEPT !.status = status] \in ItemRow
  BY <1>1 DEF ItemRow
<1>4. Exists(items'[i])
  BY <1>2, <1>3, MarkersAreNoValues DEF Exists
<1>5. \A j \in ItemId \ {i} : items'[j] = items[j]
  BY DEF SchemaOK, UpdateItemStatus
<1> QED
  BY <1>1, <1>2, <1>3, <1>4, <1>5 DEF ItemRow

LEMMA UpdateItemStatusSchema ==
  ASSUME SchemaOK, NEW i \in ItemId, Exists(items[i]), NEW status \in ItemStatus,
         UpdateItemStatus(i, status)
  PROVE  SchemaOK'
<1>1. items' \in [ItemId -> ItemRow \cup {NULL, DELETED}]
  BY UpdateItemStatusRow DEF SchemaOK, UpdateItemStatus
<1> QED
  BY <1>1 DEF SchemaOK, UpdateItemStatus

LEMMA ProductsCreateSchema ==
  ASSUME SchemaOK, NEW p \in ProductId, NEW row \in ProductRow, ProductsCreate(p, row)
  PROVE  SchemaOK'
BY DEF SchemaOK, ProductsCreate

LEMMA ProductsUpdateSchema ==
  ASSUME SchemaOK, NEW p \in ProductId, NEW row \in ProductRow, ProductsUpdate(p, row)
  PROVE  SchemaOK'
BY DEF SchemaOK, ProductsUpdate

LEMMA ProductsDeleteSchema ==
  ASSUME SchemaOK, NEW p \in ProductId, NEW doomed, ProductsDelete(p, doomed)
  PROVE  SchemaOK'
BY DEF SchemaOK, ProductsDelete

-----------------------------------------------------------------------------
(* The foreign key. *)

\* No method that leaves items and products alone can break it.
LEMMA KeyUnchanged ==
  ASSUME ItemsHaveProducts, UNCHANGED <<items, products>>
  PROVE  ItemsHaveProducts'
BY DEF ItemsHaveProducts

\* A method that only takes items away, or changes their other columns.
LEMMA KeyKept ==
  ASSUME ItemsHaveProducts, UNCHANGED products,
         \A i \in ItemId : Exists(items'[i]) =>
                             Exists(items[i]) /\ items'[i].product = items[i].product
  PROVE  ItemsHaveProducts'
BY DEF ItemsHaveProducts

LEMMA AddItemKey ==
  ASSUME SchemaOK, ItemsHaveProducts, NEW i \in ItemId, NEW o, NEW p \in ProductId,
         NEW quantity, NEW price, AddItem(i, o, p, quantity, price)
  PROVE  ItemsHaveProducts'
<1>1. items'[i].product = p /\ Exists(products'[p])
  BY DEF AddItem, SchemaOK
<1>2. \A j \in ItemId \ {i} : items'[j] = items[j]
  BY DEF AddItem, SchemaOK
<1>3. products' = products
  BY DEF AddItem
<1> QED
  BY <1>1, <1>2, <1>3 DEF ItemsHaveProducts

LEMMA UpdateItemKey ==
  ASSUME SchemaOK, ItemsHaveProducts, NEW i \in ItemId, Exists(items[i]),
         NEW quantity \in Quantity, UpdateItem(i, quantity)
  PROVE  ItemsHaveProducts'
BY UpdateItemRow, KeyKept DEF UpdateItem

LEMMA UpdateItemStatusKey ==
  ASSUME SchemaOK, ItemsHaveProducts, NEW i \in ItemId, Exists(items[i]),
         NEW status \in ItemStatus, UpdateItemStatus(i, status)
  PROVE  ItemsHaveProducts'
BY UpdateItemStatusRow, KeyKept DEF UpdateItemStatus

LEMMA DeleteItemKey ==
  ASSUME SchemaOK, ItemsHaveProducts, NEW i \in ItemId, DeleteItem(i)
  PROVE  ItemsHaveProducts'
<1>1. \A j \in ItemId : items'[j] = items[j] \/ ~Exists(items'[j])
  BY DEF DeleteItem, SchemaOK, Exists
<1> QED
  BY <1>1, KeyKept DEF DeleteItem

LEMMA ProductsCreateKey ==
  ASSUME SchemaOK, ItemsHaveProducts, NEW p \in ProductId, NEW row \in ProductRow,
         ProductsCreate(p, row)
  PROVE  ItemsHaveProducts'
<1>1. Exists(row)
  BY MarkersAreNoValues DEF Exists
<1>2. \A q \in ProductId : Exists(products[q]) => Exists(products'[q])
  BY <1>1 DEF ProductsCreate, SchemaOK
<1>3. \A i \in ItemId : Exists(items[i]) => items[i].product \in ProductId
  BY RowsExist DEF ItemRow
<1> QED
  BY <1>2, <1>3 DEF ProductsCreate, ItemsHaveProducts

LEMMA ProductsUpdateKey ==
  ASSUME SchemaOK, ItemsHaveProducts, NEW p \in ProductId, NEW row \in ProductRow,
         ProductsUpdate(p, row)
  PROVE  ItemsHaveProducts'
<1>1. Exists(row)
  BY MarkersAreNoValues DEF Exists
<1>2. \A q \in ProductId : Exists(products[q]) => Exists(products'[q])
  BY <1>1 DEF ProductsUpdate, SchemaOK
<1>3. \A i \in ItemId : Exists(items[i]) => items[i].product \in ProductId
  BY RowsExist DEF ItemRow
<1> QED
  BY <1>2, <1>3 DEF ProductsUpdate, ItemsHaveProducts

\* The one that could: the items left behind all have another product.
LEMMA ProductsDeleteKey ==
  ASSUME SchemaOK, ItemsHaveProducts, NEW p \in ProductId, NEW doomed,
         ProductsDelete(p, doomed)
  PROVE  ItemsHaveProducts'
<1> SUFFICES ASSUME NEW i \in ItemId, Exists(items'[i])
             PROVE  Exists(products'[items'[i].product])
  BY DEF ItemsHaveProducts
<1>1. i \notin doomed /\ items'[i] = items[i]
  BY DEF ProductsDelete, Exists
<1>2. items[i].product # p
  BY <1>1 DEF ProductsDelete, ItemsWithProduct
<1>3. items[i].product \in ProductId
  BY <1>1, RowsExist DEF ItemRow
<1>4. products'[items[i].product] = products[items[i].product]
  BY <1>2, <1>3 DEF ProductsDelete, SchemaOK
<1> QED
  BY <1>1, <1>4 DEF ItemsHaveProducts
=============================================================================
