-------------------------- MODULE OrderDesk_proofs --------------------------
(***************************************************************************)
(* Theorems about the desk, for any number of tables, orders, items and    *)
(* products.  By the refinement (DeskRefinement_proofs) they are what the  *)
(* server keeps while its requests do not interleave; RowsInv and Final    *)
(* also when they fail half way.                                           *)
(***************************************************************************)
EXTENDS OrderDesk, Repository_proofs

\* Every order is for a table there is.
OrdersHaveTables ==
  \A o \in OrderId : orders[o] # NULL => tables[orders[o].table] # NULL

\* ClosedMeansReady needs the schema only: a ready item never changes status
\* and only an open order gets new items.
RowsInv == SchemaOK /\ ItemsHaveProducts /\ ClosedMeansReady

IInv == RowsInv /\ OrdersHaveTables

-----------------------------------------------------------------------------
(* The rows. *)

\* Sending and ending an order write its row and its table's; nothing else moves.
WriteOrder(o, status, to) ==
  /\ orders' = [orders EXCEPT ![o].status = status]
  /\ tables' = [tables EXCEPT ![orders[o].table] = to]
  /\ UNCHANGED <<items, products>>

LEMMA WriteOrderSchema ==
  ASSUME SchemaOK, NEW o \in OrderId, orders[o] # NULL,
         NEW status \in OrderStatus, NEW to \in TableStatus \cup {NULL},
         WriteOrder(o, status, to)
  PROVE  /\ SchemaOK'
         /\ orders[o] \in OrderRow /\ orders'[o] \in OrderRow /\ orders'[o] # NULL
         /\ orders'[o].status = status /\ orders'[o].table = orders[o].table
         /\ \A p \in OrderId \ {o} : orders'[p] = orders[p]
         /\ tables'[orders[o].table] = to
         /\ \A t \in TableId \ {orders[o].table} : tables'[t] = tables[t]
<1>1. orders[o] \in OrderRow
  BY RowsExist
<1>2. [orders[o] EXCEPT !.status = status] \in OrderRow
  BY <1>1 DEF OrderRow
<1>3. /\ orders'[o] = [orders[o] EXCEPT !.status = status]
      /\ \A p \in OrderId \ {o} : orders'[p] = orders[p]
      /\ orders' \in [OrderId -> OrderRow \cup {NULL}]
  BY <1>2 DEF SchemaOK, WriteOrder
<1>4. orders[o].table \in TableId
  BY <1>1 DEF OrderRow
<1>5. /\ tables' \in [TableId -> TableStatus \cup {NULL}]
      /\ tables'[orders[o].table] = to
      /\ \A t \in TableId \ {orders[o].table} : tables'[t] = tables[t]
  BY <1>4 DEF SchemaOK, WriteOrder
<1>6. SchemaOK'
  BY <1>3, <1>5 DEF SchemaOK, WriteOrder
<1>7. orders'[o].status = status /\ orders'[o].table = orders[o].table
  BY <1>1, <1>3 DEF OrderRow
<1>8. orders'[o] # NULL
  BY <1>2, <1>3, MarkersAreNoValues
<1> QED
  BY <1>1, <1>2, <1>3, <1>5, <1>6, <1>7, <1>8

LEMMA PlaceOrderRows ==
  ASSUME SchemaOK, NEW o \in OrderId, NEW t \in TableId, PlaceOrder(o, t)
  PROVE  /\ SchemaOK'
         /\ orders'[o] = [table |-> t, status |-> "open"] /\ orders'[o] # NULL
         /\ \A p \in OrderId \ {o} : orders'[p] = orders[p]
         /\ tables'[t] = "occupied" /\ tables'[t] # NULL
         /\ \A u \in TableId \ {t} : tables'[u] = tables[u]
<1>1. [table |-> t, status |-> "open"] \in OrderRow
  BY DEF OrderRow, OrderStatus
<1>2. /\ orders' \in [OrderId -> OrderRow \cup {NULL}]
      /\ orders'[o] = [table |-> t, status |-> "open"]
      /\ \A p \in OrderId \ {o} : orders'[p] = orders[p]
  BY <1>1 DEF SchemaOK, PlaceOrder
<1>3. /\ tables' \in [TableId -> TableStatus \cup {NULL}]
      /\ tables'[t] = "occupied"
      /\ \A u \in TableId \ {t} : tables'[u] = tables[u]
  BY DEF SchemaOK, PlaceOrder, TableStatus
<1>4. SchemaOK'
  BY <1>2, <1>3 DEF SchemaOK, PlaceOrder
<1>5. orders'[o] # NULL
  BY <1>1, <1>2, MarkersAreNoValues
<1>6. "occupied" # NULL
  BY MarkersAreNoValues DEF TableStatus
<1> QED
  BY <1>2, <1>3, <1>4, <1>5, <1>6

\* What EndOrder makes of the table.
LEMMA EndOrderRows ==
  ASSUME SchemaOK, NEW o \in OrderId, orders[o] # NULL, NEW status \in OrderStatus,
         EndOrder(o, status)
  PROVE  LET t == orders[o].table
             to == IF HasActiveOrdersByTable(t)' THEN tables[t] ELSE "free"
         IN  t \in TableId /\ to \in TableStatus \cup {NULL} /\ WriteOrder(o, status, to)
<1>1. orders[o].table \in TableId
  BY RowsExist DEF OrderRow
<1>2. tables[orders[o].table] \in TableStatus \cup {NULL}
  BY <1>1 DEF SchemaOK
<1> QED
  BY <1>1, <1>2 DEF EndOrder, WriteOrder, SchemaOK, TableStatus

-----------------------------------------------------------------------------
(* What every step of the desk does. *)

Final ==
  \A o \in OrderId :
    orders[o] # NULL /\ orders[o].status \in {"closed", "cancelled"} =>
      /\ orders'[o] = orders[o]
      /\ ItemsOf(o)' \subseteq ItemsOf(o)
      /\ orders[o].status = "closed" =>
           \A i \in ItemsOf(o)' : items'[i] = items[i]

ReadyWhenClosed ==
  \A o \in OrderId :
    orders'[o] # NULL /\ orders'[o].status = "closed" =>
      \/ orders[o] # NULL /\ orders[o].status = "closed"
      \/ NonReadyItems(o) = {} /\ UNCHANGED items

\* The tables are a matter of their own: the server lets go of one when a
\* request ends half way.
GoodStep ==
  /\ SchemaOK' /\ ItemsHaveProducts' /\ Final /\ ReadyWhenClosed
  /\ OrdersHaveTables => OrdersHaveTables'

LEMMA GoodStepKeeps ==
  ASSUME RowsInv, GoodStep
  PROVE  RowsInv'
<1>1. ASSUME NEW o \in OrderId, orders'[o] # NULL, orders'[o].status = "closed"
      PROVE  NonReadyItems(o)' = {}
  <2>1. CASE orders[o] # NULL /\ orders[o].status = "closed"
    BY <2>1 DEF RowsInv, ClosedMeansReady, GoodStep, Final, NonReadyItems
  <2>2. CASE NonReadyItems(o) = {} /\ UNCHANGED items
    BY <2>2 DEF NonReadyItems, ItemsOf
  <2> QED
    BY <1>1, <2>1, <2>2 DEF GoodStep, ReadyWhenClosed
<1> QED
  BY <1>1 DEF RowsInv, GoodStep, ClosedMeansReady

LEMMA GoodStepKeepsAll ==
  ASSUME IInv, GoodStep
  PROVE  IInv'
BY GoodStepKeeps DEF IInv, GoodStep

\* A step that leaves the orders and the items alone is a good one.
LEMMA HouseStep ==
  ASSUME RowsInv, SchemaOK', ItemsHaveProducts', UNCHANGED <<orders, items>>,
         \A t \in TableId : tables[t] # NULL => tables'[t] # NULL
  PROVE  GoodStep
<1>1. OrdersHaveTables => OrdersHaveTables'
  BY RowsExist DEF RowsInv, OrdersHaveTables, OrderRow
<1>2. Final /\ ReadyWhenClosed
  BY DEF Final, ReadyWhenClosed, ItemsOf, Exists
<1> QED
  BY <1>1, <1>2 DEF GoodStep

\* A step that writes items is a good one if it leaves those of ended orders.
LEMMA ItemStep ==
  ASSUME RowsInv, SchemaOK', ItemsHaveProducts', UNCHANGED <<orders, tables>>,
         \A o \in OrderId :
           orders[o] # NULL /\ orders[o].status \in {"closed", "cancelled"} =>
             \A i \in ItemsOf(o)' :
               i \in ItemsOf(o) /\ (orders[o].status = "closed" => items'[i] = items[i])
  PROVE  GoodStep
<1>1. OrdersHaveTables => OrdersHaveTables'
  BY DEF RowsInv, OrdersHaveTables
<1>2. Final /\ ReadyWhenClosed
  BY DEF Final, ReadyWhenClosed
<1> QED
  BY <1>1, <1>2 DEF GoodStep

-----------------------------------------------------------------------------
(* One lemma for each kind of step. *)

LEMMA PlaceOrderGood ==
  ASSUME RowsInv, NEW o \in OrderId, NEW t \in TableId, PlaceOrder(o, t)
  PROVE  GoodStep
<1>1. /\ SchemaOK'
      /\ orders'[o] = [table |-> t, status |-> "open"] /\ orders[o] = NULL
      /\ \A p \in OrderId \ {o} : orders'[p] = orders[p]
      /\ tables'[t] # NULL /\ \A u \in TableId \ {t} : tables'[u] = tables[u]
      /\ UNCHANGED <<items, products>>
  BY PlaceOrderRows DEF RowsInv, PlaceOrder
<1>2. ItemsHaveProducts'
  BY <1>1, KeyUnchanged DEF RowsInv
<1>3. OrdersHaveTables => OrdersHaveTables'
  <2>1. \A p \in OrderId : orders[p] # NULL => orders[p].table \in TableId
    BY RowsExist DEF RowsInv, OrderRow
  <2> QED
    BY <1>1, <2>1 DEF RowsInv, OrdersHaveTables
<1>4. Final
  BY <1>1 DEF Final, ItemsOf, Exists
<1>5. ReadyWhenClosed
  <2>1. orders'[o].status = "open"
    BY <1>1
  <2>2. \A p \in OrderId \ {o} : orders'[p] = orders[p]
    BY <1>1
  <2> QED
    BY <2>1, <2>2 DEF ReadyWhenClosed
<1> QED
  BY <1>1, <1>2, <1>3, <1>4, <1>5 DEF GoodStep

\* Sending an order and ending one.
LEMMA WriteOrderGood ==
  ASSUME RowsInv, NEW o \in OrderId, orders[o] # NULL, orders[o].status \in {"open", "sent"},
         NEW status \in OrderStatus, NEW to \in TableStatus \cup {NULL},
         tables[orders[o].table] # NULL => to # NULL,
         status = "closed" => NonReadyItems(o) = {},
         WriteOrder(o, status, to)
  PROVE  GoodStep
<1>1. /\ SchemaOK' /\ orders[o] \in OrderRow
      /\ orders'[o] # NULL /\ orders'[o].status = status /\ orders'[o].table = orders[o].table
      /\ \A p \in OrderId \ {o} : orders'[p] = orders[p]
      /\ tables'[orders[o].table] = to
      /\ \A t \in TableId \ {orders[o].table} : tables'[t] = tables[t]
  BY WriteOrderSchema DEF RowsInv
<1>2. ItemsHaveProducts'
  BY KeyUnchanged DEF RowsInv, WriteOrder
<1>3. OrdersHaveTables => OrdersHaveTables'
  <2>1. \A p \in OrderId : orders[p] # NULL => orders[p].table \in TableId
    BY RowsExist DEF RowsInv, OrderRow
  <2> QED
    BY <1>1, <2>1 DEF RowsInv, OrdersHaveTables
<1>4. Final
  BY <1>1 DEF Final, ItemsOf, Exists, WriteOrder
<1>5. ReadyWhenClosed
  BY <1>1 DEF ReadyWhenClosed, WriteOrder
<1> QED
  BY <1>1, <1>2, <1>3, <1>4, <1>5 DEF GoodStep

LEMMA SendOrderGood ==
  ASSUME RowsInv, NEW o \in OrderId, SendOrder(o)
  PROVE  GoodStep
<1>1. "waiting" \in TableStatus /\ "waiting" # NULL
  BY MarkersAreNoValues DEF TableStatus
<1>2. "sent" \in OrderStatus
  BY DEF OrderStatus
<1> QED
  BY <1>1, <1>2, WriteOrderGood DEF SendOrder, IsOpen, WriteOrder

LEMMA EndOrderGood ==
  ASSUME RowsInv, NEW o \in OrderId, CancelOrder(o) \/ CloseOrder(o)
  PROVE  GoodStep
<1>1. PICK status \in {"closed", "cancelled"} :
        /\ orders[o] # NULL /\ orders[o].status \in {"open", "sent"}
        /\ status = "closed" => NonReadyItems(o) = {}
        /\ EndOrder(o, status)
  BY DEF CancelOrder, CloseOrder
<1>2. status \in OrderStatus
  BY DEF OrderStatus
<1> DEFINE t  == orders[o].table
           to == IF HasActiveOrdersByTable(t)' THEN tables[t] ELSE "free"
<1>3. to \in TableStatus \cup {NULL} /\ WriteOrder(o, status, to)
  BY <1>1, <1>2, EndOrderRows DEF RowsInv
<1>4. "free" # NULL
  BY MarkersAreNoValues DEF TableStatus
<1>5. tables[t] # NULL => to # NULL
  BY <1>4
<1> HIDE DEF to
<1> QED
  BY <1>1, <1>2, <1>3, <1>5, WriteOrderGood

LEMMA OrderProductGood ==
  ASSUME RowsInv, NEW i \in ItemId, NEW o \in OrderId, NEW p \in ProductId,
         NEW quantity \in Quantity, OrderProduct(i, o, p, quantity)
  PROVE  GoodStep
<1>1. products[p].price \in Price
  BY RowsExist DEF OrderProduct, RowsInv, ProductRow
<1>2. SchemaOK' /\ ItemsHaveProducts'
  BY <1>1, AddItemSchema, AddItemKey DEF OrderProduct, RowsInv
<1>3. /\ items'[i].order = o /\ orders[o] # NULL /\ orders[o].status = "open"
      /\ \A j \in ItemId \ {i} : items'[j] = items[j]
      /\ UNCHANGED <<orders, tables>>
  BY DEF OrderProduct, IsOpen, AddItem, RowsInv, SchemaOK
<1> QED
  BY <1>2, <1>3, ItemStep DEF ItemsOf

LEMMA EditItemGood ==
  ASSUME RowsInv, NEW i \in ItemId, NEW o \in OrderId,
         TakeBack(i, o) \/ \E q \in Quantity : ChangeQuantity(i, o, q)
  PROVE  GoodStep
<1>1. i \in ItemsOf(o) /\ Exists(items[i]) /\ items[i].order = o /\ orders[o].status = "open"
  BY DEF TakeBack, ChangeQuantity, IsOpen, ItemsOf
<1>2. CASE TakeBack(i, o)
  <2>1. SchemaOK' /\ ItemsHaveProducts'
    BY <1>2, DeleteItemSchema, DeleteItemKey DEF TakeBack, RowsInv
  <2>2. /\ ~Exists(items'[i]) /\ \A j \in ItemId \ {i} : items'[j] = items[j]
        /\ UNCHANGED <<orders, tables>>
    BY <1>2 DEF TakeBack, DeleteItem, RowsInv, SchemaOK, Exists
  <2> QED
    BY <2>1, <2>2, ItemStep DEF ItemsOf
<1>3. CASE \E q \in Quantity : ChangeQuantity(i, o, q)
  <2>1. PICK q \in Quantity : UpdateItem(i, q)
    BY <1>3 DEF ChangeQuantity
  <2>2. SchemaOK' /\ ItemsHaveProducts'
    BY <1>1, <2>1, UpdateItemSchema, UpdateItemKey DEF RowsInv
  <2>3. /\ items'[i].order = o /\ \A j \in ItemId \ {i} : items'[j] = items[j]
        /\ UNCHANGED <<orders, tables>>
    BY <1>1, <2>1, UpdateItemRow DEF RowsInv, UpdateItem
  <2> QED
    BY <1>1, <2>2, <2>3, ItemStep DEF ItemsOf
<1> QED
  BY <1>2, <1>3

\* The item is not ready yet, so its order is not closed.
LEMMA AdvanceItemGood ==
  ASSUME RowsInv, NEW i \in ItemId, AdvanceItem(i)
  PROVE  GoodStep
<1>1. PICK status \in ItemStatus :
        isForwardItemTransition(items[i].status, status) /\ UpdateItemStatus(i, status)
  BY DEF AdvanceItem
<1>2. Exists(items[i]) /\ items[i].status # "ready" /\ items[i] \in ItemRow
  BY <1>1, RowsExist DEF AdvanceItem, isForwardItemTransition, RowsInv
<1>3. SchemaOK' /\ ItemsHaveProducts'
  BY <1>1, <1>2, UpdateItemStatusSchema, UpdateItemStatusKey DEF RowsInv
<1>4. /\ items'[i].order = items[i].order
      /\ \A j \in ItemId \ {i} : items'[j] = items[j]
      /\ UNCHANGED <<orders, tables>>
  BY <1>1, <1>2, UpdateItemStatusRow DEF RowsInv, UpdateItemStatus
<1>5. \A o \in OrderId :
        orders[o] # NULL /\ orders[o].status = "closed" => i \notin ItemsOf(o)
  BY <1>2 DEF RowsInv, ClosedMeansReady, NonReadyItems
<1> QED
  BY <1>2, <1>3, <1>4, <1>5, ItemStep DEF ItemsOf

LEMMA MenuGood ==
  ASSUME RowsInv, Menu
  PROVE  GoodStep
<1>1. PICK p \in ProductId :
        \/ TakeOffMenu(p)
        \/ \E row \in ProductRow : PutOnMenu(p, row) \/ ChangeMenu(p, row)
  BY DEF Menu
<1>2. CASE TakeOffMenu(p)
  <2>1. ProductsDelete(p, ItemsWithProduct(p))
    BY <1>2 DEF TakeOffMenu
  <2>2. SchemaOK' /\ ItemsHaveProducts'
    BY <2>1, ProductsDeleteSchema, ProductsDeleteKey DEF RowsInv
  <2>3. /\ \A j \in ItemId : Exists(items'[j]) => items'[j] = items[j]
        /\ UNCHANGED <<orders, tables>>
    BY <2>1 DEF ProductsDelete, Exists
  <2> QED
    BY <2>2, <2>3, ItemStep DEF ItemsOf
<1>3. ASSUME NEW row \in ProductRow, PutOnMenu(p, row) \/ ChangeMenu(p, row)
      PROVE  GoodStep
  <2>1. ProductsCreate(p, row) \/ ProductsUpdate(p, row)
    BY <1>3 DEF PutOnMenu, ChangeMenu
  <2>2. SchemaOK' /\ ItemsHaveProducts'
    BY <2>1, ProductsCreateSchema, ProductsCreateKey, ProductsUpdateSchema, ProductsUpdateKey
       DEF RowsInv
  <2> QED
    BY <2>1, <2>2, HouseStep DEF ProductsCreate, ProductsUpdate
<1> QED
  BY <1>1, <1>2, <1>3

LEMMA TablesGood ==
  ASSUME RowsInv, NEW t \in TableId,
         AddTable(t) \/ \E status \in TableStatus : SetTable(t, status)
  PROVE  GoodStep
<1>1. PICK status \in TableStatus : /\ tables' = [tables EXCEPT ![t] = status]
                                    /\ UNCHANGED <<orders, items, products>>
  BY DEF AddTable, TablesCreate, SetTable, TablesUpdateStatus, TableStatus
<1>2. SchemaOK' /\ ItemsHaveProducts'
  BY <1>1, KeyUnchanged DEF RowsInv, SchemaOK
<1>3. \A u \in TableId : tables[u] # NULL => tables'[u] # NULL
  BY <1>1, MarkersAreNoValues DEF RowsInv, SchemaOK
<1> QED
  BY <1>1, <1>2, <1>3, HouseStep

LEMMA StepGood ==
  ASSUME RowsInv, [NextByHand]_db
  PROVE  GoodStep
<1>1. CASE Dining
  BY <1>1, PlaceOrderGood, OrderProductGood, EditItemGood, SendOrderGood, EndOrderGood,
     AdvanceItemGood DEF Dining
<1>2. CASE Menu
  BY <1>2, MenuGood
<1>3. CASE \E t \in TableId : AddTable(t) \/ \E status \in TableStatus : SetTable(t, status)
  BY <1>3, TablesGood
<1>4. CASE UNCHANGED db
  <2>1. SchemaOK' /\ ItemsHaveProducts'
    BY <1>4, KeyUnchanged DEF db, RowsInv, SchemaOK
  <2> QED
    BY <1>4, <2>1, HouseStep DEF db
<1> QED
  BY <1>1, <1>2, <1>3, <1>4 DEF NextByHand, Next

LEMMA InitIInv ==
  ASSUME Init
  PROVE  IInv
<1>1. SchemaOK
  <2>1. [price : Price, available : {TRUE}] \subseteq ProductRow
    BY DEF ProductRow
  <2> QED
    BY <2>1 DEF Init, SchemaOK, TableStatus
<1>2. ItemsHaveProducts /\ OrdersHaveTables /\ ClosedMeansReady
  BY DEF Init, ItemsHaveProducts, OrdersHaveTables, ClosedMeansReady, Exists
<1> QED
  BY <1>1, <1>2 DEF IInv, RowsInv

-----------------------------------------------------------------------------
(* The table follows the orders: every step but a change by hand. *)

LEMMA PlaceOrderFollows ==
  ASSUME IInv, TableFollowsOrders, NEW o \in OrderId, NEW t \in TableId, PlaceOrder(o, t)
  PROVE  TableFollowsOrders'
<1>1. /\ orders'[o] = [table |-> t, status |-> "open"] /\ orders'[o] # NULL /\ orders[o] = NULL
      /\ \A p \in OrderId \ {o} : orders'[p] = orders[p]
      /\ tables'[t] = "occupied" /\ \A u \in TableId \ {t} : tables'[u] = tables[u]
  BY PlaceOrderRows DEF IInv, RowsInv, PlaceOrder
<1>2. orders'[o].table = t /\ orders'[o].status = "open"
  BY <1>1
<1>3. HasActiveOrdersByTable(t)'
  BY <1>1, <1>2 DEF HasActiveOrdersByTable
<1>4. ASSUME NEW u \in TableId \ {t}
      PROVE  HasActiveOrdersByTable(u)' <=> HasActiveOrdersByTable(u)
  BY <1>1, <1>2 DEF HasActiveOrdersByTable
<1> QED
  BY <1>1, <1>3, <1>4 DEF TableFollowsOrders

LEMMA SendOrderFollows ==
  ASSUME IInv, TableFollowsOrders, NEW o \in OrderId, SendOrder(o)
  PROVE  TableFollowsOrders'
<1>1. "waiting" \in TableStatus /\ "sent" \in OrderStatus
  BY DEF TableStatus, OrderStatus
<1>2. /\ orders[o] # NULL /\ orders[o].status = "open" /\ orders[o] \in OrderRow
      /\ orders'[o] # NULL /\ orders'[o].status = "sent" /\ orders'[o].table = orders[o].table
      /\ \A p \in OrderId \ {o} : orders'[p] = orders[p]
      /\ tables'[orders[o].table] = "waiting"
      /\ \A u \in TableId \ {orders[o].table} : tables'[u] = tables[u]
  BY <1>1, WriteOrderSchema DEF IInv, RowsInv, SendOrder, IsOpen, WriteOrder
<1>3. ASSUME NEW u \in TableId
      PROVE  HasActiveOrdersByTable(u)' <=> HasActiveOrdersByTable(u)
  BY <1>2 DEF HasActiveOrdersByTable
<1>4. HasActiveOrdersByTable(orders[o].table)
  BY <1>2 DEF HasActiveOrdersByTable
<1> QED
  BY <1>2, <1>3, <1>4 DEF TableFollowsOrders

LEMMA EndOrderFollows ==
  ASSUME IInv, TableFollowsOrders, NEW o \in OrderId, CancelOrder(o) \/ CloseOrder(o)
  PROVE  TableFollowsOrders'
<1>1. PICK status \in {"closed", "cancelled"} :
        orders[o] # NULL /\ orders[o].status \in {"open", "sent"} /\ EndOrder(o, status)
  BY DEF CancelOrder, CloseOrder
<1> DEFINE t  == orders[o].table
           to == IF HasActiveOrdersByTable(t)' THEN tables[t] ELSE "free"
<1>2. status \in OrderStatus
  BY DEF OrderStatus
<1>3. to \in TableStatus \cup {NULL} /\ t \in TableId /\ WriteOrder(o, status, to)
  BY <1>1, <1>2, EndOrderRows DEF IInv, RowsInv
<1>4. \/ HasActiveOrdersByTable(t)' /\ to = tables[t]
      \/ ~HasActiveOrdersByTable(t)' /\ to = "free"
  OBVIOUS
<1> HIDE DEF to
<1>5. /\ orders[o] \in OrderRow
      /\ orders'[o].status = status /\ orders'[o].table = t
      /\ \A p \in OrderId \ {o} : orders'[p] = orders[p]
      /\ tables'[t] = to /\ \A u \in TableId \ {t} : tables'[u] = tables[u]
  BY <1>1, <1>2, <1>3, WriteOrderSchema DEF IInv, RowsInv
<1>6. ASSUME NEW u \in TableId \ {t}
      PROVE  HasActiveOrdersByTable(u)' <=> HasActiveOrdersByTable(u)
  BY <1>1, <1>5 DEF HasActiveOrdersByTable
<1>7. HasActiveOrdersByTable(t)
  BY <1>1 DEF HasActiveOrdersByTable
<1>8. tables[t] # NULL /\ tables[t] # "free"
  BY <1>1, <1>3, <1>7 DEF IInv, RowsInv, OrdersHaveTables, TableFollowsOrders
<1> QED
  BY <1>4, <1>5, <1>6, <1>8 DEF TableFollowsOrders

\* A new table has no orders yet.
LEMMA AddTableFollows ==
  ASSUME IInv, TableFollowsOrders, NEW t \in TableId, AddTable(t)
  PROVE  TableFollowsOrders'
<1>1. /\ tables[t] = NULL /\ tables'[t] = "free" /\ orders' = orders
      /\ \A u \in TableId \ {t} : tables'[u] = tables[u]
  BY DEF AddTable, TablesCreate, IInv, RowsInv, SchemaOK
<1>2. ~HasActiveOrdersByTable(t)
  BY <1>1 DEF IInv, OrdersHaveTables, HasActiveOrdersByTable
<1>3. \A u \in TableId : HasActiveOrdersByTable(u)' <=> HasActiveOrdersByTable(u)
  BY <1>1 DEF HasActiveOrdersByTable
<1> QED
  BY <1>1, <1>2, <1>3 DEF TableFollowsOrders

LEMMA StepFollows ==
  ASSUME IInv, TableFollowsOrders, [Next]_db
  PROVE  TableFollowsOrders'
<1>1. CASE UNCHANGED <<orders, tables>>
  BY <1>1 DEF TableFollowsOrders, HasActiveOrdersByTable
<1>2. CASE Dining
  <2>1. CASE \E o \in OrderId, t \in TableId : PlaceOrder(o, t)
    BY <2>1, PlaceOrderFollows
  <2>2. CASE \E o \in OrderId : SendOrder(o) \/ CancelOrder(o) \/ CloseOrder(o)
    BY <2>2, SendOrderFollows, EndOrderFollows
  <2>3. CASE \/ \E i \in ItemId, o \in OrderId, p \in ProductId, q \in Quantity :
                  OrderProduct(i, o, p, q)
             \/ \E i \in ItemId, o \in OrderId :
                  TakeBack(i, o) \/ \E q \in Quantity : ChangeQuantity(i, o, q)
             \/ \E i \in ItemId : AdvanceItem(i)
    BY <1>1, <2>3 DEF OrderProduct, AddItem, TakeBack, DeleteItem, ChangeQuantity, UpdateItem,
                      AdvanceItem, UpdateItemStatus
  <2> QED
    BY <1>2, <2>1, <2>2, <2>3 DEF Dining
<1>3. CASE Menu
  BY <1>1, <1>3 DEF Menu, TakeOffMenu, ProductsDelete, PutOnMenu, ProductsCreate, ChangeMenu,
                    ProductsUpdate
<1>4. CASE \E t \in TableId : AddTable(t)
  BY <1>4, AddTableFollows
<1> QED
  BY <1>1, <1>2, <1>3, <1>4 DEF Next, db

-----------------------------------------------------------------------------
SpecByHand == Init /\ [][NextByHand]_db

(* The desk keeps the schema, the foreign key and the kitchen's promise,   *)
(* even when staff set the tables by hand.                                 *)
THEOREM Inductive == SpecByHand => []IInv
<1>1. IInv /\ [NextByHand]_db => IInv'
  BY StepGood, GoodStepKeepsAll DEF IInv
<1> QED
  BY <1>1, InitIInv, PTL DEF SpecByHand

(* Type correctness: the rows obey the schema.                             *)
THEOREM TypeCorrect == SpecByHand => []SchemaOK
<1>1. IInv => SchemaOK
  BY DEF IInv, RowsInv
<1> QED
  BY <1>1, Inductive, PTL

(* A closed order is ready to the last item, and stays so: no item is      *)
(* added to it and none of its items is set back.                          *)
THEOREM ClosedIsReady == SpecByHand => []ClosedMeansReady
<1>1. IInv => ClosedMeansReady
  BY DEF IInv, RowsInv
<1> QED
  BY <1>1, Inductive, PTL

(* An order that was closed or cancelled never changes again.              *)
THEOREM EndIsFinal == SpecByHand => EndedOrderIsFinal
<1>1. IInv /\ [NextByHand]_db =>
        [\A o \in OrderId :
           orders[o] # NULL /\ orders[o].status \in {"closed", "cancelled"} =>
             /\ orders'[o] = orders[o]
             /\ ItemsOf(o)' \subseteq ItemsOf(o)
             /\ orders[o].status = "closed" =>
                  \A i \in ItemsOf(o)' : items'[i] = items[i]]_db
  BY StepGood DEF GoodStep, Final, IInv
<1> QED
  BY <1>1, Inductive, PTL DEF SpecByHand, EndedOrderIsFinal

(* As long as nobody sets it by hand, a table is free exactly while no     *)
(* order of it is open or sent, however many orders share it.              *)
THEOREM TablesFollow == Spec => []TableFollowsOrders
<1>1. Init => TableFollowsOrders
  BY DEF Init, TableFollowsOrders, HasActiveOrdersByTable
<1>2. IInv /\ [Next]_db => IInv'
  BY StepGood, GoodStepKeepsAll DEF NextByHand, IInv
<1>3. IInv /\ TableFollowsOrders /\ [Next]_db => TableFollowsOrders'
  BY StepFollows
<1> QED
  BY <1>1, <1>2, <1>3, InitIInv, PTL DEF Spec
=============================================================================
