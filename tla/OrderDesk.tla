----------------------------- MODULE OrderDesk -----------------------------
(***************************************************************************)
(* What the order service promises its users, with every request done in   *)
(* one step: the rules of the dining room and of the menu, and no word of  *)
(* statements, workers, replies or failures.                               *)
(***************************************************************************)
EXTENDS Repository

CONSTANTS FirstTables, FirstProducts   \* the rows there are at the start

ASSUME FirstRows == FirstTables \subseteq TableId /\ FirstProducts \subseteq ProductId

Init ==
  /\ tables = [t \in TableId |-> IF t \in FirstTables THEN "free" ELSE NULL]
  /\ orders = [o \in OrderId |-> NULL]
  /\ items  = [i \in ItemId |-> NULL]
  /\ products \in [ProductId -> [price : Price, available : {TRUE}] \cup {NULL}]
  /\ \A p \in ProductId : products[p] # NULL <=> p \in FirstProducts

IsOpen(o) == orders[o] # NULL /\ orders[o].status = "open"

-----------------------------------------------------------------------------
\* Mutant: the status of the order is written to the table.
PlaceOrder_WrongStatus(o, t) ==
  /\ tables[t] # NULL
  /\ orders[o] = NULL
  /\ orders' = [orders EXCEPT ![o] = [table |-> t, status |-> "open"]]
  /\ tables' = [tables EXCEPT ![t] = "open"]
  /\ UNCHANGED <<items, products>>

PlaceOrder(o, t) ==
  /\ tables[t] # NULL
  /\ orders[o] = NULL
  /\ orders' = [orders EXCEPT ![o] = [table |-> t, status |-> "open"]]
  /\ tables' = [tables EXCEPT ![t] = "occupied"]
  /\ UNCHANGED <<items, products>>

\* Mutant: items are added whatever the status of the order.
OrderProduct_AnyStatus(i, o, p, quantity) ==
  /\ orders[o] # NULL
  /\ Exists(products[p]) /\ products[p].available
  /\ AddItem(i, o, p, quantity, products[p].price)

OrderProduct(i, o, p, quantity) ==
  /\ IsOpen(o)
  /\ Exists(products[p]) /\ products[p].available
  /\ AddItem(i, o, p, quantity, products[p].price)

ChangeQuantity(i, o, quantity) == IsOpen(o) /\ i \in ItemsOf(o) /\ UpdateItem(i, quantity)

TakeBack(i, o) == IsOpen(o) /\ i \in ItemsOf(o) /\ DeleteItem(i)

SendOrder(o) ==
  /\ IsOpen(o)
  /\ orders' = [orders EXCEPT ![o].status = "sent"]
  /\ tables' = [tables EXCEPT ![orders[o].table] = "waiting"]
  /\ UNCHANGED <<items, products>>

\* Mutant: the table is freed whatever other orders it has.
EndOrder_NotAsked(o, status) ==
  /\ orders' = [orders EXCEPT ![o].status = status]
  /\ tables' = [tables EXCEPT ![orders[o].table] = "free"]
  /\ UNCHANGED <<items, products>>

\* The order ends, and its table is free unless another order is active there.
EndOrder(o, status) ==
  /\ orders' = [orders EXCEPT ![o].status = status]
  /\ tables' = [tables EXCEPT ![orders[o].table] =
                  IF HasActiveOrdersByTable(orders[o].table)' THEN @ ELSE "free"]
  /\ UNCHANGED <<items, products>>

\* Mutant: an order that was closed is cancelled.
CancelOrder_Closed(o) ==
  /\ orders[o] # NULL /\ orders[o].status # "cancelled"
  /\ EndOrder(o, "cancelled")

CancelOrder(o) ==
  /\ orders[o] # NULL /\ orders[o].status \in {"open", "sent"}
  /\ EndOrder(o, "cancelled")

CloseOrder(o) ==
  /\ orders[o] # NULL /\ orders[o].status = "sent"
  /\ NonReadyItems(o) = {}
  /\ EndOrder(o, "closed")

AdvanceItem(i) ==
  /\ Exists(items[i])
  /\ \E status \in ItemStatus :
       /\ isForwardItemTransition(items[i].status, status)
       /\ UpdateItemStatus(i, status)

PutOnMenu(p, row) == ProductsCreate(p, row)

\* A change of the menu touches the fields it names; the orders keep their prices.
ChangeMenu(p, row) == Exists(products[p]) /\ ProductsUpdate(p, row)

TakeOffMenu(p) == Exists(products[p]) /\ ProductsDelete(p, ItemsWithProduct(p))

AddTable(t) == TablesCreate(t)

SetTable(t, status) == TablesUpdateStatus(t, status)

-----------------------------------------------------------------------------
Dining ==
  \/ \E o \in OrderId, t \in TableId : PlaceOrder(o, t)
  \/ \E i \in ItemId, o \in OrderId, p \in ProductId, q \in Quantity : OrderProduct(i, o, p, q)
  \/ \E i \in ItemId, o \in OrderId : TakeBack(i, o) \/ \E q \in Quantity : ChangeQuantity(i, o, q)
  \/ \E o \in OrderId : SendOrder(o) \/ CancelOrder(o) \/ CloseOrder(o)
  \/ \E i \in ItemId : AdvanceItem(i)

Menu ==
  \E p \in ProductId :
    \/ TakeOffMenu(p)
    \/ \E row \in ProductRow : PutOnMenu(p, row) \/ ChangeMenu(p, row)

Next ==
  \/ Dining \/ Menu
  \/ \E t \in TableId : AddTable(t)

Spec == Init /\ [][Next]_db

\* The same, where staff also set the status of a table by hand.
NextByHand == Next \/ \E t \in TableId, status \in TableStatus : SetTable(t, status)

-----------------------------------------------------------------------------
(* ErrOrderCloseRequiresReady: an order that was closed has been prepared  *)
(* to the last item, and stays so.                                         *)
ClosedMeansReady ==
  \A o \in OrderId :
    orders[o] # NULL /\ orders[o].status = "closed" => NonReadyItems(o) = {}

(* As long as nobody sets it by hand, a table is free exactly while no     *)
(* order of it is open or sent.                                            *)
TableFollowsOrders ==
  \A t \in TableId :
    tables[t] # NULL => (tables[t] = "free" <=> ~HasActiveOrdersByTable(t))

(* An order that was closed or cancelled never changes again, and the      *)
(* kitchen's work on a closed order is done.                               *)
EndedOrderIsFinal ==
  [][\A o \in OrderId :
       orders[o] # NULL /\ orders[o].status \in {"closed", "cancelled"} =>
         /\ orders'[o] = orders[o]
         /\ ItemsOf(o)' \subseteq ItemsOf(o)
         /\ orders[o].status = "closed" =>
              \A i \in ItemsOf(o)' : items'[i] = items[i]]_db
=============================================================================
