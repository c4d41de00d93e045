---------------------------- MODULE OrderService ----------------------------
(***************************************************************************)
(* The order handler and the order service, one action per SQL statement.  *)
(* The checks made on a row are part of the action that reads the row.     *)
(***************************************************************************)
EXTENDS Requests

CreateLabels == {"create.table", "create.insert", "create.occupy", "create.reply"}
AddLabels    == {"add.order", "add.product", "add.insert"}
EditLabels   == {"edit.order", "edit.item", "edit.write"}
RemoveLabels == {"remove.order", "remove.write"}
StatusLabels == {"status.order", "status.count", "status.write",
                 "status.active", "status.table", "status.reply"}

CreateRequest == [new : OrderId, table : TableId]
AddRequest    == [new : ItemId, order : OrderId, product : ProductId, quantity : Quantity]
EditRequest   == [order : OrderId, item : ItemId, quantity : Quantity \cup {0, NULL}]
RemoveRequest == [order : OrderId, item : ItemId]
StatusRequest == [order : OrderId, status : OrderStatus \cup {"unknown"}]

-----------------------------------------------------------------------------
(* POST /orders: Create *)

ReceiveCreate(w) ==
  \E o \in Fresh(orders), t \in TableId :
    Receive(w, "orders.Create", "create.table", [new |-> o, table |-> t])

CreateReadTable(w) ==
  /\ pc[w] = "create.table"
  /\ Checked(w, IF TablesGetByID(req[w].table) = NULL THEN "ErrTableNotFound" ELSE "nil",
             "create.insert", NULL)

CreateInsertOrder(w) ==
  /\ pc[w] = "create.insert"
  /\ OrdersCreate(req[w].new, req[w].table)
  /\ Wrote(w, "create.occupy")

CreateOccupyTable(w) ==
  /\ pc[w] = "create.occupy"
  /\ TablesUpdateStatus(req[w].table, "occupied")
  /\ Wrote(w, "create.reply")

CreateReadBack(w) ==
  /\ pc[w] = "create.reply"
  /\ Return(w, "nil")
  /\ told' = told \cup {req[w].new}
  /\ UNCHANGED <<db, wrote>>

-----------------------------------------------------------------------------
(* POST, PATCH and DELETE /orders/:id/items *)

\* Mutant: the status of the order is not looked at.
OpenOrderError_AnyStatus(row) == IF row = NULL THEN "ErrOrderNotFound" ELSE "nil"

\* Items are added, changed and removed in an open order only.
OpenOrderError(row) ==
  IF row = NULL THEN "ErrOrderNotFound"
  ELSE IF row.status # "open" THEN "ErrOrderItemsLocked"
  ELSE "nil"

ReceiveAddItem(w) ==
  \E i \in Fresh(items), o \in NamedOrders, p \in Named(products), q \in Quantity :
    Receive(w, "orders.AddItem", "add.order",
            [new |-> i, order |-> o, product |-> p, quantity |-> q])

AddItemReadOrder(w) ==
  /\ pc[w] = "add.order"
  /\ Checked(w, OpenOrderError(OrdersGetByID(req[w].order)), "add.product", NULL)

AddItemReadProduct(w) ==
  /\ pc[w] = "add.product"
  /\ LET row == ProductsGetByID(req[w].product)
         err == IF row = NULL THEN "ErrProductNotFound"
                ELSE IF ~row.available THEN "ErrProductUnavailable"
                ELSE "nil"
     IN  Checked(w, err, "add.insert", row)

\* Mutant: the status is asked for again when the item is already in.
AddItemInsert_CheckedLate(w) ==
  /\ pc[w] = "add.insert"
  /\ AddItem(req[w].new, req[w].order, req[w].product, req[w].quantity, seen[w].price)
  /\ Return(w, OpenOrderError(OrdersGetByID(req[w].order)))
  /\ wrote' = [wrote EXCEPT ![w] = TRUE]
  /\ UNCHANGED told

\* The price is the one read before; a product deleted since violates the
\* foreign key, which is an internal error.
AddItemInsert(w) ==
  /\ pc[w] = "add.insert"
  /\ \/ /\ AddItem(req[w].new, req[w].order, req[w].product, req[w].quantity, seen[w].price)
        /\ AnswerWrite(w)
     \/ /\ ~Exists(products[req[w].product])
        /\ Answer(w, "ErrForeignKeyViolation")
        /\ UNCHANGED db

ReceiveUpdateItem(w) ==
  \E o \in NamedOrders, i \in Named(items), q \in Quantity \cup {0, NULL} :
    Receive(w, "orders.UpdateItem", "edit.order", [order |-> o, item |-> i, quantity |-> q])

UpdateItemReadOrder(w) ==
  /\ pc[w] = "edit.order"
  /\ Checked(w, OpenOrderError(OrdersGetByID(req[w].order)), "edit.item", NULL)

\* Mutant: a quantity that is not given counts as one.
NextQuantity_Default(current, quantity) == IF quantity = NULL THEN 1 ELSE quantity

\* A request without a quantity (it changes the notes) keeps the one it read.
NextQuantity(current, quantity) == IF quantity = NULL THEN current ELSE quantity

\* Mutant: the quantity of the request is taken as it is.
UpdateItemReadItem_AnyQuantity(w) ==
  /\ pc[w] = "edit.item"
  /\ LET row == GetItemByID(req[w].order, req[w].item)
     IN  Checked(w, IF row = NULL THEN "ErrOrderItemNotFound" ELSE "nil", "edit.write", row)

UpdateItemReadItem(w) ==
  /\ pc[w] = "edit.item"
  /\ LET row == GetItemByID(req[w].order, req[w].item)
         err == IF row = NULL THEN "ErrOrderItemNotFound"
                ELSE IF NextQuantity(row.quantity, req[w].quantity) <= 0 THEN "ErrInvalidInput"
                ELSE "nil"
     IN  Checked(w, err, "edit.write", row)

\* No row to update is pgx.ErrNoRows, which this handler passes on as it is.
UpdateItemWrite(w) ==
  /\ pc[w] = "edit.write"
  /\ Unlocked(req[w].item)
  /\ \/ /\ req[w].item \in ItemsOf(req[w].order)
        /\ UpdateItem(req[w].item, NextQuantity(seen[w].quantity, req[w].quantity))
        /\ AnswerWrite(w)
     \/ /\ req[w].item \notin ItemsOf(req[w].order)
        /\ Answer(w, "ErrNoRows")
        /\ UNCHANGED db

ReceiveDeleteItem(w) ==
  \E o \in NamedOrders, i \in Named(items) :
    Receive(w, "orders.DeleteItem", "remove.order", [order |-> o, item |-> i])

DeleteItemReadOrder(w) ==
  /\ pc[w] = "remove.order"
  /\ Checked(w, OpenOrderError(OrdersGetByID(req[w].order)), "remove.write", NULL)

DeleteItemWrite(w) ==
  /\ pc[w] = "remove.write"
  /\ Unlocked(req[w].item)
  /\ \/ /\ req[w].item \in ItemsOf(req[w].order)
        /\ DeleteItem(req[w].item)
        /\ AnswerWrite(w)
     \/ /\ req[w].item \notin ItemsOf(req[w].order)
        /\ Answer(w, "ErrOrderItemNotFound")
        /\ UNCHANGED db

-----------------------------------------------------------------------------
(* PATCH /orders/:id/status *)

ReceiveUpdateStatus(w) ==
  \E o \in NamedOrders, target \in OrderStatus \cup {"unknown"} :
    Receive(w, "orders.UpdateStatus", "status.order", [order |-> o, status |-> target])

\* A request for the status the order has is answered without a write.
UpdateStatusReadOrder(w) ==
  /\ pc[w] = "status.order"
  /\ LET row    == OrdersGetByID(req[w].order)
         target == req[w].status
         err    == IF row = NULL THEN "ErrOrderNotFound"
                   ELSE IF ~isValidOrderStatus(target) THEN "ErrInvalidOrderStatus"
                   ELSE IF row.status # target /\ ~canTransitionOrder(row.status, target)
                        THEN "ErrInvalidOrderTransition"
                   ELSE "nil"
         next   == IF row.status = target THEN "status.reply"
                   ELSE IF target = "closed" THEN "status.count"
                   ELSE "status.write"
     IN  Checked(w, err, next, row)

UpdateStatusCountNonReady(w) ==
  /\ pc[w] = "status.count"
  /\ Checked(w, IF NonReadyItems(req[w].order) # {} THEN "ErrOrderCloseRequiresReady" ELSE "nil",
             "status.write", seen[w])

UpdateStatusWrite(w) ==
  /\ pc[w] = "status.write"
  /\ OrdersUpdateStatus(req[w].order, req[w].status)
  /\ Wrote(w, IF req[w].status = "sent" THEN "status.table" ELSE "status.active")

\* Mutant: the table is freed whatever other orders it has.
UpdateStatusHasActive_NotAsked(w) ==
  /\ pc[w] = "status.active"
  /\ Continue(w, "status.table", seen[w])
  /\ UNCHANGED db

\* After a close or a cancellation the table is free if no order is active.
UpdateStatusHasActive(w) ==
  /\ pc[w] = "status.active"
  /\ Continue(w, IF HasActiveOrdersByTable(seen[w].table) THEN "status.reply" ELSE "status.table",
              seen[w])
  /\ UNCHANGED db

UpdateStatusTable(w) ==
  /\ pc[w] = "status.table"
  /\ TablesUpdateStatus(seen[w].table, IF req[w].status = "sent" THEN "waiting" ELSE "free")
  /\ Wrote(w, "status.reply")

UpdateStatusReadBack(w) ==
  /\ pc[w] = "status.reply"
  /\ Answer(w, "nil")
  /\ UNCHANGED db

-----------------------------------------------------------------------------
OrderRequest(w) ==
  \/ ReceiveCreate(w)
  \/ ReceiveAddItem(w)
  \/ ReceiveUpdateItem(w)
  \/ ReceiveDeleteItem(w)
  \/ ReceiveUpdateStatus(w)

OrderStep(w) ==
  \/ CreateReadTable(w) \/ CreateInsertOrder(w)
  \/ CreateOccupyTable(w) \/ CreateReadBack(w)
  \/ AddItemReadOrder(w) \/ AddItemReadProduct(w) \/ AddItemInsert(w)
  \/ UpdateItemReadOrder(w) \/ UpdateItemReadItem(w) \/ UpdateItemWrite(w)
  \/ DeleteItemReadOrder(w) \/ DeleteItemWrite(w)
  \/ UpdateStatusReadOrder(w) \/ UpdateStatusCountNonReady(w) \/ UpdateStatusWrite(w)
  \/ UpdateStatusHasActive(w) \/ UpdateStatusTable(w) \/ UpdateStatusReadBack(w)
=============================================================================
