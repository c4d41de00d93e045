--------------------------- MODULE KitchenService ---------------------------
(***************************************************************************)
(* PATCH /kitchen/orders/:orderId/items/:itemId/status.  The service never *)
(* reads the order: an item advances whatever the status of its order.     *)
(***************************************************************************)
EXTENDS Requests

KitchenLabels  == {"kitchen.item", "kitchen.write", "kitchen.reply"}
KitchenRequest == [order : OrderId, item : ItemId, status : ItemStatus \cup {"unknown"}]

ReceiveItemStatus(w) ==
  \E o \in NamedOrders, i \in Named(items), target \in ItemStatus \cup {"unknown"} :
    Receive(w, "kitchen.UpdateItemStatus", "kitchen.item",
            [order |-> o, item |-> i, status |-> target])

ItemStatusReadItem(w) ==
  /\ pc[w] = "kitchen.item"
  /\ LET row    == GetItemByID(req[w].order, req[w].item)
         target == req[w].status
         err    == IF ~isValidItemStatus(target) THEN "ErrInvalidItemStatus"
                   ELSE IF row = NULL THEN "ErrOrderItemNotFound"
                   ELSE IF ~isForwardItemTransition(row.status, target)
                        THEN "ErrInvalidItemTransition"
                   ELSE "nil"
     IN  Checked(w, err, "kitchen.write", row)

\* The UPDATE does not ask whether the item still has the status that was read.
ItemStatusWrite(w) ==
  /\ pc[w] = "kitchen.write"
  /\ Unlocked(req[w].item)
  /\ \/ /\ req[w].item \in ItemsOf(req[w].order)
        /\ UpdateItemStatus(req[w].item, req[w].status)
        /\ Wrote(w, "kitchen.reply")
     \/ /\ req[w].item \notin ItemsOf(req[w].order)
        /\ Answer(w, "ErrOrderItemNotFound")
        /\ UNCHANGED db

\* The item may be gone by the time it is read back: pgx.ErrNoRows as it is.
ItemStatusReadBack(w) ==
  /\ pc[w] = "kitchen.reply"
  /\ Answer(w, IF GetItemByID(req[w].order, req[w].item) = NULL THEN "ErrNoRows" ELSE "nil")
  /\ UNCHANGED db

KitchenStep(w) == ItemStatusReadItem(w) \/ ItemStatusWrite(w) \/ ItemStatusReadBack(w)
=============================================================================
