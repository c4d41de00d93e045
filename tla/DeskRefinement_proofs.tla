------------------------ MODULE DeskRefinement_proofs ------------------------
(***************************************************************************)
(* Theorems about a server with one worker, for any rows and routes: what  *)
(* the handler holds is what the database has, so a request behaves as if  *)
(* it were one step.  It follows that the server implements the desk, and  *)
(* keeps the desk's orders and items when requests fail half way.          *)
(***************************************************************************)
EXTENDS DeskRefinement, RestaurantAPI_proofs

\* One request is handled at a time.
OneWorker == \A v, w \in Worker : v = w

IsOpen(o) == orders[o] # NULL /\ orders[o].status = "open"

\* What the handler has read, and what it concluded from it, still holds when
\* it executes the next statement.  RowFits says that a row passed its checks;
\* with one worker it is also the row the database has.
Current(label, r, row, held) ==
  /\ label = "create.insert" => tables[r.table] # NULL
  /\ label \in RelyingLabels => IsOpen(r.order)
  /\ label = "add.insert" => products[r.product] = row /\ row.available
  /\ label \in {"edit.write", "kitchen.write"} =>
       r.item \in ItemsOf(r.order) /\ items[r.item] = row
  /\ label \in {"status.count", "status.write"} => orders[r.order] = row
  /\ label = "status.write" /\ r.status = "closed" => NonReadyItems(r.order) = {}
  /\ label = "status.active" => r.status # "sent"
  /\ label = "status.table" => r.status = "sent" \/ ~HasActiveOrdersByTable(row.table)
  /\ label = "product.write" => products[r.product] = row
  /\ label = "drop.product" => held = ItemsWithProduct(r.product)

AloneInv ==
  /\ IInv
  /\ \A w \in Worker : Current(pc[w], req[w], seen[w], locked[w])

-----------------------------------------------------------------------------
(* One lemma for each way a handler goes on. *)

LEMMA ReceiveCurrent ==
  ASSUME IInv, NEW w \in Worker, NEW endpoint, NEW label \in First, NEW r,
         Receive(w, endpoint, label, r)
  PROVE  Current(pc[w], req[w], seen[w], locked[w])'
<1>1. pc'[w] = label
  BY DEF Receive, IInv, TypeOK, RequestsOK
<1> QED
  BY <1>1 DEF First, Current, RelyingLabels

LEMMA ReturnCurrent ==
  ASSUME IInv, NEW w \in Worker, NEW err, Return(w, err)
  PROVE  Current(pc[w], req[w], seen[w], locked[w])'
<1>1. pc'[w] = "idle"
  BY DEF Return, IInv, TypeOK, RequestsOK
<1> QED
  BY <1>1 DEF Current, RelyingLabels

LEMMA AnswerCurrent ==
  ASSUME IInv, NEW w \in Worker, (\E err : Answer(w, err)) \/ AnswerWrite(w)
  PROVE  Current(pc[w], req[w], seen[w], locked[w])'
<1>1. PICK err : Return(w, err)
  BY DEF Answer, AnswerWrite
<1> QED
  BY <1>1, ReturnCurrent

LEMMA ContinueCurrent ==
  ASSUME IInv, NEW w \in Worker, NEW label, NEW row, Continue(w, label, row), UNCHANGED db,
         Current(label, req[w], row, locked[w])
  PROVE  Current(pc[w], req[w], seen[w], locked[w])'
<1>1. pc'[w] = label /\ seen'[w] = row /\ req' = req /\ locked' = locked
  BY DEF Continue, IInv, TypeOK, RequestsOK
<1> QED
  BY <1>1 DEF Current, db, IsOpen, ItemsOf, NonReadyItems, HasActiveOrdersByTable,
              ItemsWithProduct, Exists

LEMMA CheckedCurrent ==
  ASSUME IInv, NEW w \in Worker, NEW err, NEW label, NEW row, Checked(w, err, label, row),
         err = "nil" => Current(label, req[w], row, locked[w])
  PROVE  Current(pc[w], req[w], seen[w], locked[w])'
<1>1. CASE err # "nil"
  BY <1>1, AnswerCurrent DEF Checked
<1>2. CASE err = "nil"
  BY <1>2, ContinueCurrent DEF Checked
<1> QED
  BY <1>1, <1>2

\* After these statements the handler relies on nothing it has read.
LEMMA WroteCurrent ==
  ASSUME IInv, NEW w \in Worker, NEW label \in {"create.occupy", "create.reply",
           "status.reply", "kitchen.reply"}, Wrote(w, label)
  PROVE  Current(pc[w], req[w], seen[w], locked[w])'
<1>1. pc'[w] = label
  BY DEF Wrote, IInv, TypeOK, RequestsOK
<1> QED
  BY <1>1 DEF Current, RelyingLabels

-----------------------------------------------------------------------------
(* The handlers *)

LEMMA ArrivalCurrent ==
  ASSUME IInv, NEW w \in Worker, Arrival(w)
  PROVE  Current(pc[w], req[w], seen[w], locked[w])'
<1> USE ReceiveCurrent DEF First
<1>1. CASE OrderRequest(w)
  BY <1>1 DEF OrderRequest, ReceiveCreate, ReceiveAddItem, ReceiveUpdateItem,
              ReceiveDeleteItem, ReceiveUpdateStatus
<1>2. CASE ReceiveItemStatus(w)
  BY <1>2 DEF ReceiveItemStatus
<1>3. CASE ReceiveNewTable(w) \/ ReceiveTableStatus(w)
  BY <1>3 DEF ReceiveNewTable, ReceiveTableStatus
<1>4. CASE ReceiveNewProduct(w) \/ ReceiveProductPatch(w) \/ ReceiveProductDelete(w)
  BY <1>4 DEF ReceiveNewProduct, ReceiveProductPatch, ReceiveProductDelete
<1> QED
  BY <1>1, <1>2, <1>3, <1>4 DEF Arrival

LEMMA CreateCurrent ==
  ASSUME IInv, NEW w \in Worker,
         \/ CreateReadTable(w) \/ CreateInsertOrder(w)
         \/ CreateOccupyTable(w) \/ CreateReadBack(w)
  PROVE  Current(pc[w], req[w], seen[w], locked[w])'
<1>1. CASE CreateReadTable(w)
  BY <1>1, CheckedCurrent DEF CreateReadTable, TablesGetByID, Current, RelyingLabels
<1>2. CASE CreateInsertOrder(w) \/ CreateOccupyTable(w)
  BY <1>2, WroteCurrent DEF CreateInsertOrder, CreateOccupyTable
<1>3. CASE CreateReadBack(w)
  BY <1>3, ReturnCurrent DEF CreateReadBack
<1> QED
  BY <1>1, <1>2, <1>3

\* A request on the items goes on only with an open order.
LEMMA ReadAsOpen ==
  ASSUME NEW o, OpenOrderError(OrdersGetByID(o)) = "nil"
  PROVE  IsOpen(o)
BY DEF OpenOrderError, OrdersGetByID, IsOpen

LEMMA AddItemCurrent ==
  ASSUME AloneInv, NEW w \in Worker,
         AddItemReadOrder(w) \/ AddItemReadProduct(w) \/ AddItemInsert(w)
  PROVE  Current(pc[w], req[w], seen[w], locked[w])'
<1>1. IInv /\ Current(pc[w], req[w], seen[w], locked[w])
  BY DEF AloneInv
<1>2. CASE AddItemReadOrder(w)
  BY <1>1, <1>2, CheckedCurrent, ReadAsOpen DEF AddItemReadOrder, Current
<1>3. CASE AddItemReadProduct(w)
  <2> DEFINE row == ProductsGetByID(req[w].product)
             err == IF row = NULL THEN "ErrProductNotFound"
                    ELSE IF ~row.available THEN "ErrProductUnavailable"
                    ELSE "nil"
  <2>1. pc[w] = "add.product" /\ Checked(w, err, "add.insert", row)
    BY <1>3 DEF AddItemReadProduct
  <2>2. err = "nil" => row = products[req[w].product] /\ row.available
    BY DEF ProductsGetByID
  <2>3. IsOpen(req[w].order)
    BY <1>1, <2>1 DEF Current, RelyingLabels
  <2>4. err = "nil" => Current("add.insert", req[w], row, locked[w])
    BY <2>2, <2>3 DEF Current
  <2> HIDE DEF err, row
  <2> QED
    BY <1>1, <2>1, <2>4, CheckedCurrent
<1>4. CASE AddItemInsert(w)
  BY <1>1, <1>4, AnswerCurrent DEF AddItemInsert
<1> QED
  BY <1>2, <1>3, <1>4

LEMMA UpdateItemCurrent ==
  ASSUME AloneInv, NEW w \in Worker,
         UpdateItemReadOrder(w) \/ UpdateItemReadItem(w) \/ UpdateItemWrite(w)
  PROVE  Current(pc[w], req[w], seen[w], locked[w])'
<1>1. IInv /\ Current(pc[w], req[w], seen[w], locked[w])
  BY DEF AloneInv
<1>2. CASE UpdateItemReadOrder(w)
  BY <1>1, <1>2, CheckedCurrent, ReadAsOpen DEF UpdateItemReadOrder, Current
<1>3. CASE UpdateItemReadItem(w)
  <2> DEFINE row == GetItemByID(req[w].order, req[w].item)
             err == IF row = NULL THEN "ErrOrderItemNotFound"
                    ELSE IF NextQuantity(row.quantity, req[w].quantity) <= 0
                         THEN "ErrInvalidInput"
                    ELSE "nil"
  <2>1. pc[w] = "edit.item" /\ Checked(w, err, "edit.write", row)
    BY <1>3 DEF UpdateItemReadItem
  <2>2. err = "nil" => req[w].item \in ItemsOf(req[w].order) /\ row = items[req[w].item]
    BY DEF GetItemByID
  <2>3. IsOpen(req[w].order)
    BY <1>1, <2>1 DEF Current, RelyingLabels
  <2>4. err = "nil" => Current("edit.write", req[w], row, locked[w])
    BY <2>2, <2>3 DEF Current
  <2> HIDE DEF err, row
  <2> QED
    BY <1>1, <2>1, <2>4, CheckedCurrent
<1>4. CASE UpdateItemWrite(w)
  BY <1>1, <1>4, AnswerCurrent DEF UpdateItemWrite
<1> QED
  BY <1>2, <1>3, <1>4

LEMMA DeleteItemCurrent ==
  ASSUME IInv, NEW w \in Worker, DeleteItemReadOrder(w) \/ DeleteItemWrite(w)
  PROVE  Current(pc[w], req[w], seen[w], locked[w])'
<1>1. CASE DeleteItemReadOrder(w)
  BY <1>1, CheckedCurrent, ReadAsOpen DEF DeleteItemReadOrder, Current
<1>2. CASE DeleteItemWrite(w)
  BY <1>2, AnswerCurrent DEF DeleteItemWrite
<1> QED
  BY <1>1, <1>2

LEMMA UpdateStatusCurrent ==
  ASSUME AloneInv, NEW w \in Worker,
         \/ UpdateStatusReadOrder(w) \/ UpdateStatusCountNonReady(w) \/ UpdateStatusWrite(w)
         \/ UpdateStatusHasActive(w) \/ UpdateStatusTable(w) \/ UpdateStatusReadBack(w)
  PROVE  Current(pc[w], req[w], seen[w], locked[w])'
<1>1. IInv /\ Current(pc[w], req[w], seen[w], locked[w])
  BY DEF AloneInv
<1>2. CASE UpdateStatusReadOrder(w)
  <2> DEFINE row    == OrdersGetByID(req[w].order)
             target == req[w].status
             err    == IF row = NULL THEN "ErrOrderNotFound"
                       ELSE IF ~isValidOrderStatus(target) THEN "ErrInvalidOrderStatus"
                       ELSE IF row.status # target /\ ~canTransitionOrder(row.status, target)
                            THEN "ErrInvalidOrderTransition"
                       ELSE "nil"
             next   == IF row.status = target THEN "status.reply"
                       ELSE IF target = "closed" THEN "status.count"
                       ELSE "status.write"
  <2>1. Checked(w, err, next, row)
    BY <1>2 DEF UpdateStatusReadOrder
  <2>2. Current(next, req[w], row, locked[w])
    BY DEF Current, RelyingLabels, OrdersGetByID
  <2> HIDE DEF err, next, row
  <2> QED
    BY <1>1, <2>1, <2>2, CheckedCurrent
<1>3. CASE UpdateStatusCountNonReady(w)
  <2> DEFINE err == IF NonReadyItems(req[w].order) # {} THEN "ErrOrderCloseRequiresReady"
                    ELSE "nil"
  <2>1. pc[w] = "status.count" /\ Checked(w, err, "status.write", seen[w])
    BY <1>3 DEF UpdateStatusCountNonReady
  <2>2. err = "nil" => Current("status.write", req[w], seen[w], locked[w])
    BY <1>1, <2>1 DEF Current, RelyingLabels
  <2> HIDE DEF err
  <2> QED
    BY <1>1, <2>1, <2>2, CheckedCurrent
<1>4. CASE UpdateStatusWrite(w)
  <2>1. pc'[w] = (IF req[w].status = "sent" THEN "status.table" ELSE "status.active")
        /\ req' = req
    BY <1>1, <1>4 DEF UpdateStatusWrite, Wrote, IInv, TypeOK, RequestsOK
  <2> QED
    BY <2>1 DEF Current, RelyingLabels
<1>5. CASE UpdateStatusHasActive(w)
  <2> DEFINE next == IF HasActiveOrdersByTable(seen[w].table) THEN "status.reply"
                     ELSE "status.table"
  <2>1. Continue(w, next, seen[w]) /\ UNCHANGED db
    BY <1>5 DEF UpdateStatusHasActive
  <2>2. Current(next, req[w], seen[w], locked[w])
    BY DEF Current, RelyingLabels
  <2> HIDE DEF next
  <2> QED
    BY <1>1, <2>1, <2>2, ContinueCurrent
<1>6. CASE UpdateStatusTable(w)
  BY <1>1, <1>6, WroteCurrent DEF UpdateStatusTable
<1>7. CASE UpdateStatusReadBack(w)
  BY <1>1, <1>7, AnswerCurrent DEF UpdateStatusReadBack
<1> QED
  BY <1>2, <1>3, <1>4, <1>5, <1>6, <1>7

LEMMA KitchenCurrent ==
  ASSUME IInv, NEW w \in Worker, KitchenStep(w)
  PROVE  Current(pc[w], req[w], seen[w], locked[w])'
<1>1. CASE ItemStatusReadItem(w)
  <2> DEFINE row    == GetItemByID(req[w].order, req[w].item)
             target == req[w].status
             err    == IF ~isValidItemStatus(target) THEN "ErrInvalidItemStatus"
                       ELSE IF row = NULL THEN "ErrOrderItemNotFound"
                       ELSE IF ~isForwardItemTransition(row.status, target)
                            THEN "ErrInvalidItemTransition"
                       ELSE "nil"
  <2>1. Checked(w, err, "kitchen.write", row)
    BY <1>1 DEF ItemStatusReadItem
  <2>2. err = "nil" => Current("kitchen.write", req[w], row, locked[w])
    BY DEF Current, RelyingLabels, GetItemByID
  <2> HIDE DEF err, row
  <2> QED
    BY <2>1, <2>2, CheckedCurrent
<1>2. CASE ItemStatusWrite(w)
  BY <1>2, AnswerCurrent, WroteCurrent DEF ItemStatusWrite
<1>3. CASE ItemStatusReadBack(w)
  BY <1>3, AnswerCurrent DEF ItemStatusReadBack
<1> QED
  BY <1>1, <1>2, <1>3 DEF KitchenStep

LEMMA TableCurrent ==
  ASSUME IInv, NEW w \in Worker, TableStep(w)
  PROVE  Current(pc[w], req[w], seen[w], locked[w])'
BY AnswerCurrent DEF TableStep, TableInsert, TableStatusWrite

LEMMA ProductCurrent ==
  ASSUME IInv, NEW w \in Worker, ProductStep(w)
  PROVE  Current(pc[w], req[w], seen[w], locked[w])'
<1>1. CASE ProductRead(w)
  <2> DEFINE row == ProductsGetByID(req[w].product)
             err == IF row = NULL THEN "ErrProductNotFound"
                    ELSE IF Merged(row, req[w]).price < 0 THEN "ErrInvalidProductPrice"
                    ELSE "nil"
  <2>1. Checked(w, err, "product.write", row)
    BY <1>1 DEF ProductRead
  <2>2. err = "nil" => Current("product.write", req[w], row, locked[w])
    BY DEF Current, RelyingLabels, ProductsGetByID
  <2> HIDE DEF err, row
  <2> QED
    BY <2>1, <2>2, CheckedCurrent
<1>2. CASE ProductDropItems(w)
  <2>1. /\ pc'[w] = "drop.product" /\ req' = req /\ UNCHANGED db
        /\ locked'[w] = ItemsWithProduct(req[w].product)
    BY <1>2 DEF ProductDropItems, IInv, TypeOK, RequestsOK
  <2> QED
    BY <2>1 DEF Current, RelyingLabels, db, ItemsWithProduct, Exists
<1>3. CASE ProductInsert(w) \/ ProductWrite(w) \/ ProductDrop(w)
  BY <1>3, AnswerCurrent DEF ProductInsert, ProductWrite, ProductDrop
<1> QED
  BY <1>1, <1>2, <1>3 DEF ProductStep

-----------------------------------------------------------------------------
LEMMA StepCurrent ==
  ASSUME AloneInv, NEW w \in Worker, Arrival(w) \/ Step(w) \/ StatementFails(w)
  PROVE  Current(pc[w], req[w], seen[w], locked[w])'
<1>1. IInv
  BY DEF AloneInv
<1>2. CASE Arrival(w)
  BY <1>1, <1>2, ArrivalCurrent
<1>3. CASE OrderStep(w)
  BY <1>1, <1>3, CreateCurrent, AddItemCurrent, UpdateItemCurrent, DeleteItemCurrent,
     UpdateStatusCurrent DEF OrderStep
<1>4. CASE KitchenStep(w) \/ TableStep(w) \/ ProductStep(w)
  BY <1>1, <1>4, KitchenCurrent, TableCurrent, ProductCurrent
<1>5. CASE StatementFails(w)
  BY <1>1, <1>5, AnswerCurrent DEF StatementFails
<1> QED
  BY <1>2, <1>3, <1>4, <1>5 DEF Step

LEMMA AloneInit == Init => AloneInv
<1> SUFFICES ASSUME Init PROVE AloneInv
  OBVIOUS
<1>1. \A w \in Worker : pc[w] = "idle"
  BY DEF Init
<1> QED
  BY <1>1, InitIInv DEF AloneInv, Current, RelyingLabels

LEMMA AloneStep == OneWorker /\ AloneInv /\ [Next]_vars => AloneInv'
<1> SUFFICES ASSUME OneWorker, AloneInv, [Next]_vars
             PROVE  AloneInv'
  OBVIOUS
<1>1. CASE UNCHANGED vars
  BY <1>1, StutterKeeps DEF AloneInv, Current, vars, request, db, IsOpen, ItemsOf, NonReadyItems,
     HasActiveOrdersByTable, ItemsWithProduct, Exists
<1>2. ASSUME NEW w \in Worker, Arrival(w) \/ Step(w) \/ StatementFails(w)
      PROVE  AloneInv'
  <2>1. IInv'
    BY <1>2, NextKeeps DEF AloneInv, Next
  <2>2. Current(pc[w], req[w], seen[w], locked[w])'
    BY <1>2, StepCurrent
  <2>3. \A v \in Worker : v = w
    BY DEF OneWorker
  <2> QED
    BY <2>1, <2>2, <2>3 DEF AloneInv
<1> QED
  BY <1>1, <1>2 DEF Next

(* With one worker, what a handler has read does not change before it has  *)
(* written, whatever the requests are and whichever statements fail.       *)
THEOREM AloneInductive ==
  ASSUME OneWorker
  PROVE  Spec => []AloneInv
<1>1. AloneInv /\ [Next]_vars => AloneInv'
  BY AloneStep
<1> QED
  BY <1>1, AloneInit, PTL DEF Spec

-----------------------------------------------------------------------------
(* Which handler a statement belongs to. *)

LEMMA OrderStepLabel ==
  ASSUME NEW w \in Worker, OrderStep(w)
  PROVE  /\ pc[w] \in CreateLabels \cup AddLabels \cup EditLabels \cup RemoveLabels \cup StatusLabels
         /\ pc[w] = "edit.write" => UpdateItemWrite(w)
<1> USE DEF CreateLabels, AddLabels, EditLabels, RemoveLabels, StatusLabels
<1>1. CASE \/ CreateReadTable(w) \/ CreateInsertOrder(w)
           \/ CreateOccupyTable(w) \/ CreateReadBack(w)
  BY <1>1 DEF CreateReadTable, CreateInsertOrder, CreateOccupyTable, CreateReadBack
<1>2. CASE AddItemReadOrder(w) \/ AddItemReadProduct(w) \/ AddItemInsert(w)
  BY <1>2 DEF AddItemReadOrder, AddItemReadProduct, AddItemInsert
<1>3. CASE \/ UpdateItemReadOrder(w) \/ UpdateItemReadItem(w) \/ UpdateItemWrite(w)
           \/ DeleteItemReadOrder(w) \/ DeleteItemWrite(w)
  BY <1>3 DEF UpdateItemReadOrder, UpdateItemReadItem, UpdateItemWrite, DeleteItemReadOrder,
              DeleteItemWrite
<1>4. CASE \/ UpdateStatusReadOrder(w) \/ UpdateStatusCountNonReady(w) \/ UpdateStatusWrite(w)
           \/ UpdateStatusHasActive(w) \/ UpdateStatusTable(w) \/ UpdateStatusReadBack(w)
  BY <1>4 DEF UpdateStatusReadOrder, UpdateStatusCountNonReady, UpdateStatusWrite,
              UpdateStatusHasActive, UpdateStatusTable, UpdateStatusReadBack
<1> QED
  BY <1>1, <1>2, <1>3, <1>4 DEF OrderStep

LEMMA OtherStepLabel ==
  ASSUME NEW w \in Worker
  PROVE  /\ KitchenStep(w) => pc[w] \in KitchenLabels
         /\ TableStep(w)   => pc[w] \in TableLabels
         /\ ProductStep(w) => /\ pc[w] \in ProductLabels
                              /\ pc[w] = "product.write" => ProductWrite(w)
<1>1. KitchenStep(w) => pc[w] \in KitchenLabels
  BY DEF KitchenStep, ItemStatusReadItem, ItemStatusWrite, ItemStatusReadBack, KitchenLabels
<1>2. TableStep(w) => pc[w] \in TableLabels
  BY DEF TableStep, TableInsert, TableStatusWrite, TableLabels
<1>3. ProductStep(w) => /\ pc[w] \in ProductLabels
                        /\ pc[w] = "product.write" => ProductWrite(w)
  BY DEF ProductStep, ProductInsert, ProductRead, ProductWrite, ProductDropItems, ProductDrop,
         ProductLabels
<1> QED
  BY <1>1, <1>2, <1>3

LEMMA ArrivalLabel ==
  ASSUME NEW w \in Worker, Arrival(w)
  PROVE  pc[w] = "idle"
BY DEF Arrival, OrderRequest, ReceiveCreate, ReceiveAddItem, ReceiveUpdateItem,
       ReceiveDeleteItem, ReceiveUpdateStatus, ReceiveItemStatus, ReceiveNewTable,
       ReceiveTableStatus, ReceiveNewProduct, ReceiveProductPatch, ReceiveProductDelete, Receive

\* The writes that merge a request into a row are the handlers' last statements.
LEMMA MergingWrites ==
  ASSUME NEW w \in Worker, Arrival(w) \/ Step(w) \/ StatementFails(w)
  PROVE  /\ pc[w] = "edit.write" => UpdateItemWrite(w) \/ UNCHANGED db
         /\ pc[w] = "product.write" => ProductWrite(w) \/ UNCHANGED db
<1>1. CASE Arrival(w)
  BY <1>1, ArrivalLabel
<1>2. CASE Step(w)
  BY <1>2, OrderStepLabel, OtherStepLabel DEF Step, CreateLabels, AddLabels, EditLabels,
     RemoveLabels, StatusLabels, KitchenLabels, TableLabels, ProductLabels
<1>3. CASE StatementFails(w)
  BY <1>3 DEF StatementFails
<1> QED
  BY <1>1, <1>2, <1>3

(* With one worker, a PATCH of a product changes the fields it names only. *)
THEOREM PatchesKeepOtherFields ==
  ASSUME OneWorker
  PROVE  Spec => PatchKeepsOtherFields
<1> DEFINE Keeps(w) ==
      LET p == req[w].product IN
        Exists(products[p]) =>
          /\ req[w].price = NULL => products'[p].price = products[p].price
          /\ req[w].available = NULL => products'[p].available = products[p].available
<1>1. ASSUME AloneInv, NEW v \in Worker, Arrival(v) \/ Step(v) \/ StatementFails(v),
             NEW w \in Worker, pc[w] = "product.write"
      PROVE  Keeps(w)
  <2>1. v = w
    BY DEF OneWorker
  <2>2. /\ IInv /\ products[req[w].product] = seen[w]
    BY <1>1 DEF AloneInv, Current
  <2>3. CASE UNCHANGED db
    BY <2>3 DEF db
  <2>4. CASE ProductWrite(w)
    <3>1. req[w].product \in ProductId /\ products = [p \in ProductId |-> products[p]]
      BY <1>1, <2>2 DEF IInv, RequestFits, ProductPatchRequest, TypeOK, SchemaOK
    <3>2. Exists(products[req[w].product]) =>
            products'[req[w].product] = Merged(seen[w], req[w])
      BY <2>4, <3>1 DEF ProductWrite, ProductsUpdate
    <3> QED
      BY <2>2, <3>2 DEF Merged
  <2> QED
    BY <1>1, <2>1, <2>3, <2>4, MergingWrites
<1>2. AloneInv /\ [Next]_vars =>
        [\A w \in Worker :
           pc[w] = "product.write" /\ pc'[w] = "idle" => Keeps(w)]_vars
  BY <1>1 DEF Next
<1> QED
  BY <1>2, AloneInductive, PTL DEF Spec, PatchKeepsOtherFields

(* With one worker, a PATCH of an item's notes keeps its quantity.         *)
THEOREM NotesKeepQuantities ==
  ASSUME OneWorker
  PROVE  Spec => NotesKeepQuantity
<1> DEFINE Keeps(w) ==
      LET i == req[w].item IN
        Exists(items'[i]) => items'[i].quantity = items[i].quantity
<1>1. ASSUME AloneInv, NEW v \in Worker, Arrival(v) \/ Step(v) \/ StatementFails(v),
             NEW w \in Worker, pc[w] = "edit.write", req[w].quantity = NULL
      PROVE  Keeps(w)
  <2>1. v = w
    BY DEF OneWorker
  <2>2. IInv /\ items[req[w].item] = seen[w]
    BY <1>1 DEF AloneInv, Current
  <2>3. CASE UNCHANGED db
    BY <2>3 DEF db
  <2>4. CASE UpdateItemWrite(w)
    <3>1. req[w].item \in ItemId /\ items = [i \in ItemId |-> items[i]]
      BY <1>1, <2>2 DEF IInv, RequestFits, EditLabels, EditRequest, TypeOK, SchemaOK
    <3>2. CASE UpdateItem(req[w].item, NextQuantity(seen[w].quantity, req[w].quantity))
      <4>1. NextQuantity(seen[w].quantity, req[w].quantity) = items[req[w].item].quantity
        BY <1>1, <2>2 DEF NextQuantity
      <4>2. items[req[w].item] \in ItemRow
        BY <1>1, <2>2 DEF IInv, RowFits
      <4> QED
        BY <3>1, <3>2, <4>1, <4>2 DEF UpdateItem, ItemRow
    <3> QED
      BY <2>3, <2>4, <3>2 DEF UpdateItemWrite
  <2> QED
    BY <1>1, <2>1, <2>3, <2>4, MergingWrites
<1>2. AloneInv /\ [Next]_vars =>
        [\A w \in Worker :
           pc[w] = "edit.write" /\ pc'[w] = "idle" /\ req[w].quantity = NULL => Keeps(w)]_vars
  BY <1>1 DEF Next
<1> QED
  BY <1>2, AloneInductive, PTL DEF Spec, NotesKeepQuantity

-----------------------------------------------------------------------------
(***************************************************************************)
(* The refinement.  The desk's tables depend on the worker's label alone;  *)
(* they are the database's except between the two writes of a request.     *)
(***************************************************************************)

BetweenWrites == {"create.occupy", "status.active", "status.table"}

\* The status of table t that the request in progress will have written.
Settles(label, r, row, t, now, active) ==
  IF label = "create.occupy" /\ r.table = t THEN "occupied"
  ELSE IF label \in {"status.active", "status.table"} /\ row.table = t
       THEN IF r.status = "sent" THEN "waiting" ELSE IF active THEN now ELSE "free"
  ELSE now

LEMMA SettledNow ==
  ASSUME OneWorker, NEW w \in Worker, NEW t
  PROVE  SettledTable(t) =
           Settles(pc[w], req[w], seen[w], t, tables[t], HasActiveOrdersByTable(t))
<1>1. \A v \in Worker : v = w
  BY DEF OneWorker
<1>2. Placing(t) <=> pc[w] = "create.occupy" /\ req[w].table = t
  BY <1>1 DEF Placing
<1>3. \A v : v \in Changing(t) <=>
             v = w /\ pc[w] \in {"status.active", "status.table"} /\ seen[w].table = t
  BY <1>1 DEF Changing
<1> QED
  BY <1>2, <1>3 DEF SettledTable, Settles

LEMMA SettledNext ==
  ASSUME OneWorker, NEW w \in Worker, NEW t
  PROVE  SettledTable(t)' =
           Settles(pc'[w], req'[w], seen'[w], t, tables'[t], HasActiveOrdersByTable(t)')
<1>1. \A v \in Worker : v = w
  BY DEF OneWorker
<1>2. Placing(t)' <=> pc'[w] = "create.occupy" /\ req'[w].table = t
  BY <1>1 DEF Placing
<1>3. \A v : v \in Changing(t)' <=>
             v = w /\ pc'[w] \in {"status.active", "status.table"} /\ seen'[w].table = t
  BY <1>1 DEF Changing
<1> QED
  BY <1>2, <1>3 DEF SettledTable, Settles

LEMMA QuietTables ==
  ASSUME OneWorker, NEW w \in Worker, TypeOK, pc[w] \notin BetweenWrites
  PROVE  SettledTables = tables
<1>1. \A t \in TableId : SettledTable(t) = tables[t]
  BY SettledNow DEF Settles, BetweenWrites
<1> QED
  BY <1>1 DEF SettledTables, TypeOK, SchemaOK

LEMMA QuietTablesNext ==
  ASSUME OneWorker, NEW w \in Worker, TypeOK', pc'[w] \notin BetweenWrites
  PROVE  SettledTables' = tables'
<1>1. \A t \in TableId : SettledTable(t)' = tables'[t]
  BY SettledNext DEF Settles, BetweenWrites
<1> QED
  BY <1>1 DEF SettledTables, TypeOK, SchemaOK

\* The vocabulary of the desk is the server's.
LEMMA SameVocabulary ==
  /\ \A row : Desk!Exists(row) <=> Exists(row)
  /\ \A o : Desk!ItemsOf(o) = ItemsOf(o) /\ Desk!NonReadyItems(o) = NonReadyItems(o)
  /\ \A p : Desk!ItemsWithProduct(p) = ItemsWithProduct(p)
  /\ \A t : Desk!HasActiveOrdersByTable(t) <=> HasActiveOrdersByTable(t)
<1>1. \A row : Desk!Exists(row) <=> Exists(row)
  BY DEF Desk!Exists, Exists
<1> QED
  BY <1>1 DEF Desk!ItemsOf, ItemsOf, Desk!NonReadyItems, NonReadyItems, Desk!ItemsWithProduct,
     ItemsWithProduct, Desk!HasActiveOrdersByTable, HasActiveOrdersByTable

DeskMove == Desk!Next \/ (ByHand /\ Desk!NextByHand) \/ UNCHANGED Desk!db

\* A statement that writes nothing, outside of the two writes of a request.
LEMMA QuietStutter ==
  ASSUME OneWorker, NEW w \in Worker, TypeOK, TypeOK', UNCHANGED db,
         pc[w] \notin BetweenWrites, pc'[w] \notin BetweenWrites
  PROVE  DeskMove
BY QuietTables, QuietTablesNext DEF DeskMove, Desk!db, db

\* A handler's only write is a step of the desk if it is one of its own tables.
LEMMA QuietWrite ==
  ASSUME OneWorker, NEW w \in Worker, TypeOK, TypeOK',
         pc[w] \notin BetweenWrites, pc'[w] \notin BetweenWrites
  PROVE  SettledTables = tables /\ SettledTables' = tables'
BY QuietTables, QuietTablesNext

-----------------------------------------------------------------------------
\* What the steps below have in common.
Alone(w) == OneWorker /\ AloneInv /\ TypeOK'

LEMMA AloneHas ==
  ASSUME NEW w \in Worker, Alone(w)
  PROVE  /\ OneWorker /\ AloneInv /\ IInv /\ TypeOK /\ SchemaOK /\ TypeOK' /\ SchemaOK'
         /\ Current(pc[w], req[w], seen[w], locked[w])
         /\ RequestFits(pc[w], req[w]) /\ RowFits(pc[w], req[w], seen[w])
BY DEF Alone, AloneInv, IInv, TypeOK

LEMMA AnsweredIdle ==
  ASSUME NEW w \in Worker, TypeOK, (\E err : Answer(w, err)) \/ AnswerWrite(w)
  PROVE  pc'[w] = "idle"
BY DEF Answer, AnswerWrite, Return, TypeOK, RequestsOK

LEMMA RefusedIsDesk ==
  ASSUME NEW w \in Worker, Alone(w), pc[w] \notin BetweenWrites,
         NEW err, Answer(w, err), UNCHANGED db
  PROVE  DeskMove
BY AloneHas, AnsweredIdle, QuietStutter DEF BetweenWrites

LEMMA CheckedIsDesk ==
  ASSUME NEW w \in Worker, Alone(w), pc[w] \notin BetweenWrites,
         NEW err, NEW label, NEW row, Checked(w, err, label, row), label \notin BetweenWrites
  PROVE  DeskMove
<1>1. CASE err # "nil"
  BY <1>1, RefusedIsDesk DEF Checked
<1>2. CASE err = "nil"
  <2>1. pc'[w] = label /\ UNCHANGED db
    BY <1>2, AloneHas DEF Checked, Continue, TypeOK, RequestsOK
  <2> QED
    BY <2>1, AloneHas, QuietStutter
<1> QED
  BY <1>1, <1>2

\* A handler whose only write is its last statement.
LEMMA LastWrite ==
  ASSUME NEW w \in Worker, Alone(w), pc[w] \notin BetweenWrites, AnswerWrite(w)
  PROVE  SettledTables = tables /\ SettledTables' = tables'
BY AloneHas, AnsweredIdle, QuietWrite DEF BetweenWrites

LEMMA ArrivalIsDesk ==
  ASSUME NEW w \in Worker, Alone(w), Arrival(w)
  PROVE  DeskMove
<1>1. ASSUME NEW endpoint, NEW label \in First, NEW r, Receive(w, endpoint, label, r)
      PROVE  DeskMove
  <2>1. pc[w] = "idle" /\ pc'[w] = label /\ UNCHANGED db
    BY <1>1, AloneHas DEF Receive, TypeOK, RequestsOK
  <2> QED
    BY <2>1, AloneHas, QuietStutter DEF First, BetweenWrites
<1> USE DEF First
<1>2. CASE OrderRequest(w)
  BY <1>1, <1>2 DEF OrderRequest, ReceiveCreate, ReceiveAddItem, ReceiveUpdateItem,
                    ReceiveDeleteItem, ReceiveUpdateStatus
<1>3. CASE ReceiveItemStatus(w)
  BY <1>1, <1>3 DEF ReceiveItemStatus
<1>4. CASE ReceiveNewTable(w) \/ ReceiveTableStatus(w)
  BY <1>1, <1>4 DEF ReceiveNewTable, ReceiveTableStatus
<1>5. CASE ReceiveNewProduct(w) \/ ReceiveProductPatch(w) \/ ReceiveProductDelete(w)
  BY <1>1, <1>5 DEF ReceiveNewProduct, ReceiveProductPatch, ReceiveProductDelete
<1> QED
  BY <1>2, <1>3, <1>4, <1>5 DEF Arrival

-----------------------------------------------------------------------------
\* The order is written first: that is when it is placed, its table included.
LEMMA CreateIsDesk ==
  ASSUME NEW w \in Worker, Alone(w),
         \/ CreateReadTable(w) \/ CreateInsertOrder(w)
         \/ CreateOccupyTable(w) \/ CreateReadBack(w)
  PROVE  DeskMove
<1> USE AloneHas
<1>1. CASE CreateReadTable(w)
  BY <1>1, CheckedIsDesk DEF CreateReadTable, BetweenWrites
<1>2. CASE CreateInsertOrder(w)
  <2> DEFINE o == req[w].new
             t == req[w].table
  <2>1. o \in OrderId /\ t \in TableId
    BY <1>2 DEF CreateInsertOrder, RequestFits, CreateLabels, CreateRequest
  <2>2. /\ pc[w] = "create.insert" /\ pc'[w] = "create.occupy" /\ req' = req
        /\ orders[o] = NULL
        /\ orders' = [orders EXCEPT ![o] = [table |-> t, status |-> "open"]]
        /\ UNCHANGED <<tables, items, products>>
    BY <1>2 DEF CreateInsertOrder, OrdersCreate, Wrote, TypeOK, RequestsOK
  <2>3. SettledTables = tables /\ tables[t] # NULL
    BY <2>2, QuietTables DEF BetweenWrites, Current
  <2>4. SettledTables' = [SettledTables EXCEPT ![t] = "occupied"]
    <3>1. \A u \in TableId : SettledTable(u)' = IF u = t THEN "occupied" ELSE tables[u]
      BY <2>2, SettledNext DEF Settles
    <3> QED
      BY <2>1, <2>3, <3>1 DEF SettledTables, SchemaOK
  <2>5. Desk!PlaceOrder(o, t)
    BY <2>2, <2>3, <2>4 DEF Desk!PlaceOrder
  <2> QED
    BY <2>1, <2>5 DEF DeskMove, Desk!Next, Desk!Dining
<1>3. CASE CreateOccupyTable(w)
  <2> DEFINE t == req[w].table
  <2>1. /\ pc[w] = "create.occupy" /\ pc'[w] = "create.reply"
        /\ tables' = [tables EXCEPT ![t] = "occupied"]
        /\ UNCHANGED <<orders, items, products>>
    BY <1>3 DEF CreateOccupyTable, TablesUpdateStatus, Wrote, TypeOK, RequestsOK
  <2>2. SettledTables' = tables'
    BY <2>1, QuietTablesNext DEF BetweenWrites
  <2>3. \A u \in TableId : SettledTable(u) = IF u = t THEN "occupied" ELSE tables[u]
    BY <2>1, SettledNow DEF Settles
  <2>4. SettledTables = tables'
    BY <2>1, <2>3 DEF SettledTables, SchemaOK
  <2> QED
    BY <2>1, <2>2, <2>4 DEF DeskMove, Desk!db
<1>4. CASE CreateReadBack(w)
  <2>1. pc[w] = "create.reply" /\ pc'[w] = "idle" /\ UNCHANGED db
    BY <1>4 DEF CreateReadBack, Return, TypeOK, RequestsOK
  <2> QED
    BY <2>1, QuietStutter DEF BetweenWrites
<1> QED
  BY <1>1, <1>2, <1>3, <1>4

LEMMA AddItemIsDesk ==
  ASSUME NEW w \in Worker, Alone(w),
         AddItemReadOrder(w) \/ AddItemReadProduct(w) \/ AddItemInsert(w)
  PROVE  DeskMove
<1> USE AloneHas DEF BetweenWrites
<1>1. CASE AddItemReadOrder(w) \/ AddItemReadProduct(w)
  BY <1>1, CheckedIsDesk DEF AddItemReadOrder, AddItemReadProduct
<1>2. CASE AddItemInsert(w)
  <2> DEFINE i == req[w].new
             o == req[w].order
             p == req[w].product
             q == req[w].quantity
  <2>1. pc[w] = "add.insert"
    BY <1>2 DEF AddItemInsert
  <2>2. i \in ItemId /\ o \in OrderId /\ p \in ProductId /\ q \in Quantity
    BY <2>1 DEF RequestFits, AddLabels, AddRequest
  <2>3. IsOpen(o) /\ products[p] = seen[w] /\ products[p].available
    BY <2>1 DEF Current, RelyingLabels
  <2>4. CASE AddItem(i, o, p, q, seen[w].price) /\ AnswerWrite(w)
    <3>1. SettledTables = tables /\ SettledTables' = tables'
      BY <2>1, <2>4, LastWrite
    <3>2. Desk!AddItem(i, o, p, q, products[p].price)
      BY <2>3, <2>4, <3>1, SameVocabulary DEF AddItem, Desk!AddItem
    <3>3. Desk!OrderProduct(i, o, p, q)
      BY <2>3, <2>4, <3>2, SameVocabulary DEF Desk!OrderProduct, Desk!IsOpen, IsOpen, AddItem
    <3> QED
      BY <2>2, <3>3 DEF DeskMove, Desk!Next, Desk!Dining
  <2>5. CASE Answer(w, "ErrForeignKeyViolation") /\ UNCHANGED db
    BY <2>1, <2>5, RefusedIsDesk
  <2> QED
    BY <1>2, <2>4, <2>5 DEF AddItemInsert
<1> QED
  BY <1>1, <1>2

LEMMA UpdateItemIsDesk ==
  ASSUME NEW w \in Worker, Alone(w),
         UpdateItemReadOrder(w) \/ UpdateItemReadItem(w) \/ UpdateItemWrite(w)
  PROVE  DeskMove
<1> USE AloneHas DEF BetweenWrites
<1>1. CASE UpdateItemReadOrder(w) \/ UpdateItemReadItem(w)
  BY <1>1, CheckedIsDesk DEF UpdateItemReadOrder, UpdateItemReadItem
<1>2. CASE UpdateItemWrite(w)
  <2> DEFINE i == req[w].item
             o == req[w].order
             q == NextQuantity(seen[w].quantity, req[w].quantity)
  <2>1. pc[w] = "edit.write"
    BY <1>2 DEF UpdateItemWrite
  <2>2. i \in ItemId /\ o \in OrderId /\ q \in Quantity
    BY <2>1 DEF RequestFits, RowFits, EditLabels, EditRequest
  <2>3. IsOpen(o)
    BY <2>1 DEF Current, RelyingLabels
  <2>4. CASE i \in ItemsOf(o) /\ UpdateItem(i, q) /\ AnswerWrite(w)
    <3>1. SettledTables = tables /\ SettledTables' = tables'
      BY <2>1, <2>4, LastWrite
    <3>2. Desk!ChangeQuantity(i, o, q)
      BY <2>3, <2>4, <3>1, SameVocabulary
         DEF UpdateItem, Desk!UpdateItem, Desk!ChangeQuantity, Desk!IsOpen, IsOpen
    <3> QED
      BY <2>2, <3>2 DEF DeskMove, Desk!Next, Desk!Dining
  <2>5. CASE Answer(w, "ErrNoRows") /\ UNCHANGED db
    BY <2>1, <2>5, RefusedIsDesk
  <2> QED
    BY <1>2, <2>4, <2>5 DEF UpdateItemWrite
<1> QED
  BY <1>1, <1>2

LEMMA DeleteItemIsDesk ==
  ASSUME NEW w \in Worker, Alone(w), DeleteItemReadOrder(w) \/ DeleteItemWrite(w)
  PROVE  DeskMove
<1> USE AloneHas DEF BetweenWrites
<1>1. CASE DeleteItemReadOrder(w)
  BY <1>1, CheckedIsDesk DEF DeleteItemReadOrder
<1>2. CASE DeleteItemWrite(w)
  <2> DEFINE i == req[w].item
             o == req[w].order
  <2>1. pc[w] = "remove.write"
    BY <1>2 DEF DeleteItemWrite
  <2>2. i \in ItemId /\ o \in OrderId
    BY <2>1 DEF RequestFits, RemoveLabels, RemoveRequest
  <2>3. IsOpen(o)
    BY <2>1 DEF Current, RelyingLabels
  <2>4. CASE i \in ItemsOf(o) /\ DeleteItem(i) /\ AnswerWrite(w)
    <3>1. SettledTables = tables /\ SettledTables' = tables'
      BY <2>1, <2>4, LastWrite
    <3>2. Desk!TakeBack(i, o)
      BY <2>3, <2>4, <3>1, SameVocabulary
         DEF DeleteItem, Desk!DeleteItem, Desk!TakeBack, Desk!IsOpen, IsOpen
    <3> QED
      BY <2>2, <3>2 DEF DeskMove, Desk!Next, Desk!Dining
  <2>5. CASE Answer(w, "ErrOrderItemNotFound") /\ UNCHANGED db
    BY <2>1, <2>5, RefusedIsDesk
  <2> QED
    BY <1>2, <2>4, <2>5 DEF DeleteItemWrite
<1> QED
  BY <1>1, <1>2

\* The write of the order's status is the step of the desk: what is left of the
\* request brings the table to where the desk has it already.
LEMMA StatusWriteIsDesk ==
  ASSUME NEW w \in Worker, Alone(w), UpdateStatusWrite(w)
  PROVE  DeskMove
<1> USE AloneHas
<1> DEFINE o == req[w].order
           status == req[w].status
<1>1. pc[w] = "status.write"
  BY DEF UpdateStatusWrite
<1>2. /\ pc'[w] \in {"status.active", "status.table"} /\ req' = req /\ seen' = seen
      /\ orders' = [orders EXCEPT ![o].status = status]
      /\ UNCHANGED <<tables, items, products>>
  BY DEF UpdateStatusWrite, OrdersUpdateStatus, Wrote, TypeOK, RequestsOK
<1>3. /\ o \in OrderId /\ orders[o] = seen[w] /\ orders[o] \in OrderRow
      /\ canTransitionOrder(orders[o].status, status)
      /\ status = "closed" => NonReadyItems(o) = {}
  BY <1>1 DEF Current, RequestFits, RowFits, StatusLabels, StatusRequest, OrderRow
<1>4. PICK t \in TableId : t = orders[o].table
  BY <1>3 DEF OrderRow
<1>5. SettledTables = tables
  BY <1>1, QuietTables DEF BetweenWrites
<1>6. \A u \in TableId : SettledTable(u)' =
        IF u # t THEN tables[u]
        ELSE IF status = "sent" THEN "waiting"
        ELSE IF HasActiveOrdersByTable(u)' THEN tables[u] ELSE "free"
  BY <1>2, <1>3, <1>4, SettledNext DEF Settles
<1>7. orders[o] # NULL
  BY <1>3, MarkersAreNoValues
<1>8. CASE status = "sent"
  <2>1. SettledTables' = [SettledTables EXCEPT ![t] = "waiting"]
    BY <1>3, <1>5, <1>6, <1>8 DEF SettledTables, SchemaOK
  <2>2. Desk!SendOrder(o)
    BY <1>2, <1>3, <1>4, <1>7, <1>8, <2>1 DEF Desk!SendOrder, Desk!IsOpen, canTransitionOrder
  <2> QED
    BY <1>3, <2>2 DEF DeskMove, Desk!Next, Desk!Dining
<1>9. CASE status # "sent"
  <2>1. SettledTables' = [SettledTables EXCEPT ![t] =
                            IF HasActiveOrdersByTable(t)' THEN @ ELSE "free"]
    BY <1>5, <1>6, <1>9 DEF SettledTables, SchemaOK
  <2>2. Desk!HasActiveOrdersByTable(orders[o].table)' <=> HasActiveOrdersByTable(t)'
    <3>1. (orders[o].table)' = t
      BY <1>2, <1>3, <1>4 DEF SchemaOK
    <3> QED
      BY <3>1 DEF Desk!HasActiveOrdersByTable, HasActiveOrdersByTable
  <2>3. Desk!EndOrder(o, status)
    BY <1>2, <1>4, <2>1, <2>2 DEF Desk!EndOrder
  <2>4. CASE status = "cancelled"
    <3>1. Desk!CancelOrder(o)
      BY <1>3, <1>7, <2>3, <2>4 DEF Desk!CancelOrder, canTransitionOrder
    <3> QED
      BY <1>3, <3>1 DEF DeskMove, Desk!Next, Desk!Dining
  <2>5. CASE status = "closed"
    <3>1. Desk!CloseOrder(o)
      BY <1>3, <1>7, <2>3, <2>5, SameVocabulary DEF Desk!CloseOrder, canTransitionOrder
    <3> QED
      BY <1>3, <3>1 DEF DeskMove, Desk!Next, Desk!Dining
  <2> QED
    BY <1>3, <1>9, <2>4, <2>5 DEF canTransitionOrder
<1> QED
  BY <1>8, <1>9

LEMMA UpdateStatusIsDesk ==
  ASSUME NEW w \in Worker, Alone(w),
         \/ UpdateStatusReadOrder(w) \/ UpdateStatusCountNonReady(w) \/ UpdateStatusWrite(w)
         \/ UpdateStatusHasActive(w) \/ UpdateStatusTable(w) \/ UpdateStatusReadBack(w)
  PROVE  DeskMove
<1> USE AloneHas
<1>1. CASE UpdateStatusReadOrder(w) \/ UpdateStatusCountNonReady(w)
  BY <1>1, CheckedIsDesk DEF UpdateStatusReadOrder, UpdateStatusCountNonReady, BetweenWrites
<1>2. CASE UpdateStatusWrite(w)
  BY <1>2, StatusWriteIsDesk
<1>3. CASE UpdateStatusHasActive(w)
  <2> DEFINE next == IF HasActiveOrdersByTable(seen[w].table) THEN "status.reply"
                     ELSE "status.table"
  <2>1. /\ pc[w] = "status.active" /\ pc'[w] = next /\ req' = req /\ seen'[w] = seen[w]
        /\ UNCHANGED db
    BY <1>3 DEF UpdateStatusHasActive, Continue, TypeOK, RequestsOK
  <2>2. req[w].status # "sent"
    BY <2>1 DEF Current
  <2>3. \A u \in TableId : HasActiveOrdersByTable(u)' = HasActiveOrdersByTable(u)
    BY <2>1 DEF db, HasActiveOrdersByTable
  <2>4. \A u \in TableId : SettledTable(u)' = SettledTable(u)
    BY <2>1, <2>2, <2>3, SettledNow, SettledNext DEF Settles, db
  <2>5. SettledTables' = SettledTables
    BY <2>4 DEF SettledTables
  <2> QED
    BY <2>1, <2>5 DEF DeskMove, Desk!db, db
<1>4. CASE UpdateStatusTable(w)
  <2> DEFINE t == seen[w].table
             final == IF req[w].status = "sent" THEN "waiting" ELSE "free"
  <2>1. /\ pc[w] = "status.table" /\ pc'[w] = "status.reply"
        /\ tables' = [tables EXCEPT ![t] = final]
        /\ UNCHANGED <<orders, items, products>>
    BY <1>4 DEF UpdateStatusTable, TablesUpdateStatus, Wrote, TypeOK, RequestsOK
  <2>2. req[w].status = "sent" \/ ~HasActiveOrdersByTable(t)
    BY <2>1 DEF Current
  <2>3. SettledTables' = tables'
    BY <2>1, QuietTablesNext DEF BetweenWrites
  <2>4. \A u \in TableId : SettledTable(u) = IF u = t THEN final ELSE tables[u]
    BY <2>1, <2>2, SettledNow DEF Settles
  <2>5. SettledTables = tables'
    BY <2>1, <2>4 DEF SettledTables, SchemaOK
  <2> QED
    BY <2>1, <2>3, <2>5 DEF DeskMove, Desk!db
<1>5. CASE UpdateStatusReadBack(w)
  BY <1>5, RefusedIsDesk DEF UpdateStatusReadBack, BetweenWrites
<1> QED
  BY <1>1, <1>2, <1>3, <1>4, <1>5

LEMMA KitchenIsDesk ==
  ASSUME NEW w \in Worker, Alone(w), KitchenStep(w)
  PROVE  DeskMove
<1> USE AloneHas DEF BetweenWrites
<1>1. CASE ItemStatusReadItem(w)
  BY <1>1, CheckedIsDesk DEF ItemStatusReadItem
<1>2. CASE ItemStatusWrite(w)
  <2> DEFINE i == req[w].item
             status == req[w].status
  <2>1. pc[w] = "kitchen.write"
    BY <1>2 DEF ItemStatusWrite
  <2>2. /\ i \in ItemId /\ status \in ItemStatus /\ i \in ItemsOf(req[w].order)
        /\ isForwardItemTransition(items[i].status, status)
    BY <2>1 DEF RequestFits, RowFits, Current, KitchenLabels, KitchenRequest,
                isForwardItemTransition, ItemStatus
  <2>3. /\ UpdateItemStatus(i, status) /\ pc'[w] = "kitchen.reply"
    BY <1>2, <2>2 DEF ItemStatusWrite, Wrote, TypeOK, RequestsOK
  <2>4. SettledTables = tables /\ SettledTables' = tables'
    BY <2>1, <2>3, QuietWrite
  <2>5. Desk!isForwardItemTransition(items[i].status, status) /\ status \in Desk!ItemStatus
    BY <2>2 DEF isForwardItemTransition, Desk!isForwardItemTransition, ItemStatus, Desk!ItemStatus
  <2>6. Desk!AdvanceItem(i)
    BY <2>2, <2>3, <2>4, <2>5, SameVocabulary
       DEF ItemsOf, UpdateItemStatus, Desk!UpdateItemStatus, Desk!AdvanceItem
  <2> QED
    BY <2>2, <2>6 DEF DeskMove, Desk!Next, Desk!Dining
<1>3. CASE ItemStatusReadBack(w)
  BY <1>3, RefusedIsDesk DEF ItemStatusReadBack
<1> QED
  BY <1>1, <1>2, <1>3 DEF KitchenStep

\* A member of staff may set a table to any status: the one step of the server
\* that needs the desk's SetTable.
LEMMA TableIsDesk ==
  ASSUME NEW w \in Worker, Alone(w), TableStep(w)
  PROVE  DeskMove
<1> USE AloneHas DEF BetweenWrites
<1> DEFINE t == req[w].table
<1>1. CASE TableInsert(w)
  <2>1. pc[w] = "table.insert" /\ t \in TableId
    BY <1>1 DEF TableInsert, RequestFits, NewTableRequest
  <2>2. CASE TablesCreate(t) /\ AnswerWrite(w)
    <3>1. SettledTables = tables /\ SettledTables' = tables'
      BY <2>1, <2>2, LastWrite
    <3>2. Desk!AddTable(t)
      BY <2>2, <3>1 DEF TablesCreate, Desk!TablesCreate, Desk!AddTable
    <3> QED
      BY <2>1, <3>2 DEF DeskMove, Desk!Next
  <2>3. CASE Answer(w, "ErrTableNumberAlreadyExists") /\ UNCHANGED db
    BY <2>1, <2>3, RefusedIsDesk
  <2> QED
    BY <1>1, <2>2, <2>3 DEF TableInsert
<1>2. CASE TableStatusWrite(w)
  <2>1. pc[w] = "table.write" /\ t \in TableId
    BY <1>2 DEF TableStatusWrite, RequestFits, TableStatusRequest
  <2>2. CASE isValidTableStatus(req[w].status) /\ TablesUpdateStatus(t, req[w].status) /\ AnswerWrite(w)
    <3>1. SettledTables = tables /\ SettledTables' = tables'
      BY <2>1, <2>2, LastWrite
    <3>2. Desk!SetTable(t, req[w].status)
      BY <2>2, <3>1 DEF TablesUpdateStatus, Desk!TablesUpdateStatus, Desk!SetTable
    <3>3. req[w].status \in Desk!TableStatus
      BY <2>2 DEF isValidTableStatus, TableStatus, Desk!TableStatus
    <3>4. ByHand /\ Desk!NextByHand
      BY <2>1, <3>2, <3>3 DEF ByHand, Desk!NextByHand
    <3> QED
      BY <3>4 DEF DeskMove
  <2>3. ASSUME NEW err, Answer(w, err), UNCHANGED db PROVE DeskMove
    BY <2>1, <2>3, RefusedIsDesk
  <2> QED
    BY <1>2, <2>2, <2>3 DEF TableStatusWrite
<1> QED
  BY <1>1, <1>2 DEF TableStep

LEMMA ProductIsDesk ==
  ASSUME NEW w \in Worker, Alone(w), ProductStep(w)
  PROVE  DeskMove
<1> USE AloneHas DEF BetweenWrites
<1>1. CASE ProductInsert(w)
  <2> DEFINE p == req[w].new
             row == [price |-> req[w].price, available |-> req[w].available]
  <2>1. pc[w] = "product.insert"
    BY <1>1 DEF ProductInsert
  <2>2. p \in ProductId
    BY <2>1 DEF RequestFits, NewProductRequest
  <2>3. CASE req[w].price >= 0 /\ ProductsCreate(p, row) /\ AnswerWrite(w)
    <3>1. SettledTables = tables /\ SettledTables' = tables'
      BY <2>1, <2>3, LastWrite
    <3>2. row \in ProductRow
      BY <2>1, <2>3, CheckConstraints DEF RequestFits, NewProductRequest, ProductRow
    <3>3. Desk!PutOnMenu(p, row)
      BY <2>3, <3>1 DEF ProductsCreate, Desk!ProductsCreate, Desk!PutOnMenu
    <3> QED
      BY <2>2, <3>2, <3>3 DEF DeskMove, Desk!Next, Desk!Menu, Desk!ProductRow, ProductRow
  <2>4. CASE Answer(w, "ErrInvalidProductPrice") /\ UNCHANGED db
    BY <2>1, <2>4, RefusedIsDesk
  <2> QED
    BY <1>1, <2>3, <2>4 DEF ProductInsert
<1>2. CASE ProductRead(w)
  BY <1>2, CheckedIsDesk DEF ProductRead
<1>3. CASE ProductWrite(w)
  <2> DEFINE p == req[w].product
             row == Merged(seen[w], req[w])
  <2>1. pc[w] = "product.write"
    BY <1>3 DEF ProductWrite
  <2>2. p \in ProductId /\ row \in ProductRow
    BY <2>1 DEF RequestFits, RowFits, ProductPatchRequest
  <2> HIDE DEF row
  <2>3. CASE Exists(products[p]) /\ ProductsUpdate(p, row) /\ AnswerWrite(w)
    <3>1. SettledTables = tables /\ SettledTables' = tables'
      BY <2>1, <2>3, LastWrite
    <3>2. Desk!ChangeMenu(p, row)
      BY <2>3, <3>1, SameVocabulary DEF ProductsUpdate, Desk!ProductsUpdate, Desk!ChangeMenu
    <3> QED
      BY <2>2, <3>2 DEF DeskMove, Desk!Next, Desk!Menu, Desk!ProductRow, ProductRow
  <2>4. CASE Answer(w, "ErrProductNotFound") /\ UNCHANGED db
    BY <2>1, <2>4, RefusedIsDesk
  <2> QED
    BY <1>3, <2>3, <2>4 DEF ProductWrite, row
<1>4. CASE ProductDropItems(w)
  <2>1. pc[w] = "drop.items" /\ pc'[w] = "drop.product" /\ UNCHANGED db
    BY <1>4 DEF ProductDropItems, TypeOK, RequestsOK
  <2> QED
    BY <2>1, QuietStutter
<1>5. CASE ProductDrop(w)
  <2> DEFINE p == req[w].product
  <2>1. pc[w] = "drop.product"
    BY <1>5 DEF ProductDrop
  <2>2. p \in ProductId /\ locked[w] = ItemsWithProduct(p)
    BY <2>1 DEF RequestFits, Current, ProductDeleteRequest
  <2>3. CASE Exists(products[p]) /\ ProductsDelete(p, locked[w]) /\ AnswerWrite(w)
    <3>1. SettledTables = tables /\ SettledTables' = tables'
      BY <2>1, <2>3, LastWrite
    <3>2. Desk!TakeOffMenu(p)
      BY <2>2, <2>3, <3>1, SameVocabulary
         DEF ProductsDelete, Desk!ProductsDelete, Desk!TakeOffMenu
    <3> QED
      BY <2>2, <3>2 DEF DeskMove, Desk!Next, Desk!Menu
  <2>4. ASSUME NEW err, Answer(w, err), UNCHANGED db PROVE DeskMove
    BY <2>1, <2>4, RefusedIsDesk
  <2> QED
    BY <1>5, <2>3, <2>4 DEF ProductDrop
<1> QED
  BY <1>1, <1>2, <1>3, <1>4, <1>5 DEF ProductStep

-----------------------------------------------------------------------------
LEMMA DeskInit == OneWorker /\ Init => Desk!Init
<1> SUFFICES ASSUME OneWorker, Init PROVE Desk!Init
  OBVIOUS
<1>1. SettledTables = tables
  <2>1. \A w \in Worker : pc[w] = "idle"
    BY DEF Init
  <2>2. \A t \in TableId : SettledTable(t) = tables[t]
    BY <2>1 DEF SettledTable, Placing, Changing
  <2> QED
    BY <2>2 DEF SettledTables, Init
<1>2. PICK price \in [SeedProducts -> Price] :
        products = [p \in ProductId |->
                      IF p \in SeedProducts THEN [price |-> price[p], available |-> TRUE]
                                            ELSE NULL]
  BY DEF Init
<1>3. products \in [ProductId -> [price : Price, available : {TRUE}] \cup {NULL}]
  BY <1>2
<1>4. \A p \in ProductId : products[p] # NULL <=> p \in SeedProducts
  <2>1. ASSUME NEW p \in SeedProducts PROVE [price |-> price[p], available |-> TRUE] # NULL
    <3>1. price[p] \in Price /\ TRUE \in BOOLEAN
      BY <2>1
    <3> DEFINE row == [price |-> price[p], available |-> TRUE]
    <3>2. row \in ProductRow
      BY <3>1 DEF ProductRow
    <3> HIDE DEF row
    <3>3. row # NULL
      BY <3>2, MarkersAreNoValues
    <3> QED
      BY <3>3 DEF row
  <2> QED
    BY <1>2, <2>1
<1> QED
  BY <1>1, <1>3, <1>4 DEF Init, Desk!Init

\* A request that ends half way leaves the rows, but the desk's table is then
\* the one the database has: no step of the desk.
GiveUp == \E w \in Worker : StatementFails(w)

LEMMA DeskStep ==
  ASSUME OneWorker, AloneInv, AloneInv', [Next]_vars
  PROVE  DeskMove \/ GiveUp
<1>1. TypeOK /\ TypeOK'
  BY DEF AloneInv, IInv
<1>2. CASE UNCHANGED vars
  BY <1>2 DEF vars, request, db, DeskMove, Desk!db, SettledTables, SettledTable, Placing, Changing,
              HasActiveOrdersByTable
<1>3. ASSUME NEW w \in Worker, Arrival(w) \/ Step(w)
      PROVE  DeskMove
  <2>1. Alone(w)
    BY <1>1 DEF Alone
  <2>2. CASE Arrival(w)
    BY <2>1, <2>2, ArrivalIsDesk
  <2>3. CASE OrderStep(w)
    BY <2>1, <2>3, CreateIsDesk, AddItemIsDesk, UpdateItemIsDesk, DeleteItemIsDesk,
       UpdateStatusIsDesk DEF OrderStep
  <2>4. CASE KitchenStep(w) \/ TableStep(w) \/ ProductStep(w)
    BY <2>1, <2>4, KitchenIsDesk, TableIsDesk, ProductIsDesk
  <2> QED
    BY <1>3, <2>2, <2>3, <2>4 DEF Step
<1> QED
  BY <1>2, <1>3 DEF Next, GiveUp

LEMMA NobodyGivesUp ==
  ASSUME ~Faults
  PROVE  ~GiveUp
BY DEF GiveUp, StatementFails

(* One request at a time, and none that fails half way, is the desk: a     *)
(* request of any number of statements has the effect of one step of it.   *)
THEOREM ServerIsTheDesk ==
  ASSUME OneWorker, ~Faults
  PROVE  Spec => ImplementsDesk
<1>1. Init => Desk!Init
  BY DeskInit
<1>2. AloneInv /\ AloneInv' /\ [Next]_vars =>
        [Desk!Next \/ (ByHand /\ Desk!NextByHand)]_(Desk!db)
  BY DeskStep, NobodyGivesUp DEF DeskMove
<1> QED
  BY <1>1, <1>2, AloneInductive, PTL DEF Spec, ImplementsDesk

-----------------------------------------------------------------------------
(***************************************************************************)
(* What is proved of the desk holds of the server.  Rules is the desk as   *)
(* its own theorems know it.                                               *)
(***************************************************************************)
Rules == INSTANCE OrderDesk_proofs WITH tables <- SettledTables,
                                        FirstTables <- SeedTables,
                                        FirstProducts <- SeedProducts

\* Two names for one module's definitions.
LEMMA DeskHasRules ==
  /\ Desk!Init => Rules!Init
  /\ [Desk!NextByHand]_(Desk!db) => [Rules!NextByHand]_(Rules!db)
  /\ [Desk!Next]_(Desk!db) => [Rules!Next]_(Rules!db)
  /\ Desk!TableFollowsOrders <=> Rules!TableFollowsOrders
BY DEF Desk!Init, Rules!Init, Desk!IsOpen, Rules!IsOpen, Desk!PlaceOrder,
       Rules!PlaceOrder, Desk!OrderProduct, Rules!OrderProduct, Desk!ChangeQuantity,
       Rules!ChangeQuantity, Desk!TakeBack, Rules!TakeBack, Desk!SendOrder,
       Rules!SendOrder, Desk!EndOrder, Rules!EndOrder, Desk!CancelOrder,
       Rules!CancelOrder, Desk!CloseOrder, Rules!CloseOrder, Desk!AdvanceItem,
       Rules!AdvanceItem, Desk!PutOnMenu, Rules!PutOnMenu, Desk!ChangeMenu,
       Rules!ChangeMenu, Desk!TakeOffMenu, Rules!TakeOffMenu, Desk!AddTable,
       Rules!AddTable, Desk!SetTable, Rules!SetTable, Desk!Dining, Rules!Dining,
       Desk!Menu, Rules!Menu, Desk!Next, Rules!Next, Desk!NextByHand, Rules!NextByHand,
       Desk!db, Rules!db, Desk!Exists, Rules!Exists, Desk!AddItem, Rules!AddItem,
       Desk!UpdateItem, Rules!UpdateItem, Desk!DeleteItem, Rules!DeleteItem,
       Desk!UpdateItemStatus, Rules!UpdateItemStatus, Desk!ItemsOf, Rules!ItemsOf,
       Desk!NonReadyItems, Rules!NonReadyItems, Desk!HasActiveOrdersByTable,
       Rules!HasActiveOrdersByTable, Desk!ItemsWithProduct, Rules!ItemsWithProduct,
       Desk!ProductsCreate, Rules!ProductsCreate, Desk!ProductsUpdate,
       Rules!ProductsUpdate, Desk!ProductsDelete, Rules!ProductsDelete, Desk!TablesCreate,
       Rules!TablesCreate, Desk!TablesUpdateStatus, Rules!TablesUpdateStatus,
       Desk!TableStatus, Rules!TableStatus, Desk!OrderStatus, Rules!OrderStatus,
       Desk!ItemStatus, Rules!ItemStatus, Desk!OrderRow, Rules!OrderRow, Desk!ItemRow,
       Rules!ItemRow, Desk!ProductRow, Rules!ProductRow, Desk!isForwardItemTransition,
       Rules!isForwardItemTransition, Desk!TableFollowsOrders, Rules!TableFollowsOrders,
       Desk!ClosedMeansReady, Rules!ClosedMeansReady

LEMMA RulesInit ==
  ASSUME OneWorker, Init
  PROVE  Rules!RowsInv /\ Rules!OrdersHaveTables
<1>1. Rules!Init
  BY DeskInit, DeskHasRules
<1> QED
  BY <1>1, Rules!InitIInv, CheckConstraints, MarkersAreNoValues, SeedRows
     DEF Rules!IInv, Rules!TableStatus, Rules!OrderStatus, Rules!ItemStatus, Rules!OrderRow, Rules!ItemRow,
         Rules!ProductRow, TableStatus, OrderStatus, ItemStatus, OrderRow, ItemRow, ProductRow

LEMMA RulesStep ==
  ASSUME OneWorker, AloneInv, AloneInv', [Next]_vars, ~GiveUp, Rules!RowsInv
  PROVE  Rules!GoodStep
<1>1. [Desk!NextByHand]_(Desk!db)
  BY DeskStep DEF DeskMove, Desk!NextByHand
<1>2. [Rules!NextByHand]_(Rules!db)
  BY <1>1, DeskHasRules
<1> QED
  BY <1>2, Rules!StepGood, CheckConstraints, MarkersAreNoValues, SeedRows
     DEF Rules!TableStatus, Rules!OrderStatus, Rules!ItemStatus, Rules!OrderRow, Rules!ItemRow,
         Rules!ProductRow, TableStatus, OrderStatus, ItemStatus, OrderRow, ItemRow, ProductRow

\* A request that ends half way breaks no rule but those about tables.
LEMMA GiveUpRules ==
  ASSUME OneWorker, AloneInv, AloneInv', GiveUp, Rules!RowsInv
  PROVE  Rules!RowsInv' /\ Rules!Final
<1>1. PICK w \in Worker : StatementFails(w)
  BY DEF GiveUp
<1>2. TypeOK /\ TypeOK' /\ SchemaOK /\ SchemaOK'
  BY DEF AloneInv, IInv, TypeOK
<1>3. pc'[w] = "idle" /\ UNCHANGED <<orders, items, products, tables>>
  BY <1>1, <1>2, AnsweredIdle DEF StatementFails, db
<1>4. SettledTables' = tables'
  BY <1>2, <1>3, QuietTablesNext DEF BetweenWrites
<1>5. Rules!SchemaOK'
  BY <1>2, <1>4 DEF SchemaOK, Rules!SchemaOK, Rules!TableStatus, Rules!OrderStatus,
     Rules!ItemStatus, Rules!OrderRow, Rules!ItemRow, Rules!ProductRow, TableStatus, OrderStatus,
     ItemStatus, OrderRow, ItemRow, ProductRow
<1>6. Rules!ItemsHaveProducts' /\ Rules!ClosedMeansReady'
  BY <1>3 DEF Rules!RowsInv, Rules!ItemsHaveProducts, Rules!ClosedMeansReady,
              Rules!NonReadyItems, Rules!ItemsOf, Rules!Exists
<1>7. Rules!Final
  BY <1>3 DEF Rules!Final, Rules!ItemsOf, Rules!Exists
<1> QED
  BY <1>5, <1>6, <1>7 DEF Rules!RowsInv

LEMMA RowsStep ==
  ASSUME OneWorker, AloneInv, AloneInv', [Next]_vars, Rules!RowsInv
  PROVE  Rules!RowsInv' /\ Rules!Final
<1>1. CASE GiveUp
  BY <1>1, GiveUpRules
<1>2. CASE ~GiveUp
  <2>1. Rules!GoodStep
    BY <1>2, RulesStep
  <2>2. Rules!RowsInv'
    BY <2>1, Rules!GoodStepKeeps, CheckConstraints, MarkersAreNoValues, SeedRows
       DEF Rules!TableStatus, Rules!OrderStatus, Rules!ItemStatus, Rules!OrderRow, Rules!ItemRow,
           Rules!ProductRow, TableStatus, OrderStatus, ItemStatus, OrderRow, ItemRow, ProductRow
  <2> QED
    BY <2>1, <2>2 DEF Rules!GoodStep
<1> QED
  BY <1>1, <1>2

LEMMA ServerKeepsRows ==
  ASSUME OneWorker
  PROVE  Spec => [](AloneInv /\ Rules!RowsInv)
<1>1. AloneInv /\ AloneInv' /\ Rules!RowsInv /\ [Next]_vars => Rules!RowsInv'
  BY RowsStep
<1>2. Init => Rules!RowsInv
  BY RulesInit
<1> QED
  BY <1>1, <1>2, AloneInductive, PTL DEF Spec

(* ErrOrderCloseRequiresReady keeps its word when requests do not race,    *)
(* whichever statements fail: it takes two requests to close an order over *)
(* an item that is not ready.                                              *)
THEOREM AloneClosedIsReady ==
  ASSUME OneWorker
  PROVE  Spec => []ClosedOrderIsReady
<1>1. Rules!RowsInv => ClosedOrderIsReady
  BY DEF Rules!RowsInv, Rules!ClosedMeansReady, ClosedOrderIsReady, Rules!NonReadyItems,
         NonReadyItems, Rules!ItemsOf, ItemsOf, Rules!Exists, Exists
<1> QED
  BY <1>1, ServerKeepsRows, PTL

(* An order that was closed or cancelled never changes again, nor do the   *)
(* items of a closed one, whichever statements fail.                       *)
THEOREM AloneEndIsFinal ==
  ASSUME OneWorker
  PROVE  Spec => Desk!EndedOrderIsFinal
<1>1. /\ AloneInv /\ AloneInv' /\ Rules!RowsInv /\ [Next]_vars =>
        [\A o \in OrderId :
           orders[o] # NULL /\ orders[o].status \in {"closed", "cancelled"} =>
             /\ orders'[o] = orders[o]
             /\ Desk!ItemsOf(o)' \subseteq Desk!ItemsOf(o)
             /\ orders[o].status = "closed" =>
                  \A i \in Desk!ItemsOf(o)' : items'[i] = items[i]]_(Desk!db)
  BY RowsStep DEF Rules!Final, Rules!ItemsOf, Desk!ItemsOf, Rules!Exists,
                   Desk!Exists
<1> QED
  BY <1>1, AloneInductive, ServerKeepsRows, PTL DEF Spec, Desk!EndedOrderIsFinal

-----------------------------------------------------------------------------
(* Tables that nobody sets by hand. *)

NobodySetsTables == "tables.UpdateStatus" \notin Endpoint

\* Only the arrival of that request leads to its statement.
LEMMA NotByHandStep ==
  ASSUME NobodySetsTables, IInv, ~ByHand, [Next]_vars
  PROVE  ~ByHand'
<1>1. CASE UNCHANGED vars
  BY <1>1 DEF vars, request, ByHand
<1>2. ASSUME NEW w \in Worker, Arrival(w) \/ Step(w) \/ StatementFails(w)
      PROVE  ~ByHand'
  <2>1. \A v \in Worker : pc[v] # "table.write"
    BY DEF ByHand
  <2>2. pc \in [Worker -> Labels \cup {"idle"}]
    BY DEF IInv, TypeOK, RequestsOK
  <2>3. ASSUME NEW label, label # "table.write", pc' = [pc EXCEPT ![w] = label]
        PROVE  ~ByHand'
    BY <2>1, <2>2, <2>3 DEF ByHand
  <2>4. ASSUME NEW err, Return(w, err) PROVE ~ByHand'
    BY <2>3, <2>4 DEF Return
  <2>5. ASSUME NEW err, NEW label, NEW row, label # "table.write", Checked(w, err, label, row)
        PROVE  ~ByHand'
    BY <2>3, <2>4, <2>5 DEF Checked, Answer, Continue
  <2>6. CASE Arrival(w)
    <3>1. ASSUME NEW endpoint, NEW label, NEW r, Receive(w, endpoint, label, r),
                 label # "table.write"
          PROVE  ~ByHand'
      BY <2>3, <3>1 DEF Receive
    <3>2. ~ReceiveTableStatus(w)
      BY DEF ReceiveTableStatus, Receive, NobodySetsTables
    <3> QED
      BY <2>6, <3>1, <3>2 DEF Arrival, OrderRequest, ReceiveCreate, ReceiveAddItem,
         ReceiveUpdateItem, ReceiveDeleteItem, ReceiveUpdateStatus, ReceiveItemStatus,
         ReceiveNewTable, ReceiveNewProduct, ReceiveProductPatch, ReceiveProductDelete
  <2>7. CASE OrderStep(w)
    <3>1. CASE \/ CreateReadTable(w) \/ CreateInsertOrder(w)
               \/ CreateOccupyTable(w) \/ CreateReadBack(w)
      BY <2>3, <2>4, <2>5, <3>1 DEF CreateReadTable, CreateInsertOrder, CreateOccupyTable,
         CreateReadBack, Wrote
    <3>2. CASE AddItemReadOrder(w) \/ AddItemReadProduct(w) \/ AddItemInsert(w)
      BY <2>4, <2>5, <3>2 DEF AddItemReadOrder, AddItemReadProduct, AddItemInsert, AnswerWrite,
         Answer
    <3>3. CASE \/ UpdateItemReadOrder(w) \/ UpdateItemReadItem(w) \/ UpdateItemWrite(w)
               \/ DeleteItemReadOrder(w) \/ DeleteItemWrite(w)
      BY <2>4, <2>5, <3>3 DEF UpdateItemReadOrder, UpdateItemReadItem, UpdateItemWrite,
         DeleteItemReadOrder, DeleteItemWrite, AnswerWrite, Answer
    <3>4. CASE UpdateStatusReadOrder(w) \/ UpdateStatusCountNonReady(w)
      BY <2>5, <3>4 DEF UpdateStatusReadOrder, UpdateStatusCountNonReady
    <3>5. CASE UpdateStatusWrite(w) \/ UpdateStatusTable(w)
      BY <2>3, <3>5 DEF UpdateStatusWrite, UpdateStatusTable, Wrote
    <3>6. CASE UpdateStatusHasActive(w) \/ UpdateStatusReadBack(w)
      BY <2>3, <2>4, <3>6 DEF UpdateStatusHasActive, UpdateStatusReadBack, Continue, Answer
    <3> QED
      BY <2>7, <3>1, <3>2, <3>3, <3>4, <3>5, <3>6 DEF OrderStep
  <2>8. CASE KitchenStep(w)
    BY <2>3, <2>4, <2>5, <2>8 DEF KitchenStep, ItemStatusReadItem, ItemStatusWrite,
       ItemStatusReadBack, Wrote, Answer
  <2>9. CASE TableStep(w)
    BY <2>4, <2>9 DEF TableStep, TableInsert, TableStatusWrite, AnswerWrite, Answer
  <2>10. CASE ProductStep(w)
    BY <2>3, <2>4, <2>5, <2>10 DEF ProductStep, ProductInsert, ProductRead, ProductWrite,
       ProductDropItems, ProductDrop, AnswerWrite, Answer
  <2>11. CASE StatementFails(w)
    BY <2>4, <2>11 DEF StatementFails, Answer
  <2> QED
    BY <1>2, <2>6, <2>7, <2>8, <2>9, <2>10, <2>11 DEF Step
<1> QED
  BY <1>1, <1>2 DEF Next

LEMMA AloneTablesStep ==
  ASSUME OneWorker, ~Faults, AloneInv, AloneInv', ~ByHand, [Next]_vars, Rules!IInv,
         Rules!TableFollowsOrders
  PROVE  Rules!IInv' /\ Rules!TableFollowsOrders'
<1>1. [Rules!Next]_(Rules!db)
  <2>1. [Desk!Next]_(Desk!db)
    BY DeskStep, NobodyGivesUp DEF DeskMove
  <2> QED
    BY <2>1, DeskHasRules
<1>2. Rules!IInv'
  BY NobodyGivesUp, RulesStep, RowsStep DEF Rules!IInv, Rules!GoodStep
<1> QED
  BY <1>1, <1>2, Rules!StepFollows, CheckConstraints, MarkersAreNoValues, SeedRows
     DEF Rules!TableStatus, Rules!OrderStatus, Rules!ItemStatus, Rules!OrderRow, Rules!ItemRow,
         Rules!ProductRow, TableStatus, OrderStatus, ItemStatus, OrderRow, ItemRow, ProductRow

(* Between two requests a table is free exactly while no order of it is    *)
(* open or sent.  Within a request it is so of the table as the request    *)
(* will leave it.                                                          *)
RestingTablesFollowOrders ==
  (\A w \in Worker : pc[w] = "idle") =>
    \A t \in TableId :
      tables[t] # NULL => (tables[t] = "free" <=> ~HasActiveOrdersByTable(t))

THEOREM AloneTablesFollow ==
  ASSUME OneWorker, ~Faults, NobodySetsTables
  PROVE  Spec => []RestingTablesFollowOrders
<1>1. Init => ~ByHand /\ Rules!IInv /\ Rules!TableFollowsOrders
  <2> SUFFICES ASSUME Init PROVE ~ByHand /\ Rules!IInv /\ Rules!TableFollowsOrders
    OBVIOUS
  <2>1. ~ByHand
    BY DEF Init, ByHand
  <2>2. Rules!Init
    BY DeskInit, DeskHasRules
  <2>3. Rules!TableFollowsOrders
    BY <2>2 DEF Rules!Init, Rules!TableFollowsOrders, Rules!HasActiveOrdersByTable
  <2> QED
    BY <2>1, <2>3, RulesInit DEF Rules!IInv
<1>2. AloneInv /\ ~ByHand /\ [Next]_vars => ~ByHand'
  BY NotByHandStep DEF AloneInv
<1>3. AloneInv /\ AloneInv' /\ Rules!IInv /\ ~ByHand /\ Rules!TableFollowsOrders /\ [Next]_vars =>
        Rules!IInv' /\ Rules!TableFollowsOrders'
  BY AloneTablesStep
<1>4. AloneInv /\ Rules!TableFollowsOrders => RestingTablesFollowOrders
  <2> SUFFICES ASSUME AloneInv, Rules!TableFollowsOrders, \A w \in Worker : pc[w] = "idle"
               PROVE  \A t \in TableId :
                        tables[t] # NULL => (tables[t] = "free" <=> ~HasActiveOrdersByTable(t))
    BY DEF RestingTablesFollowOrders
  <2>1. \A t \in TableId : SettledTable(t) = tables[t]
    BY DEF SettledTable, Placing, Changing
  <2>2. SettledTables = tables
    BY <2>1 DEF SettledTables, AloneInv, IInv, TypeOK, SchemaOK
  <2> QED
    BY <2>2 DEF Rules!TableFollowsOrders, Rules!HasActiveOrdersByTable, HasActiveOrdersByTable
<1> QED
  BY <1>1, <1>2, <1>3, <1>4, AloneInductive, PTL DEF Spec
=============================================================================
