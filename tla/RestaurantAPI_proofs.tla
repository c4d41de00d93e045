------------------------ MODULE RestaurantAPI_proofs ------------------------
(***************************************************************************)
(* Theorems about the server, for any number of workers, rows, routes and  *)
(* failures.  The properties are not inductive: they depend on what each   *)
(* worker checked before the statement it is about to run, and on how far  *)
(* the row it checked may have moved since.  IInv says both; LockInv, near *)
(* the end, adds what an open transaction has deleted so far.              *)
(***************************************************************************)
EXTENDS RestaurantAPI, Repository_proofs

\* Each handler holds a request of its own route.
RequestFits(label, r) ==
  /\ label \in CreateLabels  => r \in CreateRequest
  /\ label \in AddLabels     => r \in AddRequest
  /\ label \in EditLabels    => r \in EditRequest
  /\ label \in RemoveLabels  => r \in RemoveRequest
  /\ label \in StatusLabels  => r \in StatusRequest
  /\ label \in KitchenLabels => r \in KitchenRequest
  /\ label = "table.insert"   => r \in NewTableRequest
  /\ label = "table.write"    => r \in TableStatusRequest
  /\ label = "product.insert" => r \in NewProductRequest
  /\ label \in {"product.read", "product.write"} => r \in ProductPatchRequest
  /\ label \in {"drop.items", "drop.product"}    => r \in ProductDeleteRequest

\* The row a handler holds has passed the checks before the next statement.
RowFits(label, r, row) ==
  /\ label = "add.insert"    => row \in ProductRow
  /\ label = "edit.write"    => row \in ItemRow /\ NextQuantity(row.quantity, r.quantity) \in Quantity
  /\ label = "product.write" => Merged(row, r) \in ProductRow
  /\ label = "kitchen.write" => isForwardItemTransition(row.status, r.status)
  /\ label \in {"status.count", "status.write"} => canTransitionOrder(row.status, r.status)
  /\ label \in {"status.count", "status.write", "status.active", "status.table"} =>
       row \in OrderRow

\* The row may have moved since it was read, but not back to where it was
\* before: an order read as sent is not open, an item read as preparing is
\* not pending.
NotBehind(label, r, row) ==
  /\ label \in {"status.count", "status.write"} =>
       /\ orders[r.order] # NULL
       /\ row.status = "sent" => orders[r.order].status # "open"
  /\ label = "kitchen.write" =>
       /\ items[r.item] # NULL
       /\ Exists(items[r.item]) /\ row.status = "preparing" => items[r.item].status # "pending"

\* The statements a handler executes after it has written.
AfterWrite == {"create.occupy", "create.reply", "status.active", "status.table",
               "status.reply", "kitchen.reply"}

\* Nothing is written before the first write, nor by a refused request.
NoTrace(label, code, written) ==
  /\ label \in Labels \ AfterWrite => ~written
  /\ label = "idle" /\ IsRefusal(code) => ~written

IInv ==
  /\ TypeOK
  /\ ItemsHaveProducts
  /\ \A w \in Worker : /\ RequestFits(pc[w], req[w])
                       /\ RowFits(pc[w], req[w], seen[w])
                       /\ NotBehind(pc[w], req[w], seen[w])
                       /\ NoTrace(pc[w], reply[w], wrote[w])

-----------------------------------------------------------------------------
\* How one statement may move an order and an item.
OrderMoves ==
  \A o \in OrderId : orders[o] # NULL =>
    /\ orders'[o] # NULL
    /\ orders[o] # orders'[o] =>
         /\ orders'[o].status # "open"
         /\ orders[o].status = "open" => orders'[o].status # "closed"

ItemMoves ==
  \A i \in ItemId : items[i] # NULL =>
    /\ items'[i] # NULL
    /\ Exists(items'[i]) =>
         /\ Exists(items[i])
         /\ items[i].status # items'[i].status =>
              /\ items'[i].status # "pending"
              /\ items[i].status = "pending" => items'[i].status = "preparing"

\* What every statement must do to the database.
GoodWrite == SchemaOK' /\ ItemsHaveProducts' /\ OrderMoves /\ ItemMoves

\* The other workers are where they were.
OthersStay(w) ==
  \A v \in Worker \ {w} :
    /\ pc'[v] = pc[v] /\ req'[v] = req[v] /\ seen'[v] = seen[v]
    /\ reply'[v] = reply[v] /\ wrote'[v] = wrote[v]

Rows == OrderRow \cup ItemRow \cup ProductRow \cup {NULL}

LEMMA NoWriteIsGood ==
  ASSUME SchemaOK, ItemsHaveProducts, UNCHANGED db
  PROVE  GoodWrite
<1>1. SchemaOK' /\ ItemsHaveProducts'
  BY DEF db, SchemaOK, ItemsHaveProducts, Exists
<1>2. OrderMoves /\ ItemMoves
  BY DEF db, OrderMoves, ItemMoves, Exists
<1> QED
  BY <1>1, <1>2 DEF GoodWrite

\* A worker does not fall behind because another one writes.
LEMMA OthersFit ==
  ASSUME IInv, GoodWrite, NEW w \in Worker, OthersStay(w), NEW v \in Worker \ {w}
  PROVE  /\ RequestFits(pc[v], req[v])'
         /\ RowFits(pc[v], req[v], seen[v])'
         /\ NotBehind(pc[v], req[v], seen[v])'
         /\ NoTrace(pc[v], reply[v], wrote[v])'
<1>1. /\ pc'[v] = pc[v] /\ req'[v] = req[v] /\ seen'[v] = seen[v]
      /\ reply'[v] = reply[v] /\ wrote'[v] = wrote[v]
  BY DEF OthersStay
<1>2. RequestFits(pc[v], req[v])'
  BY <1>1 DEF IInv, RequestFits
<1>3. RowFits(pc[v], req[v], seen[v])'
  BY <1>1 DEF IInv, RowFits
<1>4. NoTrace(pc[v], reply[v], wrote[v])'
  BY <1>1 DEF IInv, NoTrace
<1>5. NotBehind(pc[v], req[v], seen[v])'
  <2>1. RequestFits(pc[v], req[v]) /\ NotBehind(pc[v], req[v], seen[v])
    BY DEF IInv
  <2>2. ASSUME pc[v] \in {"status.count", "status.write"}
        PROVE  /\ orders'[req[v].order] # NULL
               /\ seen[v].status = "sent" => orders'[req[v].order].status # "open"
    <3>1. req[v].order \in OrderId
      BY <2>1, <2>2 DEF RequestFits, StatusLabels, StatusRequest
    <3> QED
      BY <2>1, <2>2, <3>1 DEF NotBehind, GoodWrite, OrderMoves
  <2>3. ASSUME pc[v] = "kitchen.write"
        PROVE  /\ items'[req[v].item] # NULL
               /\ Exists(items'[req[v].item]) /\ seen[v].status = "preparing" =>
                    items'[req[v].item].status # "pending"
    <3>1. req[v].item \in ItemId
      BY <2>1, <2>3 DEF RequestFits, KitchenLabels, KitchenRequest
    <3> QED
      BY <2>1, <2>3, <3>1 DEF NotBehind, GoodWrite, ItemMoves
  <2> QED
    BY <1>1, <2>2, <2>3 DEF NotBehind, Exists
<1> QED
  BY <1>2, <1>3, <1>4, <1>5

\* The worker that moves only has to answer for itself.
LEMMA WorkerStep ==
  ASSUME IInv, GoodWrite, RequestsOK', NEW w \in Worker, OthersStay(w),
         RequestFits(pc[w], req[w])', RowFits(pc[w], req[w], seen[w])',
         NotBehind(pc[w], req[w], seen[w])', NoTrace(pc[w], reply[w], wrote[w])'
  PROVE  IInv' /\ GoodWrite
BY OthersFit DEF IInv, TypeOK, GoodWrite

-----------------------------------------------------------------------------
(* One lemma for each way a handler goes on. *)

\* The statement a handler starts with.
First == {"create.table", "add.order", "edit.order", "remove.order", "status.order",
          "kitchen.item", "table.insert", "table.write", "product.insert",
          "product.read", "drop.items"}

LEMMA ReceiveKeeps ==
  ASSUME IInv, NEW w \in Worker, NEW endpoint, NEW label \in First, NEW r \in Request,
         Receive(w, endpoint, label, r), RequestFits(label, r)
  PROVE  IInv' /\ GoodWrite
<1>1. /\ pc'[w] = label /\ req'[w] = r /\ reply'[w] = NULL /\ wrote'[w] = FALSE
      /\ RequestsOK' /\ OthersStay(w)
  <2>1. label \in Labels
    BY DEF First, Labels, CreateLabels, AddLabels, EditLabels, RemoveLabels, StatusLabels,
           KitchenLabels, TableLabels, ProductLabels
  <2> QED
    BY <2>1 DEF Receive, IInv, TypeOK, RequestsOK, OthersStay
<1>2. GoodWrite
  BY NoWriteIsGood DEF Receive, IInv, TypeOK
<1>3. RequestFits(pc[w], req[w])'
  BY <1>1 DEF RequestFits
<1>4. RowFits(pc[w], req[w], seen[w])' /\ NotBehind(pc[w], req[w], seen[w])'
  BY <1>1 DEF First, RowFits, NotBehind
<1>5. NoTrace(pc[w], reply[w], wrote[w])'
  BY <1>1 DEF NoTrace
<1> QED
  BY <1>1, <1>2, <1>3, <1>4, <1>5, WorkerStep

LEMMA ContinueKeeps ==
  ASSUME IInv, NEW w \in Worker, NEW label \in Labels, NEW row \in Rows,
         Continue(w, label, row), UNCHANGED db,
         RequestFits(label, req[w]), RowFits(label, req[w], row),
         NotBehind(label, req[w], row), NoTrace(label, reply[w], wrote[w])
  PROVE  IInv' /\ GoodWrite
<1>1. /\ pc'[w] = label /\ seen'[w] = row /\ req'[w] = req[w]
      /\ reply'[w] = reply[w] /\ wrote'[w] = wrote[w]
      /\ RequestsOK' /\ OthersStay(w)
  BY DEF Continue, IInv, TypeOK, RequestsOK, OthersStay, Rows
<1>2. GoodWrite
  BY NoWriteIsGood DEF IInv, TypeOK
<1>3. RequestFits(pc[w], req[w])'
  BY <1>1 DEF RequestFits
<1>4. RowFits(pc[w], req[w], seen[w])'
  BY <1>1 DEF RowFits
<1>5. NotBehind(pc[w], req[w], seen[w])'
  BY <1>1 DEF NotBehind, db, Exists
<1>6. NoTrace(pc[w], reply[w], wrote[w])'
  BY <1>1 DEF NoTrace
<1> QED
  BY <1>1, <1>2, <1>3, <1>4, <1>5, <1>6, WorkerStep

LEMMA WroteKeeps ==
  ASSUME IInv, GoodWrite, NEW w \in Worker, NEW label \in AfterWrite, Wrote(w, label),
         RequestFits(label, req[w]), RowFits(label, req[w], seen[w])
  PROVE  IInv' /\ GoodWrite
<1>1. /\ pc'[w] = label /\ seen'[w] = seen[w] /\ req'[w] = req[w]
      /\ RequestsOK' /\ OthersStay(w)
  <2>1. label \in Labels
    BY DEF AfterWrite, Labels, CreateLabels, StatusLabels, KitchenLabels
  <2> QED
    BY <2>1 DEF Wrote, IInv, TypeOK, RequestsOK, OthersStay
<1>2. RequestFits(pc[w], req[w])' /\ RowFits(pc[w], req[w], seen[w])'
  BY <1>1 DEF RequestFits, RowFits
<1>3. NotBehind(pc[w], req[w], seen[w])' /\ NoTrace(pc[w], reply[w], wrote[w])'
  BY <1>1 DEF NotBehind, NoTrace, AfterWrite
<1> QED
  BY <1>1, <1>2, <1>3, WorkerStep

LEMMA ReturnKeeps ==
  ASSUME IInv, GoodWrite, NEW w \in Worker, NEW err, Return(w, err),
         wrote' \in [Worker -> BOOLEAN], \A v \in Worker \ {w} : wrote'[v] = wrote[v],
         told' \in SUBSET OrderId, IsRefusal(HttpStatus(err)) => ~wrote'[w]
  PROVE  IInv' /\ GoodWrite
<1>1. HttpStatus(err) \in HttpCode
  BY DEF HttpStatus, HttpCode
<1>2. /\ pc'[w] = "idle" /\ reply'[w] = HttpStatus(err)
      /\ RequestsOK' /\ OthersStay(w)
  BY <1>1 DEF Return, IInv, TypeOK, RequestsOK, OthersStay
<1>3. RequestFits(pc[w], req[w])'
  BY <1>2 DEF RequestFits, CreateLabels, AddLabels, EditLabels, RemoveLabels, StatusLabels,
              KitchenLabels
<1>4. RowFits(pc[w], req[w], seen[w])' /\ NotBehind(pc[w], req[w], seen[w])'
  BY <1>2 DEF RowFits, NotBehind
<1>5. NoTrace(pc[w], reply[w], wrote[w])'
  BY <1>2 DEF NoTrace, Labels, CreateLabels, AddLabels, EditLabels, RemoveLabels,
              StatusLabels, KitchenLabels, TableLabels, ProductLabels
<1> QED
  BY <1>2, <1>3, <1>4, <1>5, WorkerStep

\* The answers that are not refusals.
LEMMA NotRefused ==
  ASSUME NEW err \in {"nil", "ErrNoRows", "ErrConnectionLost"}
  PROVE  ~IsRefusal(HttpStatus(err))
BY DEF HttpStatus, IsRefusal, BadRequestErrors, NotFoundErrors, ConflictErrors

\* A handler that has written answers with a success or an internal error.
LEMMA AnswerKeeps ==
  ASSUME IInv, NEW w \in Worker, NEW err, Answer(w, err), UNCHANGED db,
         pc[w] \in Labels \ AfterWrite \/ ~IsRefusal(HttpStatus(err))
  PROVE  IInv' /\ GoodWrite
<1>1. GoodWrite
  BY NoWriteIsGood DEF IInv, TypeOK
<1>2. IsRefusal(HttpStatus(err)) => ~wrote'[w]
  BY DEF Answer, IInv, NoTrace
<1> QED
  BY <1>1, <1>2, ReturnKeeps DEF Answer, IInv, TypeOK, RequestsOK

LEMMA AnswerWriteKeeps ==
  ASSUME IInv, GoodWrite, NEW w \in Worker, AnswerWrite(w)
  PROVE  IInv' /\ GoodWrite
<1>1. PICK err \in {"nil", "ErrConnectionLost"} : Return(w, err)
  BY DEF AnswerWrite
<1>2. ~IsRefusal(HttpStatus(err))
  BY NotRefused
<1>3. wrote' = [wrote EXCEPT ![w] = TRUE] /\ told' = told
  BY DEF AnswerWrite
<1> QED
  BY <1>1, <1>2, <1>3, ReturnKeeps DEF IInv, TypeOK, RequestsOK

\* A read and its checks: it is enough that the row passes them.
LEMMA CheckedKeeps ==
  ASSUME IInv, NEW w \in Worker, pc[w] \in Labels \ AfterWrite, NEW err, NEW label, NEW row,
         Checked(w, err, label, row),
         err = "nil" => /\ label \in Labels
                        /\ label \in AfterWrite => label = "status.reply"
                        /\ row \in Rows
                        /\ RequestFits(label, req[w])
                        /\ RowFits(label, req[w], row)
                        /\ NotBehind(label, req[w], row)
  PROVE  IInv' /\ GoodWrite
<1>1. CASE err # "nil"
  BY <1>1, AnswerKeeps DEF Checked
<1>2. CASE err = "nil"
  <2>1. Continue(w, label, row) /\ UNCHANGED db
    BY <1>2 DEF Checked
  <2>2. NoTrace(label, reply[w], wrote[w])
    BY <1>2 DEF IInv, NoTrace, Labels, CreateLabels, AddLabels, EditLabels, RemoveLabels,
                StatusLabels, KitchenLabels, TableLabels, ProductLabels
  <2> QED
    BY <1>2, <2>1, <2>2, ContinueKeeps
<1> QED
  BY <1>1, <1>2

-----------------------------------------------------------------------------
(* The order service. *)

LEMMA OrderRequestKeeps ==
  ASSUME IInv, NEW w \in Worker, OrderRequest(w)
  PROVE  IInv' /\ GoodWrite
<1> USE DEF First, Request, RequestFits, CreateLabels, AddLabels, EditLabels, RemoveLabels,
            StatusLabels, KitchenLabels
<1>1. CASE ReceiveCreate(w)
  <2>1. PICK o \in OrderId, t \in TableId :
          Receive(w, "orders.Create", "create.table", [new |-> o, table |-> t])
    BY <1>1 DEF ReceiveCreate, Fresh, IInv, TypeOK, SchemaOK
  <2>2. [new |-> o, table |-> t] \in CreateRequest
    BY DEF CreateRequest
  <2> QED
    BY <2>1, <2>2, ReceiveKeeps
<1>2. CASE ReceiveAddItem(w)
  <2>1. PICK i \in ItemId, o \in OrderId, p \in ProductId, q \in Quantity :
          Receive(w, "orders.AddItem", "add.order",
                  [new |-> i, order |-> o, product |-> p, quantity |-> q])
    BY <1>2 DEF ReceiveAddItem, Fresh, Named, NamedOrders, IInv, TypeOK, SchemaOK, RequestsOK
  <2>2. [new |-> i, order |-> o, product |-> p, quantity |-> q] \in AddRequest
    BY DEF AddRequest
  <2> QED
    BY <2>1, <2>2, ReceiveKeeps
<1>3. CASE ReceiveUpdateItem(w)
  <2>1. PICK o \in OrderId, i \in ItemId, q \in Quantity \cup {0, NULL} :
          Receive(w, "orders.UpdateItem", "edit.order",
                  [order |-> o, item |-> i, quantity |-> q])
    BY <1>3 DEF ReceiveUpdateItem, Fresh, Named, NamedOrders, IInv, TypeOK, SchemaOK, RequestsOK
  <2>2. [order |-> o, item |-> i, quantity |-> q] \in EditRequest
    BY DEF EditRequest
  <2> QED
    BY <2>1, <2>2, ReceiveKeeps
<1>4. CASE ReceiveDeleteItem(w)
  <2>1. PICK o \in OrderId, i \in ItemId :
          Receive(w, "orders.DeleteItem", "remove.order", [order |-> o, item |-> i])
    BY <1>4 DEF ReceiveDeleteItem, Fresh, Named, NamedOrders, IInv, TypeOK, SchemaOK, RequestsOK
  <2>2. [order |-> o, item |-> i] \in RemoveRequest
    BY DEF RemoveRequest
  <2> QED
    BY <2>1, <2>2, ReceiveKeeps
<1>5. CASE ReceiveUpdateStatus(w)
  <2>1. PICK o \in OrderId, target \in OrderStatus \cup {"unknown"} :
          Receive(w, "orders.UpdateStatus", "status.order", [order |-> o, status |-> target])
    BY <1>5 DEF ReceiveUpdateStatus, Fresh, NamedOrders, IInv, TypeOK, SchemaOK, RequestsOK
  <2>2. [order |-> o, status |-> target] \in StatusRequest
    BY DEF StatusRequest
  <2> QED
    BY <2>1, <2>2, ReceiveKeeps
<1> QED
  BY <1>1, <1>2, <1>3, <1>4, <1>5 DEF OrderRequest

LEMMA CreateKeeps ==
  ASSUME IInv, NEW w \in Worker,
         \/ CreateReadTable(w) \/ CreateInsertOrder(w)
         \/ CreateOccupyTable(w) \/ CreateReadBack(w)
  PROVE  IInv' /\ GoodWrite
<1> USE DEF CreateLabels, Labels, AfterWrite
<1>1. pc[w] \in CreateLabels => req[w].new \in OrderId /\ req[w].table \in TableId
  BY DEF IInv, RequestFits, CreateRequest
<1>2. SchemaOK /\ ItemsHaveProducts
  BY DEF IInv, TypeOK
<1>3. CASE CreateReadTable(w)
  <2>1. RequestFits("create.insert", req[w])
    BY <1>3 DEF CreateReadTable, IInv, RequestFits, AddLabels, EditLabels, RemoveLabels,
                StatusLabels, KitchenLabels
  <2>2. RowFits("create.insert", req[w], NULL) /\ NotBehind("create.insert", req[w], NULL)
    BY DEF RowFits, NotBehind
  <2> QED
    BY <1>3, <2>1, <2>2, CheckedKeeps DEF CreateReadTable, Rows
<1>4. CASE CreateInsertOrder(w)
  <2>1. OrdersCreate(req[w].new, req[w].table) /\ Wrote(w, "create.occupy")
    BY <1>4 DEF CreateInsertOrder
  <2>2. SchemaOK'
    BY <1>1, <1>2, <1>4, <2>1, OrdersCreateSchema DEF CreateInsertOrder
  <2>3. ItemsHaveProducts' /\ ItemMoves
    BY <1>2, <2>1, KeyUnchanged DEF OrdersCreate, ItemMoves, Exists
  <2>4. OrderMoves
    BY <1>2, <2>1 DEF OrdersCreate, OrderMoves, SchemaOK
  <2>5. RequestFits("create.occupy", req[w]) /\ RowFits("create.occupy", req[w], seen[w])
    BY <1>4 DEF CreateInsertOrder, IInv, RequestFits, RowFits, AddLabels, EditLabels,
                RemoveLabels, StatusLabels, KitchenLabels
  <2> QED
    BY <2>1, <2>2, <2>3, <2>4, <2>5, WroteKeeps DEF GoodWrite
<1>5. CASE CreateOccupyTable(w)
  <2>1. TablesUpdateStatus(req[w].table, "occupied") /\ Wrote(w, "create.reply")
    BY <1>5 DEF CreateOccupyTable
  <2>2. SchemaOK'
    BY <1>1, <1>2, <1>5, <2>1, TablesUpdateStatusSchema DEF CreateOccupyTable, TableStatus
  <2>3. ItemsHaveProducts' /\ ItemMoves /\ OrderMoves
    BY <1>2, <2>1, KeyUnchanged DEF TablesUpdateStatus, ItemMoves, OrderMoves, Exists
  <2>4. RequestFits("create.reply", req[w]) /\ RowFits("create.reply", req[w], seen[w])
    BY <1>5 DEF CreateOccupyTable, IInv, RequestFits, RowFits, AddLabels, EditLabels,
                RemoveLabels, StatusLabels, KitchenLabels
  <2> QED
    BY <2>1, <2>2, <2>3, <2>4, WroteKeeps DEF GoodWrite
<1>6. CASE CreateReadBack(w)
  <2>1. ~IsRefusal(HttpStatus("nil"))
    BY NotRefused
  <2>2. GoodWrite
    BY <1>2, <1>6, NoWriteIsGood DEF CreateReadBack
  <2>3. told' \in SUBSET OrderId /\ wrote' = wrote /\ Return(w, "nil")
    BY <1>1, <1>6 DEF CreateReadBack, IInv, TypeOK, RequestsOK
  <2> QED
    BY <2>1, <2>2, <2>3, ReturnKeeps DEF IInv, TypeOK, RequestsOK
<1> QED
  BY <1>3, <1>4, <1>5, <1>6

LEMMA AddItemKeeps ==
  ASSUME IInv, NEW w \in Worker,
         AddItemReadOrder(w) \/ AddItemReadProduct(w) \/ AddItemInsert(w)
  PROVE  IInv' /\ GoodWrite
<1> USE DEF AddLabels, Labels, AfterWrite
<1>1. pc[w] \in AddLabels => /\ req[w].new \in ItemId /\ req[w].order \in OrderId
                             /\ req[w].product \in ProductId /\ req[w].quantity \in Quantity
  BY DEF IInv, RequestFits, AddRequest
<1>2. SchemaOK /\ ItemsHaveProducts
  BY DEF IInv, TypeOK
<1>3. pc[w] \in AddLabels =>
        RequestFits("add.product", req[w]) /\ RequestFits("add.insert", req[w])
  BY DEF IInv, RequestFits, CreateLabels, EditLabels, RemoveLabels, StatusLabels, KitchenLabels
<1>4. CASE AddItemReadOrder(w)
  <2>1. RowFits("add.product", req[w], NULL) /\ NotBehind("add.product", req[w], NULL)
    BY DEF RowFits, NotBehind
  <2> QED
    BY <1>3, <1>4, <2>1, CheckedKeeps DEF AddItemReadOrder, Rows
<1>5. CASE AddItemReadProduct(w)
  <2> DEFINE row == ProductsGetByID(req[w].product)
             err == IF row = NULL THEN "ErrProductNotFound"
                    ELSE IF ~row.available THEN "ErrProductUnavailable"
                    ELSE "nil"
  <2>1. pc[w] = "add.product" /\ Checked(w, err, "add.insert", row)
    BY <1>5 DEF AddItemReadProduct
  <2>2. row # NULL => row \in ProductRow
    BY <1>1, <1>2, <2>1, RowsExist DEF ProductsGetByID
  <2>3. err = "nil" => row \in ProductRow
    BY <2>2
  <2> HIDE DEF err, row
  <2>4. row \in ProductRow => /\ row \in Rows
                              /\ RowFits("add.insert", req[w], row)
                              /\ NotBehind("add.insert", req[w], row)
    BY DEF RowFits, NotBehind, Rows
  <2> QED
    BY <1>3, <2>1, <2>3, <2>4, CheckedKeeps
<1>6. CASE AddItemInsert(w)
  <2>1. pc[w] = "add.insert"
    BY <1>6 DEF AddItemInsert
  <2>2. seen[w].price \in Price
    BY <2>1 DEF IInv, RowFits, ProductRow
  <2>3. CASE /\ AddItem(req[w].new, req[w].order, req[w].product, req[w].quantity, seen[w].price)
             /\ AnswerWrite(w)
    <3>1. SchemaOK'
      BY <1>1, <1>2, <2>1, <2>2, <2>3, AddItemSchema
    <3>2. ItemsHaveProducts'
      BY <1>1, <1>2, <2>1, <2>3, AddItemKey
    <3>3. OrderMoves /\ ItemMoves
      BY <1>2, <2>3 DEF AddItem, OrderMoves, ItemMoves, SchemaOK
    <3> QED
      BY <2>3, <3>1, <3>2, <3>3, AnswerWriteKeeps DEF GoodWrite
  <2>4. CASE Answer(w, "ErrForeignKeyViolation") /\ UNCHANGED db
    BY <2>1, <2>4, AnswerKeeps
  <2> QED
    BY <1>6, <2>3, <2>4 DEF AddItemInsert
<1> QED
  BY <1>4, <1>5, <1>6

LEMMA UpdateItemKeeps ==
  ASSUME IInv, NEW w \in Worker,
         UpdateItemReadOrder(w) \/ UpdateItemReadItem(w) \/ UpdateItemWrite(w)
  PROVE  IInv' /\ GoodWrite
<1> USE DEF EditLabels, Labels, AfterWrite
<1>1. pc[w] \in EditLabels => /\ req[w].order \in OrderId /\ req[w].item \in ItemId
                              /\ req[w].quantity \in Quantity \cup {0, NULL}
  BY DEF IInv, RequestFits, EditRequest
<1>2. SchemaOK /\ ItemsHaveProducts
  BY DEF IInv, TypeOK
<1>3. pc[w] \in EditLabels =>
        RequestFits("edit.item", req[w]) /\ RequestFits("edit.write", req[w])
  BY DEF IInv, RequestFits, CreateLabels, AddLabels, RemoveLabels, StatusLabels, KitchenLabels
<1>4. CASE UpdateItemReadOrder(w)
  <2>1. RowFits("edit.item", req[w], NULL) /\ NotBehind("edit.item", req[w], NULL)
    BY DEF RowFits, NotBehind
  <2> QED
    BY <1>3, <1>4, <2>1, CheckedKeeps DEF UpdateItemReadOrder, Rows
<1>5. CASE UpdateItemReadItem(w)
  <2> DEFINE row  == GetItemByID(req[w].order, req[w].item)
             next == NextQuantity(row.quantity, req[w].quantity)
             err  == IF row = NULL THEN "ErrOrderItemNotFound"
                     ELSE IF next <= 0 THEN "ErrInvalidInput"
                     ELSE "nil"
  <2>1. pc[w] = "edit.item" /\ Checked(w, err, "edit.write", row)
    BY <1>5 DEF UpdateItemReadItem
  <2>2. row # NULL => row \in ItemRow
    BY <1>1, <1>2, <2>1, GetItemRow
  <2>3. row \in ItemRow => next \in Quantity \cup {0}
    BY <1>1, <2>1 DEF NextQuantity, ItemRow
  <2>4. err = "nil" => row \in ItemRow /\ next \in Quantity
    BY <2>2, <2>3
  <2>5. row \in ItemRow /\ next \in Quantity => /\ row \in Rows
                                               /\ RowFits("edit.write", req[w], row)
                                               /\ NotBehind("edit.write", req[w], row)
    BY DEF RowFits, NotBehind, Rows
  <2> HIDE DEF err, next, row
  <2> QED
    BY <1>3, <2>1, <2>4, <2>5, CheckedKeeps
<1>6. CASE UpdateItemWrite(w)
  <2> DEFINE next == NextQuantity(seen[w].quantity, req[w].quantity)
  <2>1. pc[w] = "edit.write" /\ next \in Quantity
    BY <1>6 DEF UpdateItemWrite, IInv, RowFits
  <2>2. CASE /\ req[w].item \in ItemsOf(req[w].order)
             /\ UpdateItem(req[w].item, next)
             /\ AnswerWrite(w)
    <3>1. Exists(items[req[w].item]) /\ items[req[w].item] \in ItemRow
      BY <1>2, <2>2, RowsExist DEF ItemsOf
    <3> HIDE DEF next
    <3>2. SchemaOK' /\ ItemsHaveProducts'
      BY <1>1, <1>2, <2>1, <2>2, <3>1, UpdateItemSchema, UpdateItemKey
    <3>3. OrderMoves
      BY <2>2 DEF UpdateItem, OrderMoves
    <3>4. ItemMoves
      BY <1>1, <1>2, <2>1, <2>2, <3>1, UpdateItemRow DEF ItemMoves, Exists
    <3> QED
      BY <2>2, <3>2, <3>3, <3>4, AnswerWriteKeeps DEF GoodWrite
  <2>3. CASE Answer(w, "ErrNoRows") /\ UNCHANGED db
    BY <2>1, <2>3, AnswerKeeps
  <2> QED
    BY <1>6, <2>2, <2>3 DEF UpdateItemWrite
<1> QED
  BY <1>4, <1>5, <1>6

LEMMA DeleteItemKeeps ==
  ASSUME IInv, NEW w \in Worker, DeleteItemReadOrder(w) \/ DeleteItemWrite(w)
  PROVE  IInv' /\ GoodWrite
<1> USE DEF RemoveLabels, Labels, AfterWrite
<1>1. pc[w] \in RemoveLabels => req[w].order \in OrderId /\ req[w].item \in ItemId
  BY DEF IInv, RequestFits, RemoveRequest
<1>2. SchemaOK /\ ItemsHaveProducts
  BY DEF IInv, TypeOK
<1>3. CASE DeleteItemReadOrder(w)
  <2>1. RequestFits("remove.write", req[w])
    BY <1>3 DEF DeleteItemReadOrder, IInv, RequestFits, CreateLabels, AddLabels, EditLabels,
                StatusLabels, KitchenLabels
  <2>2. RowFits("remove.write", req[w], NULL) /\ NotBehind("remove.write", req[w], NULL)
    BY DEF RowFits, NotBehind
  <2> QED
    BY <1>3, <2>1, <2>2, CheckedKeeps DEF DeleteItemReadOrder, Rows
<1>4. CASE DeleteItemWrite(w)
  <2>1. pc[w] = "remove.write"
    BY <1>4 DEF DeleteItemWrite
  <2>2. CASE DeleteItem(req[w].item) /\ AnswerWrite(w) /\ req[w].item \in ItemsOf(req[w].order)
    <3>1. SchemaOK' /\ ItemsHaveProducts'
      BY <1>1, <1>2, <2>1, <2>2, DeleteItemSchema, DeleteItemKey
    <3>2. OrderMoves
      BY <2>2 DEF DeleteItem, OrderMoves
    <3>3. ItemMoves
      BY <1>2, <2>2, MarkersAreNoValues DEF DeleteItem, ItemMoves, SchemaOK, Exists
    <3> QED
      BY <2>2, <3>1, <3>2, <3>3, AnswerWriteKeeps DEF GoodWrite
  <2>3. CASE Answer(w, "ErrOrderItemNotFound") /\ UNCHANGED db
    BY <2>1, <2>3, AnswerKeeps
  <2> QED
    BY <1>4, <2>2, <2>3 DEF DeleteItemWrite
<1> QED
  BY <1>3, <1>4

\* An order is written only where the row that was read may go.
LEMMA UpdateStatusKeeps ==
  ASSUME IInv, NEW w \in Worker,
         \/ UpdateStatusReadOrder(w) \/ UpdateStatusCountNonReady(w) \/ UpdateStatusWrite(w)
         \/ UpdateStatusHasActive(w) \/ UpdateStatusTable(w) \/ UpdateStatusReadBack(w)
  PROVE  IInv' /\ GoodWrite
<1> USE DEF StatusLabels, Labels, AfterWrite
<1>1. pc[w] \in StatusLabels =>
        req[w].order \in OrderId /\ req[w].status \in OrderStatus \cup {"unknown"}
  BY DEF IInv, RequestFits, StatusRequest
<1>2. SchemaOK /\ ItemsHaveProducts
  BY DEF IInv, TypeOK
<1>3. pc[w] \in StatusLabels => \A label \in StatusLabels : RequestFits(label, req[w])
  BY DEF IInv, RequestFits, CreateLabels, AddLabels, EditLabels, RemoveLabels, KitchenLabels
<1>4. seen[w] \in Rows /\ RowFits(pc[w], req[w], seen[w]) /\ NotBehind(pc[w], req[w], seen[w])
  BY DEF IInv, TypeOK, RequestsOK, Rows
<1>5. CASE UpdateStatusReadOrder(w)
  <2> DEFINE row    == OrdersGetByID(req[w].order)
             target == req[w].status
             err    == IF row = NULL THEN "ErrOrderNotFound"
                       ELSE IF ~isValidOrderStatus(target) THEN "ErrInvalidOrderStatus"
                       ELSE IF row.status # target /\ ~canTransitionOrder(row.status, target)
                            THEN "ErrInvalidOrderTransition"
                       ELSE "nil"
             next   == IF row.status = target THEN "status.reply"
                       ELSE IF target = "closed" THEN "status.count"
                       ELSE "status.write"
  <2>1. pc[w] = "status.order" /\ Checked(w, err, next, row)
    BY <1>5 DEF UpdateStatusReadOrder
  <2>2. row # NULL => row \in OrderRow /\ orders[req[w].order] = row
    BY <1>1, <1>2, <2>1, RowsExist DEF OrdersGetByID
  <2>3. err = "nil" => /\ row # NULL
                       /\ next = "status.reply" \/ canTransitionOrder(row.status, target)
    OBVIOUS
  <2>4. next \in {"status.reply", "status.count", "status.write"}
    OBVIOUS
  <2> HIDE DEF err, next, row
  <2>5. err = "nil" => /\ row \in Rows
                       /\ RowFits(next, req[w], row)
                       /\ NotBehind(next, req[w], row)
    BY <2>2, <2>3, <2>4 DEF RowFits, NotBehind, Rows
  <2> QED
    BY <1>3, <2>1, <2>4, <2>5, CheckedKeeps
<1>6. CASE UpdateStatusCountNonReady(w)
  <2>1. RowFits("status.write", req[w], seen[w]) /\ NotBehind("status.write", req[w], seen[w])
    BY <1>4, <1>6 DEF UpdateStatusCountNonReady, RowFits, NotBehind
  <2> QED
    BY <1>3, <1>4, <1>6, <2>1, CheckedKeeps DEF UpdateStatusCountNonReady
<1>7. CASE UpdateStatusWrite(w)
  <2>1. /\ pc[w] = "status.write"
        /\ OrdersUpdateStatus(req[w].order, req[w].status)
        /\ Wrote(w, IF req[w].status = "sent" THEN "status.table" ELSE "status.active")
    BY <1>7 DEF UpdateStatusWrite
  <2>2. /\ canTransitionOrder(seen[w].status, req[w].status) /\ seen[w] \in OrderRow
        /\ orders[req[w].order] # NULL
        /\ seen[w].status = "sent" => orders[req[w].order].status # "open"
    BY <1>4, <2>1 DEF RowFits, NotBehind
  <2>3. req[w].status \in {"sent", "closed", "cancelled"}
    BY <2>2 DEF canTransitionOrder
  <2>4. SchemaOK'
    BY <1>1, <1>2, <2>1, <2>2, <2>3, OrdersUpdateStatusSchema DEF OrderStatus
  <2>5. ItemsHaveProducts' /\ ItemMoves
    BY <1>2, <2>1, KeyUnchanged DEF OrdersUpdateStatus, ItemMoves, Exists
  <2>6. OrderMoves
    <3>1. /\ orders'[req[w].order] = [orders[req[w].order] EXCEPT !.status = req[w].status]
          /\ \A o \in OrderId \ {req[w].order} : orders'[o] = orders[o]
      BY <1>1, <1>2, <2>1 DEF OrdersUpdateStatus, SchemaOK
    <3>2. orders[req[w].order] \in OrderRow
      BY <1>1, <1>2, <2>1, <2>2, RowsExist
    <3>3. [orders[req[w].order] EXCEPT !.status = req[w].status] \in OrderRow
      BY <2>3, <3>2 DEF OrderRow, OrderStatus
    <3>4. orders'[req[w].order] # NULL
      BY <3>1, <3>3, MarkersAreNoValues
    <3>5. orders'[req[w].order].status = req[w].status
      BY <3>1, <3>2 DEF OrderRow
    <3>6. orders[req[w].order].status = "open" => req[w].status # "closed"
      BY <2>2 DEF canTransitionOrder
    <3> QED
      BY <2>3, <3>1, <3>4, <3>5, <3>6 DEF OrderMoves
  <2>7. \A label \in {"status.table", "status.active"} : RowFits(label, req[w], seen[w])
    BY <2>2 DEF RowFits
  <2> QED
    BY <1>3, <2>1, <2>4, <2>5, <2>6, <2>7, WroteKeeps DEF GoodWrite
<1>8. CASE UpdateStatusHasActive(w)
  <2>1. PICK label \in {"status.reply", "status.table"} :
          pc[w] = "status.active" /\ Continue(w, label, seen[w]) /\ UNCHANGED db
    BY <1>8 DEF UpdateStatusHasActive
  <2>2. RowFits(label, req[w], seen[w]) /\ NotBehind(label, req[w], seen[w])
    BY <1>4, <2>1 DEF RowFits, NotBehind
  <2>3. NoTrace(label, reply[w], wrote[w])
    BY DEF NoTrace
  <2> QED
    BY <1>3, <1>4, <2>1, <2>2, <2>3, ContinueKeeps
<1>9. CASE UpdateStatusTable(w)
  <2> DEFINE status == IF req[w].status = "sent" THEN "waiting" ELSE "free"
  <2>1. /\ pc[w] = "status.table" /\ TablesUpdateStatus(seen[w].table, status)
        /\ Wrote(w, "status.reply")
    BY <1>9 DEF UpdateStatusTable
  <2>2. seen[w].table \in TableId /\ status \in TableStatus
    BY <1>4, <2>1 DEF RowFits, OrderRow, TableStatus
  <2> HIDE DEF status
  <2>3. SchemaOK'
    BY <1>2, <2>1, <2>2, TablesUpdateStatusSchema
  <2>4. ItemsHaveProducts' /\ ItemMoves /\ OrderMoves
    BY <1>2, <2>1, KeyUnchanged DEF TablesUpdateStatus, ItemMoves, OrderMoves, Exists
  <2>5. RowFits("status.reply", req[w], seen[w])
    BY DEF RowFits
  <2> QED
    BY <1>3, <2>1, <2>3, <2>4, <2>5, WroteKeeps DEF GoodWrite
<1>10. CASE UpdateStatusReadBack(w)
  BY <1>10, NotRefused, AnswerKeeps DEF UpdateStatusReadBack
<1> QED
  BY <1>5, <1>6, <1>7, <1>8, <1>9, <1>10

-----------------------------------------------------------------------------
(* The kitchen service. *)

LEMMA KitchenKeeps ==
  ASSUME IInv, NEW w \in Worker, ReceiveItemStatus(w) \/ KitchenStep(w)
  PROVE  IInv' /\ GoodWrite
<1> USE DEF KitchenLabels, Labels, AfterWrite
<1>1. pc[w] \in KitchenLabels =>
        /\ req[w].order \in OrderId /\ req[w].item \in ItemId
        /\ req[w].status \in ItemStatus \cup {"unknown"}
  BY DEF IInv, RequestFits, KitchenRequest
<1>2. SchemaOK /\ ItemsHaveProducts
  BY DEF IInv, TypeOK
<1>3. pc[w] \in KitchenLabels => \A label \in KitchenLabels : RequestFits(label, req[w])
  BY DEF IInv, RequestFits, CreateLabels, AddLabels, EditLabels, RemoveLabels, StatusLabels
<1>4. CASE ReceiveItemStatus(w)
  <2>1. PICK o \in OrderId, i \in ItemId, target \in ItemStatus \cup {"unknown"} :
          Receive(w, "kitchen.UpdateItemStatus", "kitchen.item",
                  [order |-> o, item |-> i, status |-> target])
    BY <1>4 DEF ReceiveItemStatus, Fresh, Named, NamedOrders, IInv, TypeOK, SchemaOK, RequestsOK
  <2>2. [order |-> o, item |-> i, status |-> target] \in KitchenRequest
    BY DEF KitchenRequest
  <2>3. RequestFits("kitchen.item", [order |-> o, item |-> i, status |-> target])
    BY <2>2 DEF RequestFits, CreateLabels, AddLabels, EditLabels, RemoveLabels, StatusLabels
  <2> QED
    BY <2>1, <2>2, <2>3, ReceiveKeeps DEF First, Request
<1>5. CASE ItemStatusReadItem(w)
  <2> DEFINE row    == GetItemByID(req[w].order, req[w].item)
             target == req[w].status
             err    == IF ~isValidItemStatus(target) THEN "ErrInvalidItemStatus"
                       ELSE IF row = NULL THEN "ErrOrderItemNotFound"
                       ELSE IF ~isForwardItemTransition(row.status, target)
                            THEN "ErrInvalidItemTransition"
                       ELSE "nil"
  <2>1. pc[w] = "kitchen.item" /\ Checked(w, err, "kitchen.write", row)
    BY <1>5 DEF ItemStatusReadItem
  <2>2. row # NULL => /\ row \in ItemRow /\ items[req[w].item] = row
                      /\ req[w].item \in ItemsOf(req[w].order)
    BY <1>1, <1>2, <2>1, GetItemRow
  <2>3. err = "nil" => row # NULL /\ isForwardItemTransition(row.status, target)
    OBVIOUS
  <2> HIDE DEF err, row
  <2>4. err = "nil" => /\ row \in Rows
                       /\ RowFits("kitchen.write", req[w], row)
                       /\ NotBehind("kitchen.write", req[w], row)
    BY <2>2, <2>3 DEF RowFits, NotBehind, Rows
  <2> QED
    BY <1>3, <2>1, <2>4, CheckedKeeps
<1>6. CASE ItemStatusWrite(w)
  <2>1. pc[w] = "kitchen.write"
    BY <1>6 DEF ItemStatusWrite
  <2>2. CASE /\ req[w].item \in ItemsOf(req[w].order)
             /\ UpdateItemStatus(req[w].item, req[w].status)
             /\ Wrote(w, "kitchen.reply")
    <3>1. Exists(items[req[w].item])
      BY <2>2 DEF ItemsOf
    <3>2. /\ isForwardItemTransition(seen[w].status, req[w].status)
          /\ seen[w].status = "preparing" => items[req[w].item].status # "pending"
      BY <2>1, <3>1 DEF IInv, RowFits, NotBehind
    <3>3. req[w].status \in {"preparing", "ready"}
      BY <3>2 DEF isForwardItemTransition
    <3>4. SchemaOK' /\ ItemsHaveProducts'
      BY <1>1, <1>2, <2>1, <2>2, <3>1, <3>3, UpdateItemStatusSchema, UpdateItemStatusKey
         DEF ItemStatus
    <3>5. OrderMoves
      BY <2>2 DEF UpdateItemStatus, OrderMoves
    <3>6. /\ items'[req[w].item].status = req[w].status /\ Exists(items'[req[w].item])
          /\ \A j \in ItemId \ {req[w].item} : items'[j] = items[j]
      BY <1>1, <1>2, <2>1, <2>2, <3>1, <3>3, UpdateItemStatusRow DEF ItemStatus
    <3>7. ItemMoves
      BY <3>1, <3>2, <3>3, <3>6 DEF ItemMoves, Exists, isForwardItemTransition
    <3>8. RowFits("kitchen.reply", req[w], seen[w])
      BY DEF RowFits
    <3> QED
      BY <1>3, <2>1, <2>2, <3>4, <3>5, <3>7, <3>8, WroteKeeps DEF GoodWrite
  <2>3. CASE Answer(w, "ErrOrderItemNotFound") /\ UNCHANGED db
    BY <2>1, <2>3, AnswerKeeps
  <2> QED
    BY <1>6, <2>2, <2>3 DEF ItemStatusWrite
<1>7. CASE ItemStatusReadBack(w)
  <2>1. PICK err \in {"nil", "ErrNoRows"} : Answer(w, err) /\ UNCHANGED db
    BY <1>7 DEF ItemStatusReadBack
  <2> QED
    BY <2>1, NotRefused, AnswerKeeps
<1> QED
  BY <1>4, <1>5, <1>6, <1>7 DEF KitchenStep

-----------------------------------------------------------------------------
(* The table service. *)

LEMMA TableKeeps ==
  ASSUME IInv, NEW w \in Worker, ReceiveNewTable(w) \/ ReceiveTableStatus(w) \/ TableStep(w)
  PROVE  IInv' /\ GoodWrite
<1> USE DEF TableLabels, Labels, AfterWrite
<1>1. SchemaOK /\ ItemsHaveProducts
  BY DEF IInv, TypeOK
<1>2. CASE ReceiveNewTable(w)
  <2>1. PICK t \in TableId : Receive(w, "tables.Create", "table.insert", [table |-> t])
    BY <1>2 DEF ReceiveNewTable
  <2>2. [table |-> t] \in NewTableRequest
    BY DEF NewTableRequest
  <2>3. RequestFits("table.insert", [table |-> t])
    BY <2>2 DEF RequestFits, CreateLabels, AddLabels, EditLabels, RemoveLabels, StatusLabels,
                KitchenLabels
  <2> QED
    BY <2>1, <2>2, <2>3, ReceiveKeeps DEF First, Request
<1>3. CASE ReceiveTableStatus(w)
  <2>1. PICK t \in TableId, target \in TableStatus \cup {"unknown"} :
          Receive(w, "tables.UpdateStatus", "table.write", [table |-> t, status |-> target])
    BY <1>3 DEF ReceiveTableStatus
  <2>2. [table |-> t, status |-> target] \in TableStatusRequest
    BY DEF TableStatusRequest
  <2>3. RequestFits("table.write", [table |-> t, status |-> target])
    BY <2>2 DEF RequestFits, CreateLabels, AddLabels, EditLabels, RemoveLabels, StatusLabels,
                KitchenLabels
  <2> QED
    BY <2>1, <2>2, <2>3, ReceiveKeeps DEF First, Request
<1>4. CASE TableInsert(w)
  <2>1. pc[w] = "table.insert" /\ req[w].table \in TableId
    BY <1>4 DEF TableInsert, IInv, RequestFits, NewTableRequest
  <2>2. CASE TablesCreate(req[w].table) /\ AnswerWrite(w)
    <3>1. SchemaOK' /\ ItemsHaveProducts'
      BY <1>1, <2>1, <2>2, TablesCreateSchema, KeyUnchanged DEF TablesCreate
    <3>2. OrderMoves /\ ItemMoves
      BY <2>2 DEF TablesCreate, OrderMoves, ItemMoves, Exists
    <3> QED
      BY <2>2, <3>1, <3>2, AnswerWriteKeeps DEF GoodWrite
  <2>3. CASE Answer(w, "ErrTableNumberAlreadyExists") /\ UNCHANGED db
    BY <2>1, <2>3, AnswerKeeps
  <2> QED
    BY <1>4, <2>2, <2>3 DEF TableInsert
<1>5. CASE TableStatusWrite(w)
  <2>1. pc[w] = "table.write" /\ req[w].table \in TableId
    BY <1>5 DEF TableStatusWrite, IInv, RequestFits, TableStatusRequest
  <2>2. CASE /\ isValidTableStatus(req[w].status)
             /\ TablesUpdateStatus(req[w].table, req[w].status)
             /\ AnswerWrite(w)
    <3>1. SchemaOK' /\ ItemsHaveProducts'
      BY <1>1, <2>1, <2>2, TablesUpdateStatusSchema, KeyUnchanged
         DEF TablesUpdateStatus, isValidTableStatus
    <3>2. OrderMoves /\ ItemMoves
      BY <2>2 DEF TablesUpdateStatus, OrderMoves, ItemMoves, Exists
    <3> QED
      BY <2>2, <3>1, <3>2, AnswerWriteKeeps DEF GoodWrite
  <2>3. CASE /\ Answer(w, "ErrInvalidTableStatus") \/ Answer(w, "ErrTableNotFound")
             /\ UNCHANGED db
    BY <2>1, <2>3, AnswerKeeps
  <2> QED
    BY <1>5, <2>2, <2>3 DEF TableStatusWrite
<1> QED
  BY <1>2, <1>3, <1>4, <1>5 DEF TableStep

-----------------------------------------------------------------------------
(* The product service. *)

LEMMA ProductRequestKeeps ==
  ASSUME IInv, NEW w \in Worker,
         ReceiveNewProduct(w) \/ ReceiveProductPatch(w) \/ ReceiveProductDelete(w)
  PROVE  IInv' /\ GoodWrite
<1> USE DEF First, Request, RequestFits, CreateLabels, AddLabels, EditLabels, RemoveLabels,
            StatusLabels, KitchenLabels
<1>1. CASE ReceiveNewProduct(w)
  <2>1. PICK p \in ProductId, x \in (Price \ {0}) \cup {-1}, a \in BOOLEAN :
          Receive(w, "products.Create", "product.insert",
                  [new |-> p, price |-> x, available |-> a])
    BY <1>1 DEF ReceiveNewProduct, Fresh, IInv, TypeOK, SchemaOK
  <2>2. [new |-> p, price |-> x, available |-> a] \in NewProductRequest
    BY DEF NewProductRequest
  <2> QED
    BY <2>1, <2>2, ReceiveKeeps
<1>2. CASE ReceiveProductPatch(w)
  <2>1. PICK p \in ProductId, x \in Price \cup {-1, NULL}, a \in BOOLEAN \cup {NULL} :
          Receive(w, "products.Update", "product.read",
                  [product |-> p, price |-> x, available |-> a])
    BY <1>2 DEF ReceiveProductPatch, Named, Fresh, IInv, TypeOK, SchemaOK
  <2>2. [product |-> p, price |-> x, available |-> a] \in ProductPatchRequest
    BY DEF ProductPatchRequest
  <2> QED
    BY <2>1, <2>2, ReceiveKeeps
<1>3. CASE ReceiveProductDelete(w)
  <2>1. PICK p \in ProductId : Receive(w, "products.Delete", "drop.items", [product |-> p])
    BY <1>3 DEF ReceiveProductDelete, Named, Fresh, IInv, TypeOK, SchemaOK
  <2>2. [product |-> p] \in ProductDeleteRequest
    BY DEF ProductDeleteRequest
  <2> QED
    BY <2>1, <2>2, ReceiveKeeps
<1> QED
  BY <1>1, <1>2, <1>3

LEMMA ProductWriteKeeps ==
  ASSUME IInv, NEW w \in Worker, ProductInsert(w) \/ ProductRead(w) \/ ProductWrite(w)
  PROVE  IInv' /\ GoodWrite
<1> USE DEF ProductLabels, Labels, AfterWrite
<1>1. SchemaOK /\ ItemsHaveProducts
  BY DEF IInv, TypeOK
<1>2. CASE ProductInsert(w)
  <2> DEFINE row == [price |-> req[w].price, available |-> req[w].available]
  <2>1. pc[w] = "product.insert" /\ req[w] \in NewProductRequest
    BY <1>2 DEF ProductInsert, IInv, RequestFits
  <2>2. CASE req[w].price >= 0 /\ ProductsCreate(req[w].new, row) /\ AnswerWrite(w)
    <3>1. req[w].new \in ProductId /\ row \in ProductRow
      BY <2>1, <2>2 DEF NewProductRequest, ProductRow
    <3> HIDE DEF row
    <3>2. SchemaOK' /\ ItemsHaveProducts'
      BY <1>1, <2>2, <3>1, ProductsCreateSchema, ProductsCreateKey
    <3>3. OrderMoves /\ ItemMoves
      BY <2>2 DEF ProductsCreate, OrderMoves, ItemMoves, Exists
    <3> QED
      BY <2>2, <3>2, <3>3, AnswerWriteKeeps DEF GoodWrite
  <2>3. CASE Answer(w, "ErrInvalidProductPrice") /\ UNCHANGED db
    BY <2>1, <2>3, AnswerKeeps
  <2> QED
    BY <1>2, <2>2, <2>3 DEF ProductInsert
<1>3. CASE ProductRead(w)
  <2> DEFINE row == ProductsGetByID(req[w].product)
             err == IF row = NULL THEN "ErrProductNotFound"
                    ELSE IF Merged(row, req[w]).price < 0 THEN "ErrInvalidProductPrice"
                    ELSE "nil"
  <2>1. pc[w] = "product.read" /\ Checked(w, err, "product.write", row)
    BY <1>3 DEF ProductRead
  <2>2. req[w] \in ProductPatchRequest
    BY <2>1 DEF IInv, RequestFits
  <2>3. RequestFits("product.write", req[w])
    BY <2>2 DEF RequestFits, CreateLabels, AddLabels, EditLabels, RemoveLabels, StatusLabels,
                KitchenLabels
  <2>4. row # NULL => row \in ProductRow
    BY <1>1, <2>2, RowsExist DEF ProductsGetByID, ProductPatchRequest
  <2>5. err = "nil" => row # NULL /\ ~(Merged(row, req[w]).price < 0)
    OBVIOUS
  <2> HIDE DEF err, row
  <2>6. row \in ProductRow /\ ~(Merged(row, req[w]).price < 0) =>
          Merged(row, req[w]) \in ProductRow
    BY <2>2, CheckConstraints, MarkersAreNoValues DEF Merged, ProductRow, ProductPatchRequest
  <2>7. err = "nil" => /\ row \in Rows
                       /\ RowFits("product.write", req[w], row)
                       /\ NotBehind("product.write", req[w], row)
    BY <2>4, <2>5, <2>6 DEF RowFits, NotBehind, Rows
  <2> QED
    BY <2>1, <2>3, <2>7, CheckedKeeps
<1>4. CASE ProductWrite(w)
  <2>1. /\ pc[w] = "product.write" /\ req[w].product \in ProductId
        /\ Merged(seen[w], req[w]) \in ProductRow
    BY <1>4 DEF ProductWrite, IInv, RequestFits, RowFits, ProductPatchRequest
  <2>2. CASE ProductsUpdate(req[w].product, Merged(seen[w], req[w])) /\ AnswerWrite(w)
    <3>1. SchemaOK' /\ ItemsHaveProducts'
      BY <1>1, <2>1, <2>2, ProductsUpdateSchema, ProductsUpdateKey
    <3>2. OrderMoves /\ ItemMoves
      BY <2>2 DEF ProductsUpdate, OrderMoves, ItemMoves, Exists
    <3> QED
      BY <2>2, <3>1, <3>2, AnswerWriteKeeps DEF GoodWrite
  <2>3. CASE Answer(w, "ErrProductNotFound") /\ UNCHANGED db
    BY <2>1, <2>3, AnswerKeeps
  <2> QED
    BY <1>4, <2>2, <2>3 DEF ProductWrite
<1> QED
  BY <1>2, <1>3, <1>4

LEMMA ProductDropKeeps ==
  ASSUME IInv, NEW w \in Worker, ProductDropItems(w) \/ ProductDrop(w)
  PROVE  IInv' /\ GoodWrite
<1> USE DEF ProductLabels, Labels, AfterWrite
<1>1. SchemaOK /\ ItemsHaveProducts
  BY DEF IInv, TypeOK
<1>2. CASE ProductDropItems(w)
  <2>1. GoodWrite
    BY <1>1, <1>2, NoWriteIsGood DEF ProductDropItems
  <2>2. RequestsOK' /\ OthersStay(w)
    BY <1>2 DEF ProductDropItems, IInv, TypeOK, RequestsOK, OthersStay, ItemsWithProduct
  <2>3. /\ pc[w] = "drop.items" /\ pc'[w] = "drop.product"
        /\ req'[w] = req[w] /\ seen'[w] = seen[w] /\ reply'[w] = reply[w] /\ wrote'[w] = wrote[w]
    BY <1>2 DEF ProductDropItems, IInv, TypeOK, RequestsOK
  <2>4. RequestFits(pc[w], req[w])'
    BY <2>3 DEF IInv, RequestFits, CreateLabels, AddLabels, EditLabels, RemoveLabels,
                StatusLabels, KitchenLabels
  <2>5. RowFits(pc[w], req[w], seen[w])' /\ NotBehind(pc[w], req[w], seen[w])'
    BY <2>3 DEF RowFits, NotBehind
  <2>6. NoTrace(pc[w], reply[w], wrote[w])'
    BY <2>3 DEF IInv, NoTrace
  <2> QED
    BY <2>1, <2>2, <2>4, <2>5, <2>6, WorkerStep
<1>3. CASE ProductDrop(w)
  <2>1. pc[w] = "drop.product" /\ req[w].product \in ProductId
    BY <1>3 DEF ProductDrop, IInv, RequestFits, ProductDeleteRequest
  <2>2. CASE ProductsDelete(req[w].product, locked[w]) /\ AnswerWrite(w)
    <3>1. SchemaOK' /\ ItemsHaveProducts'
      BY <1>1, <2>1, <2>2, ProductsDeleteSchema, ProductsDeleteKey
    <3>2. OrderMoves
      BY <2>2 DEF ProductsDelete, OrderMoves
    <3>3. ItemMoves
      BY <2>2, MarkersAreNoValues DEF ProductsDelete, ItemMoves, Exists
    <3> QED
      BY <2>2, <3>1, <3>2, <3>3, AnswerWriteKeeps DEF GoodWrite
  <2>3. CASE /\ Answer(w, "ErrProductNotFound") \/ Answer(w, "ErrForeignKeyViolation")
             /\ UNCHANGED db
    BY <2>1, <2>3, AnswerKeeps
  <2> QED
    BY <1>3, <2>2, <2>3 DEF ProductDrop
<1> QED
  BY <1>2, <1>3

-----------------------------------------------------------------------------
(* The whole server. *)

LEMMA InitIInv ==
  ASSUME Init
  PROVE  IInv
<1> USE DEF Init
<1>1. SchemaOK
  <2>1. PICK price \in [SeedProducts -> Price] :
          products = [p \in ProductId |->
                        IF p \in SeedProducts THEN [price |-> price[p], available |-> TRUE]
                                              ELSE NULL]
    OBVIOUS
  <2>2. products \in [ProductId -> ProductRow \cup {NULL, DELETED}]
    BY <2>1 DEF ProductRow
  <2> QED
    BY <2>2 DEF SchemaOK, TableStatus
<1>2. RequestsOK
  BY DEF RequestsOK
<1>3. ItemsHaveProducts
  BY DEF ItemsHaveProducts, Exists
<1>4. ASSUME NEW w \in Worker
      PROVE  /\ RequestFits(pc[w], req[w])
             /\ RowFits(pc[w], req[w], seen[w])
             /\ NotBehind(pc[w], req[w], seen[w])
             /\ NoTrace(pc[w], reply[w], wrote[w])
  BY DEF RequestFits, RowFits, NotBehind, NoTrace, Labels, CreateLabels, AddLabels, EditLabels,
         RemoveLabels, StatusLabels, KitchenLabels, TableLabels, ProductLabels
<1> QED
  BY <1>1, <1>2, <1>3, <1>4 DEF IInv, TypeOK

LEMMA NextKeeps ==
  ASSUME IInv, Next
  PROVE  IInv' /\ GoodWrite
<1>1. PICK w \in Worker : Arrival(w) \/ Step(w) \/ StatementFails(w)
  BY DEF Next
<1>2. CASE Arrival(w)
  BY <1>2, OrderRequestKeeps, KitchenKeeps, TableKeeps, ProductRequestKeeps DEF Arrival
<1>3. CASE Step(w)
  <2>1. CASE OrderStep(w)
    BY <2>1, CreateKeeps, AddItemKeeps, UpdateItemKeeps, DeleteItemKeeps, UpdateStatusKeeps
       DEF OrderStep
  <2>2. CASE KitchenStep(w) \/ TableStep(w)
    BY <2>2, KitchenKeeps, TableKeeps
  <2>3. CASE ProductStep(w)
    BY <2>3, ProductWriteKeeps, ProductDropKeeps DEF ProductStep
  <2> QED
    BY <1>3, <2>1, <2>2, <2>3 DEF Step
<1>4. CASE StatementFails(w)
  BY <1>4, NotRefused, AnswerKeeps DEF StatementFails
<1> QED
  BY <1>1, <1>2, <1>3, <1>4

LEMMA StutterKeeps ==
  ASSUME IInv, UNCHANGED vars
  PROVE  IInv' /\ GoodWrite
<1>1. GoodWrite
  BY NoWriteIsGood DEF vars, IInv, TypeOK
<1>2. UNCHANGED <<tables, orders, items, products, pc, req, seen, locked, reply, wrote, told>>
  BY DEF vars, db, request
<1>3. RequestsOK'
  BY <1>2 DEF IInv, TypeOK, RequestsOK
<1>4. ASSUME NEW w \in Worker
      PROVE  /\ RequestFits(pc[w], req[w])'
             /\ RowFits(pc[w], req[w], seen[w])'
             /\ NotBehind(pc[w], req[w], seen[w])'
             /\ NoTrace(pc[w], reply[w], wrote[w])'
  BY <1>2 DEF IInv, RequestFits, RowFits, NotBehind, NoTrace, Exists
<1> QED
  BY <1>1, <1>3, <1>4 DEF IInv, TypeOK, GoodWrite

(* The inductive invariant holds of every behaviour of the server: between *)
(* two statements each handler holds a request of its route and a row that *)
(* passed its checks, and no order or item has moved behind that row.      *)
THEOREM Inductive == Spec => []IInv
<1>1. Init => IInv
  BY InitIInv
<1>2. IInv /\ [Next]_vars => IInv'
  BY NextKeeps, StutterKeeps
<1> QED
  BY <1>1, <1>2, PTL DEF Spec

(* Type correctness: the database obeys the types and CHECK constraints of *)
(* the schema and the workers hold what their handlers expect.             *)
THEOREM TypeCorrect == Spec => []TypeOK
<1>1. IInv => TypeOK
  BY DEF IInv
<1> QED
  BY <1>1, Inductive, PTL

(* No interleaving of additions and deletions leaves an item of an order   *)
(* without its product.                                                    *)
THEOREM ForeignKeyHolds == Spec => []ItemsHaveProducts
<1>1. IInv => ItemsHaveProducts
  BY DEF IInv
<1> QED
  BY <1>1, Inductive, PTL

(* A request answered with 400, 401, 404 or 409 has changed nothing,       *)
(* whatever ran between its statements.                                    *)
THEOREM RefusedRequestsLeaveNoTrace == Spec => []RefusalLeavesNoTrace
<1>1. IInv => RefusalLeavesNoTrace
  BY DEF IInv, NoTrace, RefusalLeavesNoTrace
<1> QED
  BY <1>1, Inductive, PTL

(* However many requests race on one order, none of their writes reopens   *)
(* it or closes it unsent.                                                 *)
THEOREM OrdersKeepTheirPath == Spec => OrderStatusPath
<1>1. IInv /\ [Next]_vars =>
        [\A o \in OrderId :
           orders[o] # NULL /\ orders[o] # orders'[o] =>
             /\ orders'[o].status # "open"
             /\ orders[o].status = "open" => orders'[o].status # "closed"]_vars
  BY NextKeeps DEF GoodWrite, OrderMoves
<1> QED
  BY <1>1, Inductive, PTL DEF Spec, OrderStatusPath

(* However many cooks race on one item, none of their writes makes it      *)
(* pending again or skips preparing.                                       *)
THEOREM ItemsKeepTheirPath == Spec => ItemStatusPath
<1>1. IInv /\ [Next]_vars =>
        [\A i \in ItemId :
           Exists(items[i]) /\ Exists(items'[i]) /\ items[i].status # items'[i].status =>
             /\ items'[i].status # "pending"
             /\ items[i].status = "pending" => items'[i].status = "preparing"]_vars
  BY NextKeeps DEF GoodWrite, ItemMoves, Exists
<1> QED
  BY <1>1, Inductive, PTL DEF Spec, ItemStatusPath
-----------------------------------------------------------------------------
(***************************************************************************)
(* Locked orders: an order that is not open any more, and that no request  *)
(* still takes for open, keeps its items for good.  LockInv adds to IInv   *)
(* what the rows are that a transaction holds.                             *)
(***************************************************************************)

\* The statements after which a request relies on the order being open.
RelyingLabels == {"add.product", "add.insert", "edit.item", "edit.write", "remove.write"}

\* A transaction has deleted only items with the product it is deleting.
LocksFit(w) ==
  pc[w] = "drop.product" =>
    \A i \in locked[w] : /\ items[i] # NULL
                         /\ Exists(items[i]) => items[i].product = req[w].product

LockInv == IInv /\ \A w \in Worker : LocksFit(w)

\* What a statement of worker w may do to the workers: it comes to rely on an
\* order only by reading it, and to hold rows only by deleting them.
HandlerMoves(w) ==
  /\ \A v \in Worker \ {w} :
       pc'[v] = pc[v] /\ req'[v] = req[v] /\ locked'[v] = locked[v]
  /\ pc'[w] \in RelyingLabels =>
       /\ req'[w] = req[w]
       /\ pc[w] \in RelyingLabels \/ orders[req[w].order].status = "open"
  /\ pc'[w] = "drop.product" =>
       /\ req'[w] = req[w] /\ items' = items
       /\ locked'[w] = ItemsWithProduct(req[w].product)

\* The status of an item changes, and nothing else.
Advances(i) ==
  /\ Exists(items[i]) /\ Exists(items'[i])
  /\ items'[i] = [items[i] EXCEPT !.status = items'[i].status]

\* The item goes with its product.
GoesWithProduct(i) ==
  /\ items'[i] = DELETED
  /\ items[i] # DELETED => Exists(items[i]) /\ ~Exists(products'[items[i].product])

\* A request that relies on its order being open changes an item of that order.
Edits(w, i) ==
  /\ pc[w] \in RelyingLabels
  /\ Exists(items[i]) => items[i].order = req[w].order
  /\ Exists(items'[i]) =>
       /\ items'[i].order = req[w].order
       /\ Exists(items[i]) => items'[i].product = items[i].product
  /\ items'[i] # NULL

ItemsMove(w) ==
  \A i \in ItemId :
    items'[i] = items[i] \/ Advances(i) \/ GoesWithProduct(i) \/ Edits(w, i)

Careful(w) == HandlerMoves(w) /\ ItemsMove(w)

\* The statements of the order service change items in this way only.
ItemsEdited(w) == \A i \in ItemId : items'[i] = items[i] \/ Edits(w, i)

-----------------------------------------------------------------------------
(* One lemma for each way a handler goes on. *)

LEMMA UnchangedItems ==
  ASSUME NEW w \in Worker, UNCHANGED db
  PROVE  ItemsMove(w)
BY DEF db, ItemsMove

LEMMA ReceiveCareful ==
  ASSUME IInv, NEW w \in Worker, NEW endpoint, NEW label \in First, NEW r,
         Receive(w, endpoint, label, r)
  PROVE  Careful(w)
<1>1. ItemsMove(w)
  BY UnchangedItems DEF Receive
<1>2. HandlerMoves(w)
  BY DEF Receive, First, HandlerMoves, RelyingLabels, IInv, TypeOK, RequestsOK
<1> QED
  BY <1>1, <1>2 DEF Careful

LEMMA ReturnMoves ==
  ASSUME IInv, NEW w \in Worker, NEW err, Return(w, err)
  PROVE  HandlerMoves(w)
BY DEF Return, HandlerMoves, RelyingLabels, IInv, TypeOK, RequestsOK

LEMMA AnswerCareful ==
  ASSUME IInv, NEW w \in Worker, NEW err, Answer(w, err), UNCHANGED db
  PROVE  Careful(w)
BY ReturnMoves, UnchangedItems DEF Answer, Careful

LEMMA AnswerWriteMoves ==
  ASSUME IInv, NEW w \in Worker, AnswerWrite(w)
  PROVE  HandlerMoves(w)
BY ReturnMoves DEF AnswerWrite

LEMMA ContinueCareful ==
  ASSUME IInv, NEW w \in Worker, NEW label, NEW row, Continue(w, label, row), UNCHANGED db,
         label # "drop.product",
         label \in RelyingLabels =>
           pc[w] \in RelyingLabels \/ orders[req[w].order].status = "open"
  PROVE  Careful(w)
<1>1. HandlerMoves(w)
  BY DEF Continue, HandlerMoves, IInv, TypeOK, RequestsOK
<1> QED
  BY <1>1, UnchangedItems DEF Careful

LEMMA WroteMoves ==
  ASSUME IInv, NEW w \in Worker, NEW label \in AfterWrite, Wrote(w, label)
  PROVE  HandlerMoves(w)
BY DEF Wrote, AfterWrite, HandlerMoves, RelyingLabels, IInv, TypeOK, RequestsOK

LEMMA CheckedCareful ==
  ASSUME IInv, NEW w \in Worker, NEW err, NEW label, NEW row, Checked(w, err, label, row),
         label # "drop.product",
         err = "nil" /\ label \in RelyingLabels =>
           pc[w] \in RelyingLabels \/ orders[req[w].order].status = "open"
  PROVE  Careful(w)
<1>1. CASE err # "nil"
  BY <1>1, AnswerCareful DEF Checked
<1>2. CASE err = "nil"
  BY <1>2, ContinueCareful DEF Checked
<1> QED
  BY <1>1, <1>2

-----------------------------------------------------------------------------
(* The handlers *)

LEMMA ArrivalCareful ==
  ASSUME IInv, NEW w \in Worker, Arrival(w)
  PROVE  Careful(w)
<1> USE ReceiveCareful DEF First
<1>1. CASE ReceiveCreate(w)
  BY <1>1 DEF ReceiveCreate
<1>2. CASE ReceiveAddItem(w)
  BY <1>2 DEF ReceiveAddItem
<1>3. CASE ReceiveUpdateItem(w)
  BY <1>3 DEF ReceiveUpdateItem
<1>4. CASE ReceiveDeleteItem(w)
  BY <1>4 DEF ReceiveDeleteItem
<1>5. CASE ReceiveUpdateStatus(w)
  BY <1>5 DEF ReceiveUpdateStatus
<1>6. CASE ReceiveItemStatus(w)
  BY <1>6 DEF ReceiveItemStatus
<1>7. CASE ReceiveNewTable(w)
  BY <1>7 DEF ReceiveNewTable
<1>8. CASE ReceiveTableStatus(w)
  BY <1>8 DEF ReceiveTableStatus
<1>9. CASE ReceiveNewProduct(w)
  BY <1>9 DEF ReceiveNewProduct
<1>10. CASE ReceiveProductPatch(w)
  BY <1>10 DEF ReceiveProductPatch
<1>11. CASE ReceiveProductDelete(w)
  BY <1>11 DEF ReceiveProductDelete
<1> QED
  BY <1>1, <1>2, <1>3, <1>4, <1>5, <1>6, <1>7, <1>8, <1>9, <1>10, <1>11
  DEF Arrival, OrderRequest

\* An order whose check finds no error is open.
LEMMA NoErrorMeansOpen ==
  ASSUME NEW row, OpenOrderError(row) = "nil"
  PROVE  row.status = "open"
BY DEF OpenOrderError

LEMMA OrderStepEdits ==
  ASSUME IInv, NEW w \in Worker, OrderStep(w)
  PROVE  HandlerMoves(w) /\ ItemsEdited(w)
<1> USE DEF RelyingLabels
<1>0. UNCHANGED db => ItemsEdited(w)
  BY DEF db, ItemsEdited
<1>1. CASE CreateReadTable(w)
  BY <1>0, <1>1, CheckedCareful DEF CreateReadTable, Checked, Careful
<1>2. CASE CreateInsertOrder(w)
  <2>1. HandlerMoves(w)
    BY <1>2, WroteMoves DEF CreateInsertOrder, AfterWrite
  <2>2. ItemsEdited(w)
    BY <1>2 DEF CreateInsertOrder, OrdersCreate, ItemsEdited
  <2> QED
    BY <2>1, <2>2
<1>3. CASE CreateOccupyTable(w)
  <2>1. HandlerMoves(w)
    BY <1>3, WroteMoves DEF CreateOccupyTable, AfterWrite
  <2>2. ItemsEdited(w)
    BY <1>3 DEF CreateOccupyTable, TablesUpdateStatus, ItemsEdited
  <2> QED
    BY <2>1, <2>2
<1>4. CASE CreateReadBack(w)
  BY <1>4, <1>0, ReturnMoves DEF CreateReadBack
<1>5. CASE AddItemReadOrder(w)
  BY <1>0, <1>5, CheckedCareful, NoErrorMeansOpen
  DEF AddItemReadOrder, OrdersGetByID, Checked, Careful
<1>6. CASE AddItemReadProduct(w)
  BY <1>0, <1>6, CheckedCareful DEF AddItemReadProduct, Checked, Careful
<1>7. CASE AddItemInsert(w)
  <2>1. CASE /\ AddItem(req[w].new, req[w].order, req[w].product, req[w].quantity, seen[w].price)
             /\ AnswerWrite(w)
    <3>1. HandlerMoves(w)
      BY <2>1, AnswerWriteMoves
    <3>2. items[req[w].new] = NULL /\ pc[w] = "add.insert" /\ req[w].new \in ItemId
      BY <1>7, <2>1 DEF AddItemInsert, AddItem, IInv, RequestFits, AddLabels, AddRequest
    <3>3. ASSUME NEW i \in ItemId PROVE items'[i] = items[i] \/ Edits(w, i)
      <4>1. CASE i # req[w].new
        BY <2>1, <4>1 DEF AddItem, IInv, TypeOK, SchemaOK
      <4>2. CASE i = req[w].new
        <5>1. items'[i] = [order |-> req[w].order, product |-> req[w].product,
                           quantity |-> req[w].quantity, price |-> seen[w].price,
                           status |-> "pending"]
          BY <2>1, <3>2, <4>2 DEF AddItem, IInv, TypeOK, SchemaOK
        <5>2. items'[i] \in ItemRow
          BY <5>1, <3>2 DEF IInv, RequestFits, AddLabels, AddRequest, RowFits, ItemRow,
                            ProductRow, ItemStatus
        <5>3. items'[i] # NULL
          BY <5>2, MarkersAreNoValues
        <5> QED
          BY <3>2, <4>2, <5>1, <5>3 DEF Edits, Exists
      <4> QED
        BY <4>1, <4>2
    <3> QED
      BY <3>1, <3>3 DEF ItemsEdited
  <2>2. CASE Answer(w, "ErrForeignKeyViolation") /\ UNCHANGED db
    BY <1>0, <2>2, AnswerCareful DEF Careful
  <2> QED
    BY <1>7, <2>1, <2>2 DEF AddItemInsert
<1>8. CASE UpdateItemReadOrder(w)
  BY <1>0, <1>8, CheckedCareful, NoErrorMeansOpen
  DEF UpdateItemReadOrder, OrdersGetByID, Checked, Careful
<1>9. CASE UpdateItemReadItem(w)
  BY <1>0, <1>9, CheckedCareful DEF UpdateItemReadItem, Checked, Careful
<1>10. CASE UpdateItemWrite(w)
  <2>1. CASE /\ req[w].item \in ItemsOf(req[w].order)
             /\ UpdateItem(req[w].item, NextQuantity(seen[w].quantity, req[w].quantity))
             /\ AnswerWrite(w)
    <3>1. HandlerMoves(w)
      BY <2>1, AnswerWriteMoves
    <3>2. pc[w] = "edit.write"
      BY <1>10 DEF UpdateItemWrite
    <3>3. ASSUME NEW i \in ItemId PROVE items'[i] = items[i] \/ Edits(w, i)
      <4>1. CASE i # req[w].item
        BY <2>1, <4>1 DEF UpdateItem, IInv, TypeOK, SchemaOK
      <4>2. CASE i = req[w].item
        <5>1. Exists(items[i]) /\ items[i].order = req[w].order /\ items[i] \in ItemRow
          BY <2>1, <4>2 DEF ItemsOf, Exists, IInv, TypeOK, SchemaOK
        <5>2. PICK q \in Quantity : items'[i] = [items[i] EXCEPT !.quantity = q]
          BY <2>1, <3>2, <4>2 DEF UpdateItem, IInv, TypeOK, SchemaOK, RowFits
        <5>3. items'[i] \in ItemRow
          BY <5>1, <5>2 DEF ItemRow
        <5>4. items'[i] # NULL /\ items'[i].order = items[i].order
              /\ items'[i].product = items[i].product
          BY <5>1, <5>2, <5>3, MarkersAreNoValues DEF ItemRow
        <5> QED
          BY <3>2, <5>1, <5>4 DEF Edits
      <4> QED
        BY <4>1, <4>2
    <3> QED
      BY <3>1, <3>3 DEF ItemsEdited
  <2>2. CASE Answer(w, "ErrNoRows") /\ UNCHANGED db
    BY <1>0, <2>2, AnswerCareful DEF Careful
  <2> QED
    BY <1>10, <2>1, <2>2 DEF UpdateItemWrite
<1>11. CASE DeleteItemReadOrder(w)
  BY <1>0, <1>11, CheckedCareful, NoErrorMeansOpen
  DEF DeleteItemReadOrder, OrdersGetByID, Checked, Careful
<1>12. CASE DeleteItemWrite(w)
  <2>1. CASE req[w].item \in ItemsOf(req[w].order) /\ DeleteItem(req[w].item) /\ AnswerWrite(w)
    <3>1. HandlerMoves(w)
      BY <2>1, AnswerWriteMoves
    <3>2. pc[w] = "remove.write"
      BY <1>12 DEF DeleteItemWrite
    <3>3. ASSUME NEW i \in ItemId PROVE items'[i] = items[i] \/ Edits(w, i)
      <4>1. CASE i # req[w].item
        BY <2>1, <4>1 DEF DeleteItem, IInv, TypeOK, SchemaOK
      <4>2. CASE i = req[w].item
        <5>1. items[i].order = req[w].order /\ items'[i] = DELETED
          BY <2>1, <4>2 DEF ItemsOf, DeleteItem, IInv, TypeOK, SchemaOK
        <5> QED
          BY <3>2, <5>1, MarkersAreNoValues DEF Edits, Exists
      <4> QED
        BY <4>1, <4>2
    <3> QED
      BY <3>1, <3>3 DEF ItemsEdited
  <2>2. CASE Answer(w, "ErrOrderItemNotFound") /\ UNCHANGED db
    BY <1>0, <2>2, AnswerCareful DEF Careful
  <2> QED
    BY <1>12, <2>1, <2>2 DEF DeleteItemWrite
<1>13. CASE UpdateStatusReadOrder(w)
  BY <1>0, <1>13, CheckedCareful DEF UpdateStatusReadOrder, Checked, Careful
<1>14. CASE UpdateStatusCountNonReady(w)
  BY <1>0, <1>14, CheckedCareful DEF UpdateStatusCountNonReady, Checked, Careful
<1>15. CASE UpdateStatusWrite(w)
  <2>1. HandlerMoves(w)
    BY <1>15, WroteMoves DEF UpdateStatusWrite, AfterWrite
  <2>2. ItemsEdited(w)
    BY <1>15 DEF UpdateStatusWrite, OrdersUpdateStatus, ItemsEdited
  <2> QED
    BY <2>1, <2>2
<1>16. CASE UpdateStatusHasActive(w)
  BY <1>0, <1>16, ContinueCareful DEF UpdateStatusHasActive, Careful
<1>17. CASE UpdateStatusTable(w)
  <2>1. HandlerMoves(w)
    BY <1>17, WroteMoves DEF UpdateStatusTable, AfterWrite
  <2>2. ItemsEdited(w)
    BY <1>17 DEF UpdateStatusTable, TablesUpdateStatus, ItemsEdited
  <2> QED
    BY <2>1, <2>2
<1>18. CASE UpdateStatusReadBack(w)
  BY <1>0, <1>18, AnswerCareful DEF UpdateStatusReadBack, Careful
<1> QED
  BY <1>1, <1>2, <1>3, <1>4, <1>5, <1>6, <1>7, <1>8, <1>9, <1>10, <1>11, <1>12, <1>13,
     <1>14, <1>15, <1>16, <1>17, <1>18 DEF OrderStep

LEMMA OrderStepCareful ==
  ASSUME IInv, NEW w \in Worker, OrderStep(w)
  PROVE  Careful(w)
BY OrderStepEdits DEF Careful, ItemsMove, ItemsEdited

LEMMA KitchenStepCareful ==
  ASSUME IInv, NEW w \in Worker, KitchenStep(w)
  PROVE  Careful(w)
<1> USE DEF RelyingLabels
<1>1. CASE ItemStatusReadItem(w)
  BY <1>1, CheckedCareful DEF ItemStatusReadItem
<1>2. CASE ItemStatusWrite(w)
  <2>1. CASE /\ req[w].item \in ItemsOf(req[w].order)
             /\ UpdateItemStatus(req[w].item, req[w].status)
             /\ Wrote(w, "kitchen.reply")
    <3>1. HandlerMoves(w)
      BY <2>1, WroteMoves DEF AfterWrite
    <3>2. ASSUME NEW i \in ItemId PROVE items'[i] = items[i] \/ Advances(i)
      <4>1. CASE i # req[w].item
        BY <2>1, <4>1 DEF UpdateItemStatus, IInv, TypeOK, SchemaOK
      <4>2. CASE i = req[w].item
        <5>1. Exists(items[i]) /\ items[i] \in ItemRow
          BY <2>1, <4>2 DEF ItemsOf, Exists, IInv, TypeOK, SchemaOK
        <5>2. items'[i] = [items[i] EXCEPT !.status = req[w].status]
          BY <2>1, <4>2 DEF UpdateItemStatus, IInv, TypeOK, SchemaOK
        <5>3. req[w].status \in ItemStatus
          BY <1>2 DEF ItemStatusWrite, IInv, RowFits, isForwardItemTransition, ItemStatus
        <5>4. items'[i] \in ItemRow /\ items'[i] = [items[i] EXCEPT !.status = items'[i].status]
          BY <5>1, <5>2, <5>3 DEF ItemRow
        <5> QED
          BY <5>1, <5>4, MarkersAreNoValues DEF Advances, Exists
      <4> QED
        BY <4>1, <4>2
    <3> QED
      BY <3>1, <3>2 DEF Careful, ItemsMove
  <2>2. CASE Answer(w, "ErrOrderItemNotFound") /\ UNCHANGED db
    BY <2>2, AnswerCareful
  <2> QED
    BY <1>2, <2>1, <2>2 DEF ItemStatusWrite
<1>3. CASE ItemStatusReadBack(w)
  BY <1>3, AnswerCareful DEF ItemStatusReadBack
<1> QED
  BY <1>1, <1>2, <1>3 DEF KitchenStep

LEMMA TableStepCareful ==
  ASSUME IInv, NEW w \in Worker, TableStep(w)
  PROVE  Careful(w)
<1>1. CASE TableInsert(w)
  <2>1. CASE TablesCreate(req[w].table) /\ AnswerWrite(w)
    BY <2>1, AnswerWriteMoves DEF TablesCreate, ItemsMove, Careful
  <2> QED
    BY <1>1, <2>1, AnswerCareful DEF TableInsert
<1>2. CASE TableStatusWrite(w)
  <2>1. CASE TablesUpdateStatus(req[w].table, req[w].status) /\ AnswerWrite(w)
    BY <2>1, AnswerWriteMoves DEF TablesUpdateStatus, ItemsMove, Careful
  <2> QED
    BY <1>2, <2>1, AnswerCareful DEF TableStatusWrite
<1> QED
  BY <1>1, <1>2 DEF TableStep

LEMMA ProductStepCareful ==
  ASSUME LockInv, NEW w \in Worker, ProductStep(w)
  PROVE  Careful(w)
<1> USE DEF RelyingLabels
<1>0. IInv
  BY DEF LockInv
<1>1. CASE ProductInsert(w)
  <2>1. CASE /\ ProductsCreate(req[w].new, [price |-> req[w].price, available |-> req[w].available])
             /\ AnswerWrite(w)
    BY <1>0, <2>1, AnswerWriteMoves DEF ProductsCreate, ItemsMove, Careful
  <2> QED
    BY <1>0, <1>1, <2>1, AnswerCareful DEF ProductInsert
<1>2. CASE ProductRead(w)
  BY <1>0, <1>2, CheckedCareful DEF ProductRead
<1>3. CASE ProductWrite(w)
  <2>1. CASE ProductsUpdate(req[w].product, Merged(seen[w], req[w])) /\ AnswerWrite(w)
    BY <1>0, <2>1, AnswerWriteMoves DEF ProductsUpdate, ItemsMove, Careful
  <2> QED
    BY <1>0, <1>3, <2>1, AnswerCareful DEF ProductWrite
<1>4. CASE ProductDropItems(w)
  <2>1. ItemsMove(w)
    BY <1>4, UnchangedItems DEF ProductDropItems
  <2>2. HandlerMoves(w)
    BY <1>0, <1>4 DEF ProductDropItems, HandlerMoves, db, IInv, TypeOK, RequestsOK
  <2> QED
    BY <2>1, <2>2 DEF Careful
<1>5. CASE ProductDrop(w)
  <2>1. CASE /\ Exists(products[req[w].product])
             /\ ProductsDelete(req[w].product, locked[w])
             /\ AnswerWrite(w)
    <3>1. HandlerMoves(w)
      BY <1>0, <2>1, AnswerWriteMoves
    <3>2. ASSUME NEW i \in ItemId PROVE items'[i] = items[i] \/ GoesWithProduct(i)
      <4>1. items'[i] = IF i \in locked[w] THEN DELETED ELSE items[i]
        BY <2>1 DEF ProductsDelete
      <4>2. CASE i \in locked[w] /\ items[i] # DELETED
        <5>1. Exists(items[i]) /\ items[i].product = req[w].product
          BY <1>5, <4>2 DEF ProductDrop, LockInv, LocksFit, Exists
        <5>2. req[w].product \in ProductId
          BY <1>0, <1>5 DEF ProductDrop, IInv, RequestFits, ProductDeleteRequest
        <5>3. ~Exists(products'[items[i].product])
          BY <1>0, <2>1, <5>1, <5>2 DEF ProductsDelete, Exists, IInv, TypeOK, SchemaOK
        <5> QED
          BY <4>1, <4>2, <5>1, <5>3 DEF GoesWithProduct
      <4> QED
        BY <4>1, <4>2
    <3> QED
      BY <3>1, <3>2 DEF Careful, ItemsMove
  <2> QED
    BY <1>0, <1>5, <2>1, AnswerCareful DEF ProductDrop
<1> QED
  BY <1>1, <1>2, <1>3, <1>4, <1>5 DEF ProductStep

LEMMA NextCareful ==
  ASSUME LockInv, Next
  PROVE  \E w \in Worker : Careful(w)
<1>1. PICK w \in Worker : Arrival(w) \/ Step(w) \/ StatementFails(w)
  BY DEF Next
<1>2. IInv
  BY DEF LockInv
<1>3. CASE Arrival(w)
  BY <1>2, <1>3, ArrivalCareful
<1>4. CASE Step(w)
  BY <1>2, <1>4, OrderStepCareful, KitchenStepCareful, TableStepCareful, ProductStepCareful
  DEF Step
<1>5. CASE StatementFails(w)
  BY <1>2, <1>5, AnswerCareful DEF StatementFails
<1> QED
  BY <1>1, <1>3, <1>4, <1>5

-----------------------------------------------------------------------------
(* The invariant *)

LEMMA InitLockInv ==
  ASSUME Init
  PROVE  LockInv
BY InitIInv DEF Init, LockInv, LocksFit

LEMMA NextLockInv ==
  ASSUME LockInv, Next
  PROVE  LockInv'
<1>1. IInv /\ IInv' /\ GoodWrite
  BY NextKeeps DEF LockInv
<1>2. PICK w \in Worker : Careful(w)
  BY NextCareful
<1>3. ASSUME NEW i \in ItemId, items[i] # NULL
      PROVE  /\ items'[i] # NULL
             /\ Exists(items'[i]) => Exists(items[i]) /\ items'[i].product = items[i].product
  <2>1. /\ items'[i] # NULL
        /\ Exists(items'[i]) => Exists(items[i])
    BY <1>1, <1>3 DEF GoodWrite, ItemMoves
  <2>2. CASE Advances(i)
    <3>1. items[i] \in ItemRow
      BY <1>1, <2>2 DEF Advances, Exists, IInv, TypeOK, SchemaOK
    <3> QED
      BY <2>1, <2>2, <3>1 DEF Advances, ItemRow
  <2>3. CASE GoesWithProduct(i)
    BY <2>1, <2>3 DEF GoesWithProduct, Exists
  <2>4. CASE Edits(w, i)
    BY <2>1, <2>4 DEF Edits
  <2> QED
    BY <1>2, <1>3, <2>1, <2>2, <2>3, <2>4 DEF Careful, ItemsMove
<1>4. ASSUME NEW v \in Worker, pc'[v] = "drop.product", NEW i \in locked'[v]
      PROVE  /\ items'[i] # NULL
             /\ Exists(items'[i]) => items'[i].product = req'[v].product
  <2>1. i \in ItemId
    BY <1>1 DEF IInv, TypeOK, RequestsOK
  <2>2. CASE v = w
    BY <1>2, <1>4, <2>1, <2>2 DEF Careful, HandlerMoves, ItemsWithProduct, Exists
  <2>3. CASE v # w
    <3>1. pc[v] = "drop.product" /\ req'[v] = req[v] /\ i \in locked[v]
      BY <1>2, <1>4, <2>3 DEF Careful, HandlerMoves
    <3>2. items[i] # NULL /\ (Exists(items[i]) => items[i].product = req[v].product)
      BY <3>1 DEF LockInv, LocksFit
    <3> QED
      BY <1>3, <2>1, <3>1, <3>2
  <2> QED
    BY <2>2, <2>3
<1> QED
  BY <1>1, <1>4 DEF LockInv, LocksFit, Exists

LEMMA StutterLockInv ==
  ASSUME LockInv, UNCHANGED vars
  PROVE  LockInv'
BY StutterKeeps DEF LockInv, LocksFit, vars, db, request, Exists

(* The inductive invariant, with what the open transactions hold.          *)
THEOREM LocksInductive == Spec => []LockInv
<1>1. LockInv /\ [Next]_vars => LockInv'
  BY NextLockInv, StutterLockInv
<1> QED
  BY <1>1, InitLockInv, PTL DEF Spec

-----------------------------------------------------------------------------
(* The theorem *)

LEMMA FrozenStays ==
  ASSUME IInv, IInv', GoodWrite, NEW w \in Worker, Careful(w), NEW o \in OrderId, Frozen(o)
  PROVE  Frozen(o)'
<1>1. orders'[o] # NULL /\ orders'[o].status # "open"
  BY DEF Frozen, GoodWrite, OrderMoves
<1>2. ASSUME NEW v \in Worker, pc'[v] \in RelyingLabels, req'[v].order = o PROVE FALSE
  BY <1>2 DEF Frozen, Editing, Careful, HandlerMoves, RelyingLabels
<1> QED
  BY <1>1, <1>2 DEF Frozen, Editing, RelyingLabels

LEMMA FrozenItemsStay ==
  ASSUME IInv, IInv', NEW w \in Worker, Careful(w), NEW o \in OrderId, Frozen(o),
         NEW i \in ItemsOf(o) \cup ItemsOf(o)'
  PROVE  \/ i \in ItemsOf(o) /\ ~Exists(products'[items[i].product])
         \/ /\ i \in ItemsOf(o) \cap ItemsOf(o)'
            /\ items'[i] = [items[i] EXCEPT !.status = items'[i].status]
<1>1. /\ i \in ItemId
      /\ i \in ItemsOf(o) \/ (Exists(items'[i]) /\ items'[i].order = o)
  BY DEF ItemsOf, Exists
<1>2. Exists(items[i]) => items[i] \in ItemRow
  BY <1>1 DEF Exists, IInv, TypeOK, SchemaOK
<1>3. CASE items'[i] = items[i]
  BY <1>1, <1>2, <1>3 DEF ItemsOf, Exists, ItemRow
<1>4. CASE Advances(i)
  BY <1>1, <1>2, <1>4 DEF Advances, ItemsOf, Exists, ItemRow
<1>5. CASE GoesWithProduct(i)
  BY <1>1, <1>5 DEF GoesWithProduct, ItemsOf, Exists
<1>6. CASE Edits(w, i)
  BY <1>1, <1>6 DEF Edits, ItemsOf, Frozen, Editing, RelyingLabels
<1> QED
  BY <1>1, <1>3, <1>4, <1>5, <1>6 DEF Careful, ItemsMove

(* Once an order is not open and the requests that saw it open have ended, *)
(* its items are what the kitchen was sent, for good, however many workers *)
(* go on: no request gets past the check of its status again.              *)
THEOREM LockedOrdersStayLocked == Spec => LockedOrderStaysLocked
<1>1. ASSUME LockInv, Next, NEW o \in OrderId
      PROVE  Frozen(o) =>
             /\ Frozen(o)'
             /\ \A i \in ItemsOf(o) \cup ItemsOf(o)' :
                  \/ i \in ItemsOf(o) /\ ~Exists(products'[items[i].product])
                  \/ /\ i \in ItemsOf(o) \cap ItemsOf(o)'
                     /\ items'[i] = [items[i] EXCEPT !.status = items'[i].status]
  <2>1. IInv /\ IInv' /\ GoodWrite
    BY <1>1, NextKeeps DEF LockInv
  <2>2. PICK w \in Worker : Careful(w)
    BY <1>1, NextCareful
  <2> QED
    BY <2>1, <2>2, FrozenStays, FrozenItemsStay
<1>2. LockInv /\ [Next]_vars =>
        [\A o \in OrderId :
           Frozen(o) =>
             /\ Frozen(o)'
             /\ \A i \in ItemsOf(o) \cup ItemsOf(o)' :
                  \/ i \in ItemsOf(o) /\ ~Exists(products'[items[i].product])
                  \/ /\ i \in ItemsOf(o) \cap ItemsOf(o)'
                     /\ items'[i] = [items[i] EXCEPT !.status = items'[i].status]]_vars
  BY <1>1
<1> QED
  BY <1>2, LocksInductive, PTL DEF Spec, LockedOrderStaysLocked
=============================================================================
