------------------------ MODULE WaiterScreens_proofs ------------------------
(***************************************************************************)
(* Theorems about the waiter's screens, for any number of devices, workers *)
(* and rows.  WaiterInv says that nothing a screen holds is made up,       *)
(* CartInv, further down, when it is also current.                         *)
(***************************************************************************)
EXTENDS WaiterScreens, RestaurantAPI_proofs

\* An item the order has, or had.
Had(o, i) == items[i] # NULL /\ (Exists(items[i]) => items[i].order = o)

\* had misses no item of the order, and holds no item of another.
HadFits(o) == ItemsOf(o) \subseteq had[o] /\ \A i \in had[o] : Had(o, i)

\* No screen changes an item's quantity, and an order is sent by a waiter, from
\* a cart with items the order has had.
WorkerFits(w) ==
  /\ pc[w] \notin EditLabels
  /\ pc[w] \in {"create.occupy", "create.reply"} => orders[req[w].new] # NULL
  /\ pc[w] \in StatusLabels =>
       /\ req[w].status = "sent"
       /\ drawn[w] # {} /\ drawn[w] \subseteq had[req[w].order]

\* A creation is being handled, or was answered.
CallFits(c) ==
  c.kind = "create" =>
    \/ pc[c.w] \in CreateLabels /\ req[c.w].new = c.order
    \/ pc[c.w] = "idle" /\ (reply[c.w] = 200 => orders[c.order] # NULL)

\* A cart, or a read of one, of order o: it may be old, but is not made up.
ViewFits(o, view) ==
  /\ o # NULL
  /\ view.status # NULL /\ view.status # "open" => orders[o].status # "open"
  /\ view.lines # NULL => view.status # NULL /\ view.lines \subseteq had[o]

ScreenFits(d) ==
  /\ shown[d] # NULL => orders[shown[d]] # NULL
  /\ cart[d] # NULL => ViewFits(shown[d], cart[d])
  /\ read[d] # NULL => ViewFits(shown[d], read[d])
  /\ \A c \in calls[d] : CallFits(c)
  /\ shown[d] = NULL => \A c \in calls[d] : c.kind = "create"

WaiterInv ==
  /\ IInv
  /\ WaiterTypeOK
  /\ \A o \in OrderId : HadFits(o)
  /\ \A w \in Worker : LocksFit(w) /\ WorkerFits(w)
  /\ \A d \in Waiter : ScreenFits(d)

-----------------------------------------------------------------------------
(* The statements of the services *)

SameRoute(label, next) ==
  /\ label \in CreateLabels <=> next \in CreateLabels
  /\ label \in AddLabels    <=> next \in AddLabels
  /\ label \in EditLabels   <=> next \in EditLabels
  /\ label \in RemoveLabels <=> next \in RemoveLabels
  /\ label \in StatusLabels <=> next \in StatusLabels

\* The handler goes on within its route or returns, and a creation succeeds
\* with its last statement only.
RouteKept(w) ==
  /\ \A v \in Worker \ {w} : pc'[v] = pc[v] /\ req'[v] = req[v] /\ reply'[v] = reply[v]
  /\ pc'[w] = "idle" \/ (SameRoute(pc[w], pc'[w]) /\ req'[w] = req[w])
  /\ pc'[w] = "idle" /\ reply'[w] = 200 /\ pc[w] \in CreateLabels => pc[w] = "create.reply"
  /\ pc'[w] \in {"create.occupy", "create.reply"} =>
       pc[w] \in {"create.insert", "create.occupy"}

OrdersEdited(w) ==
  \A o \in OrderId :
    \/ orders'[o] = orders[o]
    \/ pc[w] = "create.insert" /\ req[w].new = o /\ orders[o] = NULL
    \/ pc[w] = "status.write" /\ req[w].order = o

\* An order is created before its handler goes on.
CreatedFirst(w) ==
  pc[w] = "create.insert" /\ pc'[w] # "idle" => orders'[req[w].new] # NULL

Statement(w) ==
  /\ pc[w] # "idle"
  /\ ItemsMove(w) /\ OrdersEdited(w) /\ CreatedFirst(w)
  /\ RouteKept(w)

LEMMA SuccessMeansNil ==
  ASSUME NEW err, HttpStatus(err) = 200
  PROVE  err = "nil"
BY DEF HttpStatus

LEMMA ReturnRoute ==
  ASSUME IInv, NEW w \in Worker, NEW err, Return(w, err),
         err = "nil" /\ pc[w] \in CreateLabels => pc[w] = "create.reply"
  PROVE  RouteKept(w) /\ CreatedFirst(w)
<1>1. HttpStatus(err) = 200 => err = "nil"
  BY SuccessMeansNil
<1> QED
  BY <1>1 DEF Return, RouteKept, CreatedFirst, IInv, TypeOK, RequestsOK

LEMMA ContinueRoute ==
  ASSUME IInv, NEW w \in Worker, NEW label, NEW row, Continue(w, label, row),
         label # "idle", SameRoute(pc[w], label),
         label \notin {"create.occupy", "create.reply"}, pc[w] # "create.insert"
  PROVE  RouteKept(w) /\ CreatedFirst(w)
BY DEF Continue, RouteKept, CreatedFirst, IInv, TypeOK, RequestsOK

LEMMA WroteRoute ==
  ASSUME IInv, NEW w \in Worker, NEW label, Wrote(w, label), label # "idle",
         SameRoute(pc[w], label),
         label \in {"create.occupy", "create.reply"} => pc[w] \in {"create.insert", "create.occupy"}
  PROVE  RouteKept(w)
BY DEF Wrote, RouteKept, IInv, TypeOK, RequestsOK

\* No order is written, and the handler goes on with a row or answers.
LEMMA CheckedStatement ==
  ASSUME IInv, NEW w \in Worker, NEW err, NEW label, NEW row, Checked(w, err, label, row),
         label # "idle", SameRoute(pc[w], label),
         label \notin {"create.occupy", "create.reply"}, pc[w] # "create.insert"
  PROVE  RouteKept(w) /\ CreatedFirst(w) /\ OrdersEdited(w)
<1>1. OrdersEdited(w)
  BY DEF Checked, db, OrdersEdited
<1>2. CASE err # "nil"
  BY <1>1, <1>2, ReturnRoute DEF Checked, Answer
<1>3. CASE err = "nil"
  BY <1>1, <1>3, ContinueRoute DEF Checked
<1> QED
  BY <1>2, <1>3

LEMMA AnswerStatement ==
  ASSUME IInv, NEW w \in Worker, NEW err, Answer(w, err), UNCHANGED orders,
         err = "nil" => pc[w] \notin CreateLabels
  PROVE  RouteKept(w) /\ CreatedFirst(w) /\ OrdersEdited(w)
BY ReturnRoute DEF Answer, OrdersEdited

LEMMA AnswerWriteStatement ==
  ASSUME IInv, NEW w \in Worker, AnswerWrite(w), UNCHANGED orders, pc[w] \notin CreateLabels
  PROVE  RouteKept(w) /\ CreatedFirst(w) /\ OrdersEdited(w)
BY ReturnRoute DEF AnswerWrite, OrdersEdited

LEMMA RoutesOfTheHandlers ==
  /\ SameRoute("create.table", "create.insert")
  /\ SameRoute("create.insert", "create.occupy") /\ SameRoute("create.occupy", "create.reply")
  /\ SameRoute("add.order", "add.product") /\ SameRoute("add.product", "add.insert")
  /\ SameRoute("edit.order", "edit.item") /\ SameRoute("edit.item", "edit.write")
  /\ SameRoute("remove.order", "remove.write")
  /\ \A label, next \in StatusLabels : SameRoute(label, next)
  /\ {"status.order", "status.count", "status.write", "status.active", "status.table",
      "status.reply"} \subseteq StatusLabels
  /\ \A label \in {"add.insert", "edit.write", "remove.write", "status.reply"} :
       label \notin CreateLabels
  /\ "create.insert" \in CreateLabels
BY DEF SameRoute, CreateLabels, AddLabels, EditLabels, RemoveLabels, StatusLabels

LEMMA OrderStepStatement ==
  ASSUME IInv, NEW w \in Worker, OrderStep(w)
  PROVE  Statement(w)
<1>0. pc[w] # "idle"
  BY DEF OrderStep, CreateReadTable, CreateInsertOrder, CreateOccupyTable, CreateReadBack,
         AddItemReadOrder, AddItemReadProduct, AddItemInsert, UpdateItemReadOrder,
         UpdateItemReadItem, UpdateItemWrite, DeleteItemReadOrder, DeleteItemWrite,
         UpdateStatusReadOrder, UpdateStatusCountNonReady, UpdateStatusWrite,
         UpdateStatusHasActive, UpdateStatusTable, UpdateStatusReadBack
<1> SUFFICES RouteKept(w) /\ CreatedFirst(w) /\ OrdersEdited(w)
  BY <1>0, OrderStepCareful DEF Statement, Careful
<1> USE RoutesOfTheHandlers
<1>1. CASE CreateReadTable(w)
  BY <1>1, CheckedStatement DEF CreateReadTable
<1>2. CASE CreateInsertOrder(w)
  <2>1. RouteKept(w)
    BY <1>2, WroteRoute DEF CreateInsertOrder
  <2>2. req[w].new \in OrderId /\ req[w].table \in TableId
    BY <1>2 DEF CreateInsertOrder, IInv, RequestFits, CreateRequest
  <2>3. [table |-> req[w].table, status |-> "open"] \in OrderRow
    BY <2>2 DEF OrderRow, OrderStatus
  <2>4. OrdersEdited(w) /\ CreatedFirst(w)
    BY <1>2, <2>2, <2>3, MarkersAreNoValues
    DEF CreateInsertOrder, OrdersCreate, OrdersEdited, CreatedFirst, IInv, TypeOK, SchemaOK
  <2> QED
    BY <2>1, <2>4
<1>3. CASE CreateOccupyTable(w)
  BY <1>3, WroteRoute DEF CreateOccupyTable, TablesUpdateStatus, OrdersEdited, CreatedFirst
<1>4. CASE CreateReadBack(w)
  BY <1>4, ReturnRoute DEF CreateReadBack, db, OrdersEdited
<1>5. CASE AddItemReadOrder(w)
  BY <1>5, CheckedStatement DEF AddItemReadOrder
<1>6. CASE AddItemReadProduct(w)
  BY <1>6, CheckedStatement DEF AddItemReadProduct
<1>7. CASE AddItemInsert(w)
  BY <1>7, AnswerStatement, AnswerWriteStatement DEF AddItemInsert, AddItem, db
<1>8. CASE UpdateItemReadOrder(w)
  BY <1>8, CheckedStatement DEF UpdateItemReadOrder
<1>9. CASE UpdateItemReadItem(w)
  BY <1>9, CheckedStatement DEF UpdateItemReadItem
<1>10. CASE UpdateItemWrite(w)
  BY <1>10, AnswerStatement, AnswerWriteStatement DEF UpdateItemWrite, UpdateItem, db
<1>11. CASE DeleteItemReadOrder(w)
  BY <1>11, CheckedStatement DEF DeleteItemReadOrder
<1>12. CASE DeleteItemWrite(w)
  BY <1>12, AnswerStatement, AnswerWriteStatement DEF DeleteItemWrite, DeleteItem, db
<1>13. CASE UpdateStatusReadOrder(w)
  BY <1>13, CheckedStatement DEF UpdateStatusReadOrder
<1>14. CASE UpdateStatusCountNonReady(w)
  BY <1>14, CheckedStatement DEF UpdateStatusCountNonReady
<1>15. CASE UpdateStatusWrite(w)
  <2>1. RouteKept(w) /\ CreatedFirst(w)
    BY <1>15, WroteRoute DEF UpdateStatusWrite, CreatedFirst
  <2>2. OrdersEdited(w)
    BY <1>15 DEF UpdateStatusWrite, OrdersUpdateStatus, OrdersEdited, IInv, TypeOK, SchemaOK
  <2> QED
    BY <2>1, <2>2
<1>16. CASE UpdateStatusHasActive(w)
  BY <1>16, ContinueRoute DEF UpdateStatusHasActive, db, OrdersEdited
<1>17. CASE UpdateStatusTable(w)
  BY <1>17, WroteRoute DEF UpdateStatusTable, TablesUpdateStatus, OrdersEdited, CreatedFirst
<1>18. CASE UpdateStatusReadBack(w)
  BY <1>18, AnswerStatement DEF UpdateStatusReadBack, db
<1> QED
  BY <1>1, <1>2, <1>3, <1>4, <1>5, <1>6, <1>7, <1>8, <1>9, <1>10, <1>11, <1>12, <1>13,
     <1>14, <1>15, <1>16, <1>17, <1>18 DEF OrderStep

LEMMA FailureStatement ==
  ASSUME IInv, NEW w \in Worker, StatementFails(w)
  PROVE  Statement(w)
BY AnswerStatement, UnchangedItems DEF StatementFails, db, Statement

\* The other services are on none of the order service's routes.
OtherLabels == KitchenLabels \cup TableLabels \cup ProductLabels

LEMMA OtherRoutes ==
  /\ \A label, next \in OtherLabels : SameRoute(label, next)
  /\ \A label \in OtherLabels :
       /\ label \notin CreateLabels /\ label # "idle"
       /\ label \notin {"create.insert", "create.occupy", "create.reply"}
  /\ {"kitchen.item", "kitchen.write", "kitchen.reply", "table.insert", "table.write",
      "product.insert", "product.read", "product.write", "drop.items", "drop.product"}
       \subseteq OtherLabels
BY DEF OtherLabels, SameRoute, CreateLabels, AddLabels, EditLabels, RemoveLabels, StatusLabels,
       KitchenLabels, TableLabels, ProductLabels

LEMMA OtherStepStatement ==
  ASSUME LockInv, NEW w \in Worker, KitchenStep(w) \/ TableStep(w) \/ ProductStep(w)
  PROVE  Statement(w)
<1>0. IInv
  BY DEF LockInv
<1>1. pc[w] \in OtherLabels
  BY OtherRoutes
  DEF KitchenStep, ItemStatusReadItem, ItemStatusWrite, ItemStatusReadBack,
      TableStep, TableInsert, TableStatusWrite,
      ProductStep, ProductInsert, ProductRead, ProductWrite, ProductDropItems, ProductDrop
<1> SUFFICES RouteKept(w) /\ CreatedFirst(w) /\ OrdersEdited(w)
  BY <1>0, <1>1, KitchenStepCareful, TableStepCareful, ProductStepCareful, OtherRoutes
  DEF Statement, Careful
<1> USE <1>0, <1>1, OtherRoutes
<1>2. CASE ItemStatusReadItem(w) \/ ProductRead(w)
  BY <1>2, CheckedStatement DEF ItemStatusReadItem, ProductRead
<1>3. CASE ItemStatusWrite(w)
  BY <1>3, AnswerStatement, WroteRoute
  DEF ItemStatusWrite, UpdateItemStatus, OrdersEdited, CreatedFirst, db
<1>4. CASE ItemStatusReadBack(w)
  BY <1>4, AnswerStatement DEF ItemStatusReadBack, db
<1>5. CASE TableInsert(w)
  BY <1>5, AnswerStatement, AnswerWriteStatement DEF TableInsert, TablesCreate, db
<1>6. CASE TableStatusWrite(w)
  BY <1>6, AnswerStatement, AnswerWriteStatement DEF TableStatusWrite, TablesUpdateStatus, db
<1>7. CASE ProductInsert(w)
  BY <1>7, AnswerStatement, AnswerWriteStatement DEF ProductInsert, ProductsCreate, db
<1>8. CASE ProductWrite(w)
  BY <1>8, AnswerStatement, AnswerWriteStatement DEF ProductWrite, ProductsUpdate, db
<1>9. CASE ProductDropItems(w)
  BY <1>9 DEF ProductDropItems, db, RouteKept, CreatedFirst, OrdersEdited, IInv, TypeOK, RequestsOK
<1>10. CASE ProductDrop(w)
  BY <1>10, AnswerStatement, AnswerWriteStatement DEF ProductDrop, ProductsDelete, db
<1> QED
  BY <1>2, <1>3, <1>4, <1>5, <1>6, <1>7, <1>8, <1>9, <1>10 DEF KitchenStep, TableStep, ProductStep

LEMMA StepStatement ==
  ASSUME WaiterInv, NEW w \in Worker, Step(w) \/ StatementFails(w)
  PROVE  Statement(w)
BY OrderStepStatement, OtherStepStatement, FailureStatement DEF WaiterInv, LockInv, Step

-----------------------------------------------------------------------------
(* The server moves, and the screens still fit *)

LEMMA HadStays ==
  ASSUME IInv, GoodWrite, NEW w \in Worker, ItemsMove(w), NEW o, NEW i \in ItemId, Had(o, i)
  PROVE  items'[i] # NULL /\ (Exists(items'[i]) => items'[i].order = o)
<1>1. items'[i] # NULL /\ (Exists(items'[i]) => Exists(items[i]))
  BY DEF Had, GoodWrite, ItemMoves
<1>2. CASE Advances(i)
  <2>1. items[i] \in ItemRow
    BY <1>2 DEF Advances, Exists, IInv, TypeOK, SchemaOK
  <2> QED
    BY <1>1, <1>2, <2>1 DEF Had, Advances, ItemRow
<1>3. CASE GoesWithProduct(i)
  BY <1>1, <1>3 DEF GoesWithProduct, Exists
<1> QED
  BY <1>1, <1>2, <1>3 DEF Had, ItemsMove, Edits

\* had grows, and stays right.
LEMMA StatementKeepsHad ==
  ASSUME WaiterInv, GoodWrite, NEW w \in Worker, Statement(w), Observed, NEW o \in OrderId
  PROVE  HadFits(o)' /\ had[o] \subseteq had'[o]
<1>1. had'[o] = had[o] \cup ItemsOf(o)' /\ had[o] \subseteq ItemId /\ HadFits(o) /\ IInv
  BY DEF Observed, WaiterInv, WaiterTypeOK
<1>2. ASSUME NEW i \in had[o]
      PROVE  items'[i] # NULL /\ (Exists(items'[i]) => items'[i].order = o)
  BY <1>1, <1>2, HadStays DEF HadFits, Statement
<1>3. ASSUME NEW i \in ItemsOf(o)'
      PROVE  items'[i] # NULL /\ (Exists(items'[i]) => items'[i].order = o)
  BY <1>3 DEF ItemsOf, Exists
<1>4. \A i \in had'[o] : Had(o, i)'
  BY <1>1, <1>2, <1>3 DEF Had, Exists
<1> QED
  BY <1>1, <1>4 DEF HadFits

LEMMA StatementKeepsWorkers ==
  ASSUME WaiterInv, GoodWrite, NEW w \in Worker, Statement(w), Observed, NEW v \in Worker
  PROVE  WorkerFits(v)'
<1>1. WorkerFits(v) /\ RequestFits(pc[v], req[v])
  BY DEF WaiterInv, IInv
<1>2. CASE pc'[v] = "idle"
  BY <1>2 DEF WorkerFits, EditLabels, StatusLabels
<1>3. CASE pc'[v] # "idle"
  <2>1. SameRoute(pc[v], pc'[v]) /\ req'[v] = req[v]
    BY <1>3 DEF Statement, RouteKept, SameRoute
  <2>2. pc'[v] \notin EditLabels
    BY <1>1, <2>1 DEF WorkerFits, SameRoute
  <2>3. ASSUME pc'[v] \in {"create.occupy", "create.reply"} PROVE orders'[req'[v].new] # NULL
    <3>1. pc[v] \in {"create.insert", "create.occupy", "create.reply"}
      BY <2>3 DEF Statement, RouteKept
    <3>2. req[v].new \in OrderId
      BY <1>1, <3>1 DEF RequestFits, CreateLabels, CreateRequest
    <3>3. CASE pc[v] = "create.insert"
      BY <1>3, <2>1, <2>3, <3>3 DEF Statement, CreatedFirst, RouteKept
    <3>4. CASE pc[v] # "create.insert"
      BY <1>1, <2>1, <3>1, <3>2, <3>4 DEF WorkerFits, GoodWrite, OrderMoves
    <3> QED
      BY <3>3, <3>4
  <2>4. ASSUME pc'[v] \in StatusLabels
        PROVE  /\ req'[v].status = "sent"
               /\ drawn'[v] # {} /\ drawn'[v] \subseteq had'[req'[v].order]
    <3>1. /\ req[v].status = "sent" /\ req[v].order \in OrderId
          /\ drawn[v] # {} /\ drawn[v] \subseteq had[req[v].order]
      BY <1>1, <2>1, <2>4 DEF WorkerFits, SameRoute, RequestFits, StatusRequest
    <3>2. drawn'[v] = drawn[v]
      BY <1>3 DEF Observed
    <3> QED
      BY <2>1, <3>1, <3>2, StatementKeepsHad
  <2> QED
    BY <2>2, <2>3, <2>4 DEF WorkerFits
<1> QED
  BY <1>2, <1>3

LEMMA StatementKeepsCalls ==
  ASSUME WaiterInv, GoodWrite, NEW w \in Worker, Statement(w), UNCHANGED screens,
         NEW d \in Waiter, NEW c \in calls[d]
  PROVE  CallFits(c)'
<1>1. CallFits(c) /\ c.w \in Worker /\ c.order \in OrderId
  BY DEF WaiterInv, ScreenFits, WaiterTypeOK
<1>2. orders[c.order] # NULL => orders'[c.order] # NULL
  BY <1>1 DEF GoodWrite, OrderMoves
<1>3. CASE c.w # w
  BY <1>1, <1>2, <1>3 DEF CallFits, Statement, RouteKept
<1>4. CASE c.w = w /\ c.kind = "create"
  <2>1. pc[w] \in CreateLabels /\ req[w].new = c.order
    BY <1>1, <1>4 DEF CallFits, Statement
  <2>2. CASE pc'[w] = "idle" /\ reply'[w] = 200
    <3>1. pc[w] = "create.reply"
      BY <2>1, <2>2 DEF Statement, RouteKept
    <3>2. orders[req[w].new] # NULL
      BY <3>1 DEF WaiterInv, WorkerFits
    <3> QED
      BY <1>2, <1>4, <2>1, <2>2, <3>2 DEF CallFits
  <2>3. CASE pc'[w] # "idle"
    BY <1>4, <2>1, <2>3 DEF Statement, RouteKept, SameRoute, CallFits
  <2> QED
    BY <1>4, <2>2, <2>3 DEF CallFits
<1> QED
  BY <1>3, <1>4 DEF CallFits

LEMMA StatementKeepsScreens ==
  ASSUME WaiterInv, GoodWrite, NEW w \in Worker, Statement(w), Observed, UNCHANGED screens,
         NEW d \in Waiter
  PROVE  ScreenFits(d)'
<1>1. ScreenFits(d) /\ shown[d] \in OrderId \cup {NULL}
  BY DEF WaiterInv, WaiterTypeOK
<1>2. shown[d] # NULL =>
        /\ orders'[shown[d]] # NULL
        /\ orders[shown[d]].status # "open" => orders'[shown[d]].status # "open"
  BY <1>1 DEF ScreenFits, GoodWrite, OrderMoves
<1>3. shown[d] # NULL => had[shown[d]] \subseteq had'[shown[d]]
  BY <1>1, StatementKeepsHad
<1>4. cart[d] # NULL => ViewFits(shown[d], cart[d])'
  BY <1>1, <1>2, <1>3 DEF ScreenFits, ViewFits, screens
<1>5. read[d] # NULL => ViewFits(shown[d], read[d])'
  BY <1>1, <1>2, <1>3 DEF ScreenFits, ViewFits, screens
<1>6. \A c \in calls[d] : CallFits(c)'
  BY StatementKeepsCalls
<1> QED
  BY <1>1, <1>2, <1>4, <1>5, <1>6 DEF ScreenFits, screens

LEMMA ServerStepKeeps ==
  ASSUME WaiterInv, NEW w \in Worker, ServerStep(w)
  PROVE  WaiterInv'
<1>1. LockInv /\ IInv /\ (Step(w) \/ StatementFails(w)) /\ Observed /\ UNCHANGED screens
  BY DEF WaiterInv, LockInv, ServerStep
<1>2. Statement(w)
  BY <1>1, StepStatement
<1>3. LockInv' /\ GoodWrite
  BY <1>1, NextKeeps, NextLockInv DEF Next
<1>4. WaiterTypeOK'
  BY <1>1 DEF WaiterInv, WaiterTypeOK, screens, Observed, ItemsOf
<1> QED
  BY <1>1, <1>2, <1>3, <1>4, StatementKeepsHad, StatementKeepsWorkers, StatementKeepsScreens
  DEF WaiterInv, LockInv

-----------------------------------------------------------------------------
(* A request arrives *)

\* A transaction that begins holds no row.
LEMMA ReceiveLocks ==
  ASSUME WaiterInv, NEW w \in Worker, NEW endpoint, NEW label \in First, NEW r,
         Receive(w, endpoint, label, r), NEW v \in Worker
  PROVE  LocksFit(v)'
BY DEF WaiterInv, LocksFit, Receive, First, db, Exists, IInv, TypeOK, RequestsOK

\* The requests of the other screens are none of the waiters'.
LEMMA OtherReceived ==
  ASSUME WaiterInv, NEW w \in Worker, OtherRequest(w)
  PROVE  /\ LockInv' /\ UNCHANGED db /\ Free(w) /\ UNCHANGED <<screens, observers>>
         /\ \A v \in Worker \ {w} : /\ pc'[v] = pc[v] /\ req'[v] = req[v]
                                    /\ reply'[v] = reply[v] /\ wrote'[v] = wrote[v]
         /\ pc[w] = "idle" /\ pc'[w] \in OtherLabels
<1>1. LockInv /\ IInv /\ RequestsOK
  BY DEF WaiterInv, LockInv, IInv, TypeOK
<1>2. Arrival(w)
  BY DEF OtherRequest, Arrival
<1>3. LockInv'
  BY <1>1, <1>2, NextLockInv DEF Next
<1>4. \E endpoint, label, r : label \in OtherLabels /\ Receive(w, endpoint, label, r)
  BY OtherRoutes
  DEF OtherRequest, ReceiveItemStatus, ReceiveNewTable, ReceiveTableStatus, ReceiveNewProduct,
      ReceiveProductPatch, ReceiveProductDelete
<1> QED
  BY <1>1, <1>3, <1>4 DEF OtherRequest, Receive, RequestsOK

LEMMA OtherRequestKeeps ==
  ASSUME WaiterInv, NEW w \in Worker, OtherRequest(w)
  PROVE  WaiterInv'
<1>1. /\ LockInv' /\ UNCHANGED <<orders, items, shown, cart, cartOpen, read, calls, missed,
                                  had, dropped, drawn>>
      /\ Free(w)
      /\ \A v \in Worker \ {w} : pc'[v] = pc[v] /\ req'[v] = req[v] /\ reply'[v] = reply[v]
      /\ pc'[w] \in OtherLabels
  BY OtherReceived DEF db, screens, observers
<1>2. WaiterTypeOK' /\ \A o \in OrderId : HadFits(o)'
  BY <1>1 DEF WaiterInv, WaiterTypeOK, HadFits, Had, ItemsOf, Exists
<1>3. ASSUME NEW v \in Worker PROVE WorkerFits(v)'
  <2>1. CASE v = w
    <3>1. /\ pc'[w] \notin EditLabels /\ pc'[w] \notin StatusLabels
          /\ pc'[w] \notin {"create.occupy", "create.reply"}
      BY <1>1 DEF OtherLabels, KitchenLabels, TableLabels, ProductLabels, EditLabels, StatusLabels
    <3> QED
      BY <2>1, <3>1 DEF WorkerFits
  <2>2. CASE v # w
    BY <1>1, <2>2 DEF WaiterInv, WorkerFits
  <2> QED
    BY <2>1, <2>2
<1>4. ASSUME NEW d \in Waiter PROVE ScreenFits(d)'
  <2>1. ScreenFits(d) /\ \A c \in calls[d] : c.w \in Worker /\ c.w # w
    BY <1>1 DEF WaiterInv, WaiterTypeOK, Free
  <2>2. \A c \in calls[d] : CallFits(c)'
    BY <1>1, <2>1 DEF ScreenFits, CallFits
  <2> QED
    BY <1>1, <2>1, <2>2 DEF ScreenFits, ViewFits
<1> QED
  BY <1>1, <1>2, <1>3, <1>4 DEF WaiterInv, LockInv

LEMMA SendKeeps ==
  ASSUME WaiterInv, NEW d \in Waiter, NEW w \in Worker, NEW endpoint,
         NEW label \in First, NEW r \in Request, Receive(w, endpoint, label, r),
         NEW kind \in {"create", "add", "remove", "send"}, NEW o \in OrderId,
         Sends(d, kind, w, o), RequestFits(label, r), label \notin EditLabels,
         shown[d] = NULL => kind = "create",
         kind = "create" => label \in CreateLabels /\ r.new = o,
         kind = "send" => cart[d] # NULL,
         label \in StatusLabels =>
           /\ kind = "send" /\ r.status = "sent"
           /\ cart[d].lines # {} /\ cart[d].lines \subseteq had[r.order]
  PROVE  WaiterInv'
<1>1. IInv /\ WaiterTypeOK /\ (\A v \in Worker : WorkerFits(v)) /\ Free(w)
      /\ (\A e \in Waiter : ScreenFits(e))
  BY DEF WaiterInv, Sends
<1>2. IInv'
  BY <1>1, ReceiveKeeps
<1>3. /\ WaiterTypeOK' /\ UNCHANGED <<had, dropped>>
      /\ kind = "send" => drawn'[w] = cart[d].lines
      /\ \A v \in Worker \ {w} : drawn'[v] = drawn[v]
  BY <1>1 DEF WaiterTypeOK, Sends, Cart
<1>4. /\ pc' = [pc EXCEPT ![w] = label] /\ req' = [req EXCEPT ![w] = r]
      /\ reply' = [reply EXCEPT ![w] = NULL] /\ orders' = orders /\ items' = items
      /\ pc \in [Worker -> Labels \cup {"idle"}] /\ req \in [Worker -> Request \cup {NULL}]
      /\ reply \in [Worker -> HttpCode \cup {NULL}]
  BY <1>1 DEF Receive, db, IInv, TypeOK, RequestsOK
<1>5. ASSUME NEW v \in Worker PROVE WorkerFits(v)'
  <2>1. CASE v = w
    BY <1>3, <1>4, <2>1 DEF WorkerFits, First
  <2>2. CASE v # w
    BY <1>1, <1>3, <1>4, <2>2 DEF WorkerFits
  <2> QED
    BY <2>1, <2>2
<1>6. ASSUME NEW e \in Waiter PROVE ScreenFits(e)'
  <2>1. /\ shown' = shown /\ cart' = cart /\ read' = read
        /\ calls'[e] \subseteq calls[e] \cup {[kind |-> kind, w |-> w, order |-> o]}
    BY <1>1 DEF Sends, WaiterTypeOK
  <2>2. ASSUME NEW c \in calls[e] PROVE CallFits(c)'
    <3>1. CallFits(c) /\ c.w \in Worker /\ c.w # w
      BY <1>1 DEF ScreenFits, Free, WaiterTypeOK
    <3> QED
      BY <1>4, <3>1 DEF CallFits
  <2>3. CallFits([kind |-> kind, w |-> w, order |-> o])'
    BY <1>4 DEF CallFits
  <2>4. /\ shown[e] # NULL => orders'[shown[e]] # NULL
        /\ cart[e] # NULL => ViewFits(shown[e], cart[e])'
        /\ read[e] # NULL => ViewFits(shown[e], read[e])'
    BY <1>1, <1>3, <1>4, <2>1 DEF ScreenFits, ViewFits
  <2>5. shown[e] = NULL => \A c \in calls'[e] : c.kind = "create"
    <3>1. CASE e = d
      BY <1>1, <2>1, <3>1 DEF ScreenFits
    <3>2. CASE e # d
      BY <1>1, <3>2 DEF ScreenFits, Sends, WaiterTypeOK
    <3> QED
      BY <3>1, <3>2
  <2> QED
    BY <2>1, <2>2, <2>3, <2>4, <2>5 DEF ScreenFits
<1>7. \A v \in Worker : LocksFit(v)'
  BY ReceiveLocks
<1>8. \A p \in OrderId : HadFits(p)'
  BY <1>3, <1>4 DEF WaiterInv, HadFits, Had, ItemsOf, Exists
<1> QED
  BY <1>2, <1>3, <1>5, <1>6, <1>7, <1>8 DEF WaiterInv

LEMMA TablePressKeeps ==
  ASSUME WaiterInv, NEW d \in Waiter, handleTablePress(d)
  PROVE  WaiterInv'
<1>1. PICK w \in Worker, o \in OrderId, t \in TableId :
        /\ Receive(w, "orders.Create", "create.table", [new |-> o, table |-> t])
        /\ Sends(d, "create", w, o)
  BY DEF handleTablePress, Fresh, WaiterInv, IInv, TypeOK, SchemaOK
<1>2. [new |-> o, table |-> t] \in CreateRequest
  BY DEF CreateRequest
<1>3. RequestFits("create.table", [new |-> o, table |-> t])
  BY <1>2 DEF RequestFits, CreateLabels, AddLabels, EditLabels, RemoveLabels, StatusLabels,
              KitchenLabels
<1>4. /\ "create.table" \in First /\ "create.table" \in CreateLabels
      /\ "create.table" \notin EditLabels /\ "create.table" \notin StatusLabels
  BY DEF First, CreateLabels, EditLabels, StatusLabels
<1> QED
  BY <1>1, <1>2, <1>3, <1>4, SendKeeps DEF Request

LEMMA AddKeeps ==
  ASSUME WaiterInv, NEW d \in Waiter, handleAddProduct(d)
  PROVE  WaiterInv'
<1>1. shown[d] \in OrderId
  BY DEF handleAddProduct, canEditOrder, WaiterInv, WaiterTypeOK, ScreenFits, ViewFits
<1>2. PICK w \in Worker, i \in ItemId, p \in ProductId :
        /\ Receive(w, "orders.AddItem", "add.order",
                   [new |-> i, order |-> shown[d], product |-> p, quantity |-> 1])
        /\ Sends(d, "add", w, shown[d])
  BY DEF handleAddProduct, Fresh, WaiterInv, IInv, TypeOK, SchemaOK
<1> DEFINE r == [new |-> i, order |-> shown[d], product |-> p, quantity |-> 1]
<1>3. r \in AddRequest
  BY <1>1, OneOfEach DEF AddRequest
<1>4. RequestFits("add.order", r)
  BY <1>3 DEF RequestFits, CreateLabels, AddLabels, EditLabels, RemoveLabels, StatusLabels,
              KitchenLabels
<1>5. "add.order" \in First /\ "add.order" \notin EditLabels /\ "add.order" \notin StatusLabels
  BY DEF First, EditLabels, StatusLabels
<1> QED
  BY <1>1, <1>2, <1>3, <1>4, <1>5, SendKeeps, MarkersAreNoValues DEF Request

LEMMA RemoveKeeps ==
  ASSUME WaiterInv, NEW d \in Waiter, handleRemoveItem(d)
  PROVE  WaiterInv'
<1>1. shown[d] \in OrderId /\ cart[d].lines \subseteq ItemId
  BY DEF handleRemoveItem, canEditOrder, WaiterInv, WaiterTypeOK, ScreenFits, ViewFits, Cart
<1>2. PICK w \in Worker, i \in ItemId :
        /\ Receive(w, "orders.DeleteItem", "remove.order", [order |-> shown[d], item |-> i])
        /\ Sends(d, "remove", w, shown[d])
  BY <1>1 DEF handleRemoveItem
<1> DEFINE r == [order |-> shown[d], item |-> i]
<1>3. r \in RemoveRequest
  BY <1>1 DEF RemoveRequest
<1>4. RequestFits("remove.order", r)
  BY <1>3 DEF RequestFits, CreateLabels, AddLabels, EditLabels, RemoveLabels, StatusLabels,
              KitchenLabels
<1>5. /\ "remove.order" \in First /\ "remove.order" \notin EditLabels
      /\ "remove.order" \notin StatusLabels
  BY DEF First, EditLabels, StatusLabels
<1> QED
  BY <1>1, <1>2, <1>3, <1>4, <1>5, SendKeeps, MarkersAreNoValues DEF Request

\* The items the send was pressed for are in the order, or were.
LEMMA SendToKitchenKeeps ==
  ASSUME WaiterInv, NEW d \in Waiter, handleSendToKitchen(d)
  PROVE  WaiterInv'
<1>1. /\ shown[d] \in OrderId /\ cart[d] # NULL /\ cart[d].lines \subseteq ItemId
      /\ cart[d].lines # {} /\ ViewFits(shown[d], cart[d])
  BY DEF handleSendToKitchen, canSendToKitchen, canEditOrder, WaiterInv, WaiterTypeOK,
         ScreenFits, ViewFits, Cart
<1>2. cart[d].lines \subseteq had[shown[d]]
  BY <1>1, NoListIsMissing DEF ViewFits
<1>3. PICK w \in Worker :
        /\ Receive(w, "orders.UpdateStatus", "status.order",
                   [order |-> shown[d], status |-> "sent"])
        /\ Sends(d, "send", w, shown[d])
  BY DEF handleSendToKitchen
<1> DEFINE r == [order |-> shown[d], status |-> "sent"]
<1>4. r \in StatusRequest
  BY <1>1 DEF StatusRequest, OrderStatus
<1>5. RequestFits("status.order", r)
  BY <1>4 DEF RequestFits, CreateLabels, AddLabels, EditLabels, RemoveLabels, StatusLabels,
              KitchenLabels
<1>6. "status.order" \in First /\ "status.order" \notin EditLabels
  BY DEF First, EditLabels
<1> QED
  BY <1>1, <1>2, <1>3, <1>4, <1>5, <1>6, SendKeeps, MarkersAreNoValues DEF Request

-----------------------------------------------------------------------------
(* A device moves on its own *)

LEMMA DeviceKeeps ==
  ASSUME WaiterInv, UNCHANGED <<vars, observers>>, WaiterTypeOK', NEW d \in Waiter, ScreenFits(d)',
         \A e \in Waiter \ {d} : /\ shown'[e] = shown[e] /\ cart'[e] = cart[e]
                                 /\ read'[e] = read[e] /\ calls'[e] = calls[e]
  PROVE  WaiterInv'
<1>1. LockInv'
  BY StutterLockInv DEF WaiterInv, LockInv
<1>2. ASSUME NEW w \in Worker PROVE WorkerFits(w)'
  BY DEF WaiterInv, WorkerFits, vars, db, request, observers
<1>3. ASSUME NEW e \in Waiter PROVE ScreenFits(e)'
  <2>1. CASE e # d
    <3>1. ScreenFits(e)
      BY DEF WaiterInv
    <3>2. \A c \in calls[e] : CallFits(c)'
      BY <3>1 DEF ScreenFits, CallFits, vars, db, request
    <3> QED
      BY <2>1, <3>1, <3>2 DEF ScreenFits, ViewFits, vars, db, observers
  <2> QED
    BY <2>1
<1>4. \A o \in OrderId : HadFits(o)'
  BY DEF WaiterInv, HadFits, Had, ItemsOf, Exists, vars, db, observers
<1> QED
  BY <1>1, <1>2, <1>3, <1>4 DEF WaiterInv, LockInv

\* Nothing but the device's own view changes, and its calls become fewer.
LEMMA DeviceFits ==
  ASSUME WaiterInv, UNCHANGED <<vars, observers>>, WaiterTypeOK', NEW d \in Waiter,
         \A e \in Waiter \ {d} : /\ shown'[e] = shown[e] /\ cart'[e] = cart[e]
                                 /\ read'[e] = read[e] /\ calls'[e] = calls[e],
         shown'[d] # NULL => orders[shown'[d]] # NULL,
         cart'[d] # NULL => ViewFits(shown'[d], cart'[d]),
         read'[d] # NULL => ViewFits(shown'[d], read'[d]),
         calls'[d] \subseteq calls[d],
         shown'[d] = NULL => \A c \in calls'[d] : c.kind = "create"
  PROVE  WaiterInv'
<1>1. \A c \in calls[d] : CallFits(c)'
  BY DEF WaiterInv, ScreenFits, CallFits, vars, db, request
<1>2. ScreenFits(d)'
  BY <1>1 DEF ScreenFits, ViewFits, vars, db, observers
<1> QED
  BY <1>2, DeviceKeeps

LEMMA NavigationKeeps ==
  ASSUME WaiterInv, NEW d \in Waiter, CreateAnswered(d)
  PROVE  WaiterInv'
<1>1. PICK c \in calls[d] :
        /\ c.kind = "create" /\ pc[c.w] = "idle"
        /\ calls' = [calls EXCEPT ![d] = @ \ {c}]
        /\ IF reply[c.w] = 200 THEN Navigate(d, c.order)
                               ELSE UNCHANGED <<shown, cart, read, missed>>
  BY DEF CreateAnswered
<1>2. /\ UNCHANGED <<vars, observers, cartOpen>> /\ WaiterTypeOK /\ ScreenFits(d) /\ CallFits(c)
      /\ c.order \in OrderId
  BY <1>1 DEF CreateAnswered, WaiterInv, ScreenFits, WaiterTypeOK
<1>3. CASE reply[c.w] = 200
  <2>1. orders[c.order] # NULL
    BY <1>1, <1>2, <1>3 DEF CallFits, CreateLabels
  <2>2. WaiterTypeOK'
    BY <1>1, <1>2, <1>3 DEF WaiterTypeOK, observers, Navigate, NewRead
  <2>3. /\ shown'[d] = c.order /\ cart'[d] = NULL /\ read'[d] = NewRead
        /\ calls'[d] \subseteq calls[d]
        /\ \A e \in Waiter \ {d} : /\ shown'[e] = shown[e] /\ cart'[e] = cart[e]
                                   /\ read'[e] = read[e] /\ calls'[e] = calls[e]
    BY <1>1, <1>2, <1>3 DEF WaiterTypeOK, Navigate
  <2>4. ViewFits(c.order, NewRead)
    BY <1>2, MarkersAreNoValues DEF ViewFits, NewRead
  <2> QED
    BY <1>2, <2>1, <2>2, <2>3, <2>4, DeviceFits, MarkersAreNoValues
<1>4. CASE reply[c.w] # 200
  <2>1. WaiterTypeOK'
    BY <1>1, <1>2, <1>4 DEF WaiterTypeOK, observers
  <2>2. /\ calls'[d] \subseteq calls[d]
        /\ \A e \in Waiter \ {d} : calls'[e] = calls[e]
    BY <1>1, <1>2 DEF WaiterTypeOK
  <2> QED
    BY <1>1, <1>2, <1>4, <2>1, <2>2, DeviceFits DEF ScreenFits
<1> QED
  BY <1>3, <1>4

LEMMA ReadOrderKeeps ==
  ASSUME WaiterInv, NEW d \in Waiter, ReadOrder(d)
  PROVE  WaiterInv'
<1>1. /\ WaiterTypeOK /\ ScreenFits(d) /\ read[d] # NULL /\ UNCHANGED <<vars, observers>>
      /\ read' = [read EXCEPT ![d].status = orders[shown[d]].status]
      /\ UNCHANGED <<shown, cart, cartOpen, calls, missed>>
  BY DEF ReadOrder, WaiterInv
<1>2. shown[d] \in OrderId /\ orders[shown[d]] \in OrderRow
  BY <1>1 DEF WaiterTypeOK, ScreenFits, ViewFits, WaiterInv, IInv, TypeOK, SchemaOK
<1>3. WaiterTypeOK'
  BY <1>1, <1>2 DEF WaiterTypeOK, observers, OrderRow
<1>4. /\ read'[d] = [read[d] EXCEPT !.status = orders[shown[d]].status]
      /\ \A e \in Waiter \ {d} : read'[e] = read[e]
      /\ read[d] \in [status : OrderStatus \cup {NULL}, lines : (SUBSET ItemId) \cup {NULL}]
  BY <1>1 DEF WaiterTypeOK
<1>5. ViewFits(shown'[d], read'[d])
  BY <1>1, <1>2, <1>4, MarkersAreNoValues DEF ScreenFits, ViewFits, OrderRow
<1> QED
  BY <1>1, <1>3, <1>4, <1>5, DeviceFits DEF ScreenFits

LEMMA ReadLinesKeeps ==
  ASSUME WaiterInv, NEW d \in Waiter, ReadLines(d)
  PROVE  WaiterInv'
<1>1. /\ WaiterTypeOK /\ ScreenFits(d) /\ UNCHANGED <<vars, observers>>
      /\ read[d] # NULL /\ read[d].status # NULL
      /\ read' = [read EXCEPT ![d].lines = ItemsOf(shown[d])]
      /\ UNCHANGED <<shown, cart, cartOpen, calls, missed>>
  BY DEF ReadLines, WaiterInv
<1>2. ItemsOf(shown[d]) \in SUBSET ItemId /\ ItemsOf(shown[d]) \subseteq had[shown[d]]
  BY <1>1 DEF ItemsOf, WaiterInv, WaiterTypeOK, ScreenFits, ViewFits, HadFits
<1>3. WaiterTypeOK'
  BY <1>1, <1>2 DEF WaiterTypeOK, observers
<1>4. /\ read'[d] = [read[d] EXCEPT !.lines = ItemsOf(shown[d])]
      /\ \A e \in Waiter \ {d} : read'[e] = read[e]
      /\ read[d] \in [status : OrderStatus \cup {NULL}, lines : (SUBSET ItemId) \cup {NULL}]
  BY <1>1 DEF WaiterTypeOK
<1>5. ViewFits(shown'[d], read'[d])
  BY <1>1, <1>2, <1>4 DEF ScreenFits, ViewFits
<1> QED
  BY <1>1, <1>3, <1>4, <1>5, DeviceFits DEF ScreenFits

LEMMA DrawOrderKeeps ==
  ASSUME WaiterInv, NEW d \in Waiter, DrawOrder(d)
  PROVE  WaiterInv'
<1>1. /\ WaiterTypeOK /\ ScreenFits(d) /\ UNCHANGED <<vars, observers>>
      /\ read[d] # NULL /\ read[d].lines # NULL
      /\ cart' = [cart EXCEPT ![d] = read[d]]
      /\ read' = [read EXCEPT ![d] = NULL]
      /\ UNCHANGED <<shown, cartOpen, calls, missed>>
  BY DEF DrawOrder, WaiterInv
<1>2. ViewFits(shown[d], read[d])
  BY <1>1 DEF ScreenFits
<1>3. WaiterTypeOK'
  <2>1. read[d] \in Cart
    BY <1>1, <1>2 DEF ViewFits, WaiterTypeOK, Cart
  <2> QED
    BY <1>1, <2>1 DEF WaiterTypeOK, observers
<1>4. /\ cart'[d] = read[d] /\ read'[d] = NULL
      /\ \A e \in Waiter \ {d} : cart'[e] = cart[e] /\ read'[e] = read[e]
  BY <1>1 DEF WaiterTypeOK
<1> QED
  BY <1>1, <1>2, <1>3, <1>4, DeviceFits DEF ScreenFits

\* The modal, a failed read, an answer, a request given up, the way back.
LEMMA OtherDeviceActionKeeps ==
  ASSUME WaiterInv, NEW d \in Waiter,
         \/ OpenCart(d) \/ CloseCart(d) \/ ReadFails(d)
         \/ Answered(d) \/ GiveUp(d) \/ Back(d)
  PROVE  WaiterInv'
<1>1. WaiterTypeOK /\ ScreenFits(d)
  BY DEF WaiterInv
<1>2. CASE OpenCart(d) \/ CloseCart(d)
  <2>1. /\ UNCHANGED <<vars, observers, shown, cart, read, calls, missed>>
        /\ cartOpen' = [cartOpen EXCEPT ![d] = TRUE] \/ cartOpen' = [cartOpen EXCEPT ![d] = FALSE]
    BY <1>2 DEF OpenCart, CloseCart
  <2>2. WaiterTypeOK'
    BY <1>1, <2>1 DEF WaiterTypeOK, observers
  <2> QED
    BY <1>1, <2>1, <2>2, DeviceFits DEF ScreenFits
<1>3. CASE ReadFails(d)
  <2>1. WaiterTypeOK'
    BY <1>1, <1>3 DEF WaiterTypeOK, observers, ReadFails
  <2>2. read'[d] = NULL /\ \A e \in Waiter \ {d} : read'[e] = read[e]
    BY <1>1, <1>3 DEF WaiterTypeOK, ReadFails
  <2> QED
    BY <1>1, <1>3, <2>1, <2>2, DeviceFits DEF ScreenFits, ReadFails
<1>4. CASE Answered(d)
  <2>1. PICK c \in calls[d] :
          /\ c.kind # "create" /\ pc[c.w] = "idle"
          /\ calls' = [calls EXCEPT ![d] = @ \ {c}]
          /\ read' = IF reply[c.w] = 200 THEN [read EXCEPT ![d] = Invalidated(d)] ELSE read
          /\ cartOpen' = IF reply[c.w] = 200 /\ c.kind = "send"
                         THEN [cartOpen EXCEPT ![d] = FALSE] ELSE cartOpen
          /\ missed' = IF reply[c.w] = 500 THEN missed \cup {d} ELSE missed
    BY <1>4 DEF Answered
  <2>2. UNCHANGED <<vars, observers, shown, cart>>
    BY <1>4 DEF Answered
  <2>3. WaiterTypeOK'
    BY <1>1, <2>1, <2>2 DEF WaiterTypeOK, observers, Invalidated, NewRead
  <2>4. ViewFits(shown[d], NewRead)
    BY <1>1, <2>1 DEF ScreenFits, ViewFits, NewRead
  <2>5. /\ read'[d] \in {read[d], NewRead} /\ calls'[d] \subseteq calls[d]
        /\ \A e \in Waiter \ {d} : read'[e] = read[e] /\ calls'[e] = calls[e]
    BY <1>1, <2>1 DEF WaiterTypeOK, Invalidated
  <2> QED
    BY <1>1, <2>2, <2>3, <2>4, <2>5, DeviceFits DEF ScreenFits
<1>5. CASE GiveUp(d)
  <2>1. WaiterTypeOK'
    BY <1>1, <1>5 DEF WaiterTypeOK, observers, GiveUp
  <2>2. calls'[d] \subseteq calls[d] /\ \A e \in Waiter \ {d} : calls'[e] = calls[e]
    BY <1>1, <1>5 DEF WaiterTypeOK, GiveUp
  <2> QED
    BY <1>1, <1>5, <2>1, <2>2, DeviceFits DEF ScreenFits, GiveUp
<1>6. CASE Back(d)
  <2>1. WaiterTypeOK'
    BY <1>1, <1>6 DEF WaiterTypeOK, observers, Back
  <2>2. /\ shown'[d] = NULL /\ cart'[d] = NULL /\ read'[d] = NULL
        /\ calls'[d] \subseteq calls[d] /\ \A c \in calls'[d] : c.kind = "create"
        /\ \A e \in Waiter \ {d} : /\ shown'[e] = shown[e] /\ cart'[e] = cart[e]
                                   /\ read'[e] = read[e] /\ calls'[e] = calls[e]
    BY <1>1, <1>6 DEF WaiterTypeOK, Back
  <2> QED
    BY <1>6, <2>1, <2>2, DeviceFits DEF Back
<1> QED
  BY <1>2, <1>3, <1>4, <1>5, <1>6

-----------------------------------------------------------------------------
(* The invariant and the theorems *)

LEMMA InitWaiterInv ==
  ASSUME WaiterInit
  PROVE  WaiterInv
<1>1. LockInv
  BY InitLockInv DEF WaiterInit
<1>2. WaiterTypeOK /\ \A d \in Waiter : ScreenFits(d)
  BY DEF WaiterInit, WaiterTypeOK, ScreenFits
<1>3. \A w \in Worker : WorkerFits(w)
  BY DEF WaiterInit, Init, WorkerFits, EditLabels, StatusLabels
<1>4. \A o \in OrderId : HadFits(o)
  BY DEF WaiterInit, Init, HadFits, ItemsOf, Exists
<1> QED
  BY <1>1, <1>2, <1>3, <1>4 DEF WaiterInv, LockInv

LEMMA WaiterNextKeeps ==
  ASSUME WaiterInv, WaiterNext
  PROVE  WaiterInv'
BY ServerStepKeeps, OtherRequestKeeps, TablePressKeeps, AddKeeps, RemoveKeeps, SendToKitchenKeeps, NavigationKeeps,
   ReadOrderKeeps, ReadLinesKeeps, DrawOrderKeeps, OtherDeviceActionKeeps
DEF WaiterNext, WaiterAction, Reading

LEMMA WaiterStutterKeeps ==
  ASSUME WaiterInv, UNCHANGED waiterVars
  PROVE  WaiterInv'
<1>1. /\ UNCHANGED vars /\ shown' = shown /\ cart' = cart /\ cartOpen' = cartOpen
      /\ read' = read /\ calls' = calls /\ missed' = missed
      /\ had' = had /\ dropped' = dropped /\ drawn' = drawn
  BY DEF waiterVars, screens, observers
<1>2. LockInv'
  BY <1>1, StutterLockInv DEF WaiterInv, LockInv
<1>3. WaiterTypeOK'
  BY <1>1 DEF WaiterInv, WaiterTypeOK
<1>4. /\ \A w \in Worker : WorkerFits(w)'
      /\ \A o \in OrderId : HadFits(o)'
  BY <1>1 DEF WaiterInv, WorkerFits, HadFits, Had, ItemsOf, Exists, vars, db, request
<1>5. ASSUME NEW d \in Waiter PROVE ScreenFits(d)'
  <2>1. ScreenFits(d)
    BY DEF WaiterInv
  <2>2. \A c \in calls[d] : CallFits(c)'
    BY <1>1, <2>1 DEF ScreenFits, CallFits, vars, db, request
  <2> QED
    BY <1>1, <2>1, <2>2 DEF ScreenFits, ViewFits, vars, db
<1> QED
  BY <1>2, <1>3, <1>4, <1>5 DEF WaiterInv, LockInv

(* The inductive invariant: nothing a screen holds is made up.             *)
THEOREM WaiterInductive == WaiterSpec => []WaiterInv
<1>1. WaiterInv /\ [WaiterNext]_waiterVars => WaiterInv'
  BY WaiterNextKeeps, WaiterStutterKeeps
<1> QED
  BY <1>1, InitWaiterInv, PTL DEF WaiterSpec

(* The screens hold well-formed carts, reads and requests.                 *)
THEOREM WaiterTypeCorrect == WaiterSpec => []WaiterTypeOK
<1>1. WaiterInv => WaiterTypeOK
  BY DEF WaiterInv
<1> QED
  BY <1>1, WaiterInductive, PTL

(* A screen that draws its order as locked is right, however old the cart  *)
(* is and whatever became of the requests: no status leads back to open.   *)
THEOREM LockedCartsAreLocked == WaiterSpec => []LockedCartIsLocked
<1>1. WaiterInv => LockedCartIsLocked
  <2> SUFFICES ASSUME WaiterInv, NEW d \in Waiter, cart[d] # NULL, cart[d].status # "open"
               PROVE  orders[shown[d]].status # "open"
    BY DEF LockedCartIsLocked
  <2>1. ViewFits(shown[d], cart[d]) /\ cart[d] \in Cart
    BY DEF WaiterInv, ScreenFits, WaiterTypeOK
  <2>2. cart[d].status # NULL
    BY <2>1, MarkersAreNoValues DEF Cart
  <2> QED
    BY <2>1, <2>2 DEF ViewFits
<1> QED
  BY <1>1, WaiterInductive, PTL

-----------------------------------------------------------------------------
(* What a step does to an order *)

\* What the device does leaves the rows alone.
LEMMA DeviceLeavesRows ==
  ASSUME NEW d \in Waiter, WaiterAction(d)
  PROVE  UNCHANGED db
BY DEF WaiterAction, handleTablePress, CreateAnswered, Reading, ReadOrder, ReadLines, DrawOrder,
       ReadFails, OpenCart, CloseCart, handleAddProduct, handleRemoveItem, handleSendToKitchen,
       Answered, GiveUp, Back, Receive, vars

LEMMA ServerStepStatement ==
  ASSUME WaiterInv, NEW w \in Worker, ServerStep(w)
  PROVE  Statement(w) /\ UNCHANGED screens
BY StepStatement DEF ServerStep

\* The requests of the other screens leave the rows alone, too.
LEMMA OtherRequestLeavesRows ==
  ASSUME WaiterInv, NEW w \in Worker, OtherRequest(w)
  PROVE  UNCHANGED db
BY OtherReceived

(* An order reaches the kitchen without items only when the cart the send  *)
(* was pressed on had lines, all of them items of this order, which never  *)
(* move to another: every one of them has been deleted since, by a removal *)
(* or with its product.                                                    *)
THEOREM EmptyOrdersHadItems == WaiterSpec => SentEmptyOnlyAfterRemoval
<1>1. WaiterInv /\ [WaiterNext]_waiterVars =>
        [\A o \in OrderId :
           /\ orders[o] # NULL /\ orders[o].status = "open"
           /\ orders'[o].status = "sent" /\ ItemsOf(o) = {}
           => \E w \in Worker :
                /\ pc[w] = "status.write" /\ req[w].order = o
                /\ drawn[w] # {} /\ drawn[w] \subseteq had[o]
                /\ \A i \in drawn[w] : items[i] = DELETED]_waiterVars
  <2> SUFFICES ASSUME WaiterInv, WaiterNext, NEW o \in OrderId,
                      orders[o] # NULL, orders[o].status = "open",
                      orders'[o].status = "sent", ItemsOf(o) = {}
               PROVE  \E w \in Worker :
                        /\ pc[w] = "status.write" /\ req[w].order = o
                        /\ drawn[w] # {} /\ drawn[w] \subseteq had[o]
                        /\ \A i \in drawn[w] : items[i] = DELETED
    OBVIOUS
  <2>1. PICK w \in Worker : ServerStep(w)
    BY DeviceLeavesRows, OtherRequestLeavesRows DEF WaiterNext, db
  <2>2. pc[w] = "status.write" /\ req[w].order = o
    BY <2>1, ServerStepStatement DEF Statement, OrdersEdited
  <2>3. drawn[w] # {} /\ drawn[w] \subseteq had[o]
    BY <2>2 DEF WaiterInv, WorkerFits, StatusLabels
  <2>4. ASSUME NEW i \in drawn[w] PROVE items[i] = DELETED
    <3>1. i \in ItemId /\ Had(o, i)
      BY <2>3 DEF WaiterInv, WaiterTypeOK, HadFits
    <3> QED
      BY <3>1 DEF Had, Exists, ItemsOf
  <2> QED
    BY <2>2, <2>3, <2>4
<1> QED
  BY <1>1, WaiterInductive, PTL DEF WaiterSpec, SentEmptyOnlyAfterRemoval

-----------------------------------------------------------------------------
(* Lost orders *)

\* What a step that is no business of an order may do to it.
OnlyLosesItems(o) ==
  /\ orders'[o] = orders[o]
  /\ ItemsOf(o)' \subseteq ItemsOf(o)
  /\ \A i \in ItemsOf(o) \ ItemsOf(o)' : ~Exists(products'[items[i].product])

StaysLost(o) == Lost(o)' /\ OnlyLosesItems(o)

LEMMA SameItems ==
  ASSUME UNCHANGED db, NEW o
  PROVE  OnlyLosesItems(o) /\ ItemsOf(o)' = ItemsOf(o)
BY DEF OnlyLosesItems, ItemsOf, Exists, db

\* Whoever is on none of the order's routes takes items from it only with
\* their product, and gives it none.
LEMMA StrangersTakeItemsOnly ==
  ASSUME WaiterInv, NEW w \in Worker, Statement(w), NEW o \in OrderId, orders'[o] = orders[o],
         pc[w] \in AddLabels \cup RemoveLabels => req[w].order # o
  PROVE  OnlyLosesItems(o)
<1>1. ASSUME NEW i \in ItemId
      PROVE  /\ Exists(items'[i]) /\ items'[i].order = o => Exists(items[i]) /\ items[i].order = o
             /\ Exists(items[i]) /\ items[i].order = o =>
                  \/ Exists(items'[i]) /\ items'[i].order = o
                  \/ ~Exists(products'[items[i].product])
  <2>1. CASE items'[i] = items[i]
    BY <2>1 DEF Exists
  <2>2. CASE Advances(i)
    <3>1. items[i] \in ItemRow
      BY <2>2 DEF Advances, Exists, WaiterInv, IInv, TypeOK, SchemaOK
    <3> QED
      BY <2>2, <3>1 DEF Advances, ItemRow
  <2>3. CASE GoesWithProduct(i)
    BY <2>3 DEF GoesWithProduct, Exists
  <2>4. CASE Edits(w, i)
    <3>1. req[w].order # o
      BY <2>4 DEF Edits, RelyingLabels, WaiterInv, WorkerFits, AddLabels, EditLabels, RemoveLabels
    <3> QED
      BY <2>4, <3>1 DEF Edits
  <2> QED
    BY <2>1, <2>2, <2>3, <2>4 DEF Statement, ItemsMove
<1> QED
  BY <1>1 DEF OnlyLosesItems, ItemsOf, Exists

LEMMA LostByServer ==
  ASSUME WaiterInv, NEW w \in Worker, ServerStep(w), NEW o \in OrderId, Lost(o)
  PROVE  StaysLost(o)
<1>1. Statement(w) /\ UNCHANGED screens /\ WorkerFits(w) /\ pc[w] # "idle"
  BY ServerStepStatement DEF WaiterInv, Statement
<1>2. /\ pc[w] \in CreateLabels => req[w].new # o
      /\ pc[w] \in AddLabels \cup RemoveLabels \cup StatusLabels => req[w].order # o
  BY DEF Lost, Handled
<1>3. orders'[o] = orders[o]
  BY <1>1, <1>2 DEF Statement, OrdersEdited, CreateLabels, StatusLabels
<1>4. OnlyLosesItems(o)
  BY <1>1, <1>2, <1>3, StrangersTakeItemsOnly
<1>5. ASSUME NEW v \in Worker
      PROVE  /\ ~(pc'[v] \in CreateLabels /\ req'[v].new = o)
             /\ ~(pc'[v] \in AddLabels \cup RemoveLabels \cup StatusLabels /\ req'[v].order = o)
  <2>1. CASE v # w
    BY <1>1, <2>1 DEF Statement, RouteKept, Lost, Handled
  <2>2. CASE v = w /\ pc'[w] = "idle"
    BY <2>2 DEF CreateLabels, AddLabels, RemoveLabels, StatusLabels
  <2>3. CASE v = w /\ pc'[w] # "idle"
    BY <1>1, <1>2, <2>3 DEF Statement, RouteKept, SameRoute
  <2> QED
    BY <2>1, <2>2, <2>3
<1> QED
  BY <1>1, <1>3, <1>4, <1>5 DEF StaysLost, Lost, Handled, screens

LEMMA LostByOtherRequest ==
  ASSUME WaiterInv, NEW w \in Worker, OtherRequest(w), NEW o \in OrderId, Lost(o)
  PROVE  StaysLost(o)
<1>1. /\ UNCHANGED db /\ UNCHANGED <<orders, shown, calls>>
      /\ \A v \in Worker \ {w} : pc'[v] = pc[v] /\ req'[v] = req[v]
      /\ pc'[w] \in OtherLabels
  BY OtherReceived DEF db, screens
<1>2. pc'[w] \notin CreateLabels \cup AddLabels \cup RemoveLabels \cup StatusLabels
  BY <1>1 DEF OtherLabels, KitchenLabels, TableLabels, ProductLabels, CreateLabels, AddLabels,
              RemoveLabels, StatusLabels
<1>3. ~Handled(o)'
  BY <1>1, <1>2 DEF Lost, Handled
<1> QED
  BY <1>1, <1>3, SameItems DEF StaysLost, Lost

LEMMA LostBySend ==
  ASSUME WaiterInv, NEW d \in Waiter, NEW w \in Worker, NEW endpoint, NEW label, NEW r,
         Receive(w, endpoint, label, r), NEW kind, NEW p, Sends(d, kind, w, p),
         NEW o \in OrderId, Lost(o), p # o,
         label \in CreateLabels => r.new # o,
         label \in AddLabels \cup RemoveLabels \cup StatusLabels => r.order # o
  PROVE  StaysLost(o)
<1>1. /\ UNCHANGED db /\ shown' = shown
      /\ calls' = [calls EXCEPT ![d] = @ \cup {[kind |-> kind, w |-> w, order |-> p]}]
      /\ pc' = [pc EXCEPT ![w] = label] /\ req' = [req EXCEPT ![w] = r]
  BY DEF Receive, Sends
<1>2. /\ pc \in [Worker -> Labels \cup {"idle"}] /\ req \in [Worker -> Request \cup {NULL}]
      /\ DOMAIN calls = Waiter
  BY DEF WaiterInv, IInv, TypeOK, RequestsOK, WaiterTypeOK
<1>3. ~Handled(o)'
  BY <1>1, <1>2 DEF Lost, Handled
<1>4. \A e \in Waiter : shown'[e] # o /\ \A c \in calls'[e] : c.order # o
  BY <1>1, <1>2 DEF Lost
<1> QED
  BY <1>1, <1>3, <1>4, SameItems DEF StaysLost, Lost, db

LEMMA LostByDevice ==
  ASSUME UNCHANGED vars, NEW o \in OrderId, Lost(o),
         \A e \in Waiter : shown'[e] # o /\ \A c \in calls'[e] : c.order # o
  PROVE  StaysLost(o)
BY SameItems DEF StaysLost, Lost, Handled, vars, db, request

LEMMA LostByAction ==
  ASSUME WaiterInv, NEW d \in Waiter, WaiterAction(d), NEW o \in OrderId, Lost(o)
  PROVE  StaysLost(o)
<1>1. /\ orders[o] # NULL /\ o # NULL
      /\ \A e \in Waiter : shown[e] # o /\ \A c \in calls[e] : c.order # o
  BY MarkersAreNoValues DEF Lost
<1>2. DOMAIN shown = Waiter /\ DOMAIN calls = Waiter
  BY DEF WaiterInv, WaiterTypeOK
<1>3. CASE handleTablePress(d)
  <2>1. PICK w \in Worker, p \in Fresh(orders), t \in TableId :
          /\ Receive(w, "orders.Create", "create.table", [new |-> p, table |-> t])
          /\ Sends(d, "create", w, p)
    BY <1>3 DEF handleTablePress
  <2>2. p # o
    BY <1>1, <2>1 DEF Fresh
  <2>3. "create.table" \notin AddLabels \cup RemoveLabels \cup StatusLabels
    BY DEF AddLabels, RemoveLabels, StatusLabels
  <2> QED
    BY <2>1, <2>2, <2>3, LostBySend
<1>4. CASE handleAddProduct(d)
  <2>1. "add.order" \notin CreateLabels
    BY DEF CreateLabels
  <2> QED
    BY <1>1, <1>4, <2>1, LostBySend DEF handleAddProduct
<1>5. CASE handleRemoveItem(d)
  <2>1. "remove.order" \notin CreateLabels
    BY DEF CreateLabels
  <2> QED
    BY <1>1, <1>5, <2>1, LostBySend DEF handleRemoveItem
<1>6. CASE handleSendToKitchen(d)
  <2>1. "status.order" \notin CreateLabels
    BY DEF CreateLabels
  <2> QED
    BY <1>1, <1>6, <2>1, LostBySend DEF handleSendToKitchen
<1>7. CASE CreateAnswered(d)
  BY <1>1, <1>2, <1>7, LostByDevice DEF CreateAnswered, Navigate
<1>8. CASE Reading(d) \/ ReadFails(d) \/ OpenCart(d) \/ CloseCart(d)
  BY <1>1, <1>8, LostByDevice DEF Reading, ReadOrder, ReadLines, DrawOrder, ReadFails, OpenCart,
                                  CloseCart
<1>9. CASE Answered(d) \/ GiveUp(d)
  BY <1>1, <1>2, <1>9, LostByDevice DEF Answered, GiveUp
<1>10. CASE Back(d)
  BY <1>1, <1>2, <1>10, LostByDevice DEF Back
<1> QED
  BY <1>3, <1>4, <1>5, <1>6, <1>7, <1>8, <1>9, <1>10 DEF WaiterAction

(* An order nobody shows, waits for or handles stays as it is for good,    *)
(* but for items that go with their product: however many devices and      *)
(* tables there are, no press leads back to it.                            *)
THEOREM LostOrdersStayLost == WaiterSpec => LostOrderStaysLost
<1>1. ASSUME WaiterInv, WaiterNext, NEW o \in OrderId, Lost(o)
      PROVE  /\ Lost(o)' /\ orders'[o] = orders[o]
             /\ ItemsOf(o)' \subseteq ItemsOf(o)
             /\ \A i \in ItemsOf(o) \ ItemsOf(o)' : ~Exists(products'[items[i].product])
  BY <1>1, LostByServer, LostByOtherRequest, LostByAction DEF WaiterNext, StaysLost, OnlyLosesItems
<1>2. WaiterInv /\ [WaiterNext]_waiterVars =>
        [\A o \in OrderId :
           Lost(o) =>
             /\ Lost(o)' /\ orders'[o] = orders[o]
             /\ ItemsOf(o)' \subseteq ItemsOf(o)
             /\ \A i \in ItemsOf(o) \ ItemsOf(o)' : ~Exists(products'[items[i].product])
        ]_waiterVars
  BY <1>1
<1> QED
  BY <1>2, WaiterInductive, PTL DEF WaiterSpec, LostOrderStaysLost
-----------------------------------------------------------------------------
(* Carts at rest.  A cart is the order it shows, but for the items that    *)
(* went with their product, unless a request of its screen has written:    *)
(* then an answer is awaited that will have the order read again, or was   *)
(* lost, which missed remembers.  Nobody else writes the order or adds to  *)
(* it, since an order is shown by the one device that created it.          *)

OnOrderLabels == AddLabels \cup RemoveLabels \cup StatusLabels

Serves(w, o) == pc[w] \in OnOrderLabels /\ req[w].order = o

\* The answer of a creation that will, or may yet, open its order.
Opens(c) == c.kind = "create" /\ (pc[c.w] # "idle" \/ reply[c.w] = 200)

\* The requests a screen has sent for the order it shows.
OwnCalls(d) == {c \in calls[d] : c.kind # "create" /\ c.order = shown[d]}

\* No other request waits for the same worker.
CallAlone(d, c) ==
  \A e \in Waiter : \A b \in calls[e] : b.w = c.w => e = d /\ b = c

\* Nobody shows the order of the call, or asks anything of it.
Unopened(c) ==
  /\ \A e \in Waiter :
       /\ shown[e] # c.order
       /\ \A b \in calls[e] : b.order = c.order /\ (b.kind = "create" => Opens(b)) => b = c
  /\ \A w \in Worker : ~Serves(w, c.order)

CallRests(d, c) ==
  /\ CallAlone(d, c)
  /\ Opens(c) => Unopened(c)
  /\ c.kind # "create" => orders[c.order] # NULL
  /\ pc[c.w] = "idle" => reply[c.w] # NULL

\* As far as it has been read, the order is as it is, but for the items that
\* have gone with their product since.
Current(o, view) ==
  /\ view.status # NULL => view.status = orders[o].status
  /\ view.lines # NULL =>
       ItemsOf(o) \subseteq view.lines /\ view.lines \ ItemsOf(o) \subseteq dropped

ViewsCurrent(d) ==
  /\ read[d] # NULL => Current(shown[d], read[d])
  /\ read[d] = NULL /\ cart[d] # NULL => Current(shown[d], cart[d])

\* Whoever handles a request on the order has an answer to give to its screen,
\* and while none of these requests has written the views are current.
OrderRests(d) ==
  shown[d] # NULL =>
    /\ \A e \in Waiter : shown[e] = shown[d] => e = d
    /\ OwnCalls(d) # {} => cart[d] # NULL
    /\ d \notin missed =>
         /\ \A w \in Worker : Serves(w, shown[d]) => \E c \in OwnCalls(d) : c.w = w
         /\ (\A c \in OwnCalls(d) : ~wrote[c.w]) => ViewsCurrent(d)

CartInv ==
  /\ WaiterInv
  /\ \A w \in Worker : pc[w] \in OnOrderLabels => orders[req[w].order] # NULL
  /\ \A d \in Waiter : OrderRests(d) /\ \A c \in calls[d] : CallRests(d, c)

-----------------------------------------------------------------------------
(* What a statement writes, it marks *)

Marks(w) ==
  /\ \A v \in Worker \ {w} : wrote'[v] = wrote[v]
  /\ wrote[w] => wrote'[w]
  /\ UNCHANGED <<orders, items>> \/ wrote'[w]
  /\ pc'[w] = "idle" => reply'[w] # NULL

LEMMA ReturnCode ==
  ASSUME IInv, NEW w \in Worker, NEW err, Return(w, err)
  PROVE  reply'[w] # NULL
<1>1. HttpStatus(err) \in HttpCode
  BY DEF HttpStatus, HttpCode
<1> QED
  BY <1>1, NoRowIsNoStatus DEF Return, IInv, TypeOK, RequestsOK

LEMMA AnswerMarks ==
  ASSUME IInv, NEW w \in Worker, NEW err, Answer(w, err), UNCHANGED db
  PROVE  Marks(w)
BY ReturnCode DEF Answer, Marks, db

LEMMA CheckedMarks ==
  ASSUME IInv, NEW w \in Worker, NEW err, NEW label, NEW row, Checked(w, err, label, row),
         label # "idle"
  PROVE  Marks(w)
<1>1. CASE err # "nil"
  BY <1>1, AnswerMarks DEF Checked
<1>2. CASE err = "nil"
  BY <1>2 DEF Checked, Continue, Marks, db, IInv, TypeOK, RequestsOK
<1> QED
  BY <1>1, <1>2

LEMMA WroteMarks ==
  ASSUME IInv, NEW w \in Worker, NEW label, Wrote(w, label), label # "idle"
  PROVE  Marks(w)
BY DEF Wrote, Marks, IInv, TypeOK, RequestsOK

LEMMA AnswerWriteMarks ==
  ASSUME IInv, NEW w \in Worker, AnswerWrite(w)
  PROVE  Marks(w)
BY ReturnCode DEF AnswerWrite, Marks, IInv, TypeOK, RequestsOK

LEMMA ServerMarks ==
  ASSUME IInv, NEW w \in Worker, Step(w) \/ StatementFails(w)
  PROVE  Marks(w)
<1>1. CASE CreateReadTable(w)
  BY <1>1, CheckedMarks DEF CreateReadTable
<1>2. CASE CreateInsertOrder(w) \/ CreateOccupyTable(w) \/ UpdateStatusTable(w)
  BY <1>2, WroteMarks DEF CreateInsertOrder, CreateOccupyTable, UpdateStatusTable
<1>3. CASE UpdateStatusWrite(w)
  BY <1>3, WroteMarks DEF UpdateStatusWrite
<1>4. CASE CreateReadBack(w)
  BY <1>4, ReturnCode DEF CreateReadBack, Marks, db
<1>5. CASE AddItemReadOrder(w) \/ AddItemReadProduct(w)
  BY <1>5, CheckedMarks DEF AddItemReadOrder, AddItemReadProduct
<1>6. CASE UpdateItemReadOrder(w) \/ UpdateItemReadItem(w)
  BY <1>6, CheckedMarks DEF UpdateItemReadOrder, UpdateItemReadItem
<1>7. CASE DeleteItemReadOrder(w) \/ UpdateStatusCountNonReady(w)
  BY <1>7, CheckedMarks DEF DeleteItemReadOrder, UpdateStatusCountNonReady
<1>8. CASE UpdateStatusReadOrder(w)
  BY <1>8, CheckedMarks DEF UpdateStatusReadOrder
<1>9. CASE AddItemInsert(w)
  BY <1>9, AnswerMarks, AnswerWriteMarks DEF AddItemInsert
<1>10. CASE UpdateItemWrite(w) \/ DeleteItemWrite(w)
  BY <1>10, AnswerMarks, AnswerWriteMarks DEF UpdateItemWrite, DeleteItemWrite
<1>11. CASE UpdateStatusHasActive(w)
  BY <1>11 DEF UpdateStatusHasActive, Continue, Marks, db, IInv, TypeOK, RequestsOK
<1>12. CASE UpdateStatusReadBack(w) \/ StatementFails(w)
  BY <1>12, AnswerMarks DEF UpdateStatusReadBack, StatementFails
<1>13. CASE KitchenStep(w)
  <2>1. CASE ItemStatusReadItem(w)
    BY <2>1, CheckedMarks DEF ItemStatusReadItem
  <2>2. CASE ItemStatusWrite(w)
    BY <2>2, AnswerMarks, WroteMarks DEF ItemStatusWrite
  <2>3. CASE ItemStatusReadBack(w)
    BY <2>3, AnswerMarks DEF ItemStatusReadBack
  <2> QED
    BY <1>13, <2>1, <2>2, <2>3 DEF KitchenStep
<1>14. CASE TableStep(w)
  BY <1>14, AnswerMarks, AnswerWriteMarks DEF TableStep, TableInsert, TableStatusWrite
<1>15. CASE ProductStep(w)
  <2>1. CASE ProductInsert(w) \/ ProductWrite(w) \/ ProductDrop(w)
    BY <2>1, AnswerMarks, AnswerWriteMarks DEF ProductInsert, ProductWrite, ProductDrop
  <2>2. CASE ProductRead(w)
    BY <2>2, CheckedMarks DEF ProductRead
  <2>3. CASE ProductDropItems(w)
    BY <2>3 DEF ProductDropItems, Marks, db, IInv, TypeOK, RequestsOK
  <2> QED
    BY <1>15, <2>1, <2>2, <2>3 DEF ProductStep
<1> QED
  BY <1>1, <1>2, <1>3, <1>4, <1>5, <1>6, <1>7, <1>8, <1>9, <1>10, <1>11, <1>12,
     <1>13, <1>14, <1>15 DEF Step, OrderStep

\* An order changes, or is given items, by a request on it, and what others
\* take from it went with its product.
LEMMA ServedOrders ==
  ASSUME WaiterInv, NEW w \in Worker, Statement(w), Observed, NEW o \in OrderId,
         orders[o] # NULL, ~Serves(w, o)
  PROVE  /\ orders'[o] = orders[o] /\ ItemsOf(o)' \subseteq ItemsOf(o)
         /\ ItemsOf(o) \ ItemsOf(o)' \subseteq dropped'
<1>1. orders'[o] = orders[o]
  BY DEF Statement, OrdersEdited, Serves, OnOrderLabels, StatusLabels
<1>2. OnlyLosesItems(o)
  BY <1>1, StrangersTakeItemsOnly DEF Serves, OnOrderLabels
<1>3. ASSUME NEW i \in ItemsOf(o) \ ItemsOf(o)' PROVE i \in dropped'
  <2>1. i \in ItemId /\ Exists(items[i]) /\ items[i].order = o
        /\ ~(Exists(items'[i]) /\ items'[i].order = o)
    BY <1>3 DEF ItemsOf, Exists
  <2>2. items'[i] = items[i] \/ Advances(i) \/ GoesWithProduct(i) \/ Edits(w, i)
    BY <2>1 DEF Statement, ItemsMove
  <2>3. ~Advances(i)
    <3>1. items[i] \in ItemRow
      BY <2>1 DEF Exists, WaiterInv, IInv, TypeOK, SchemaOK
    <3> QED
      BY <2>1, <3>1 DEF Advances, ItemRow
  <2>4. ~Edits(w, i)
    BY <2>1 DEF Edits, RelyingLabels, WaiterInv, WorkerFits, Serves, OnOrderLabels, AddLabels,
                EditLabels, RemoveLabels
  <2>5. ~Exists(items'[i]) /\ ~Exists(products'[items[i].product])
    BY <2>1, <2>2, <2>3, <2>4 DEF GoesWithProduct, Exists
  <2> QED
    BY <2>1, <2>5 DEF Observed, Exists
<1> QED
  BY <1>1, <1>2, <1>3 DEF OnlyLosesItems
-----------------------------------------------------------------------------
(* The server moves, and the carts stay as current as they were *)

LEMMA ServedBefore ==
  ASSUME NEW w \in Worker, Statement(w), NEW v \in Worker, NEW o, Serves(v, o)'
  PROVE  Serves(v, o) /\ req'[v] = req[v]
<1>1. pc'[v] # "idle"
  BY DEF Serves, OnOrderLabels, AddLabels, RemoveLabels, StatusLabels
<1> QED
  BY <1>1 DEF Statement, RouteKept, SameRoute, Serves, OnOrderLabels

\* The devices hold calls, and shown orders that exist.
LEMMA CallTypes ==
  ASSUME WaiterInv, NEW d \in Waiter
  PROVE  /\ \A c \in calls[d] : c.w \in Worker /\ c.order \in OrderId /\ CallFits(c)
         /\ shown[d] # NULL => shown[d] \in OrderId /\ orders[shown[d]] # NULL
BY DEF WaiterInv, WaiterTypeOK, ScreenFits

LEMMA ServerRests ==
  ASSUME CartInv, NEW w \in Worker, ServerStep(w)
  PROVE  CartInv'
<1>1. /\ WaiterInv /\ WaiterInv' /\ IInv /\ GoodWrite /\ Marks(w) /\ Statement(w)
      /\ Observed /\ dropped \subseteq dropped'
      /\ UNCHANGED <<shown, cart, read, calls, missed>>
  <2>1. /\ WaiterInv /\ IInv /\ (Step(w) \/ StatementFails(w)) /\ UNCHANGED screens
        /\ Observed /\ dropped \subseteq dropped'
    BY DEF CartInv, WaiterInv, ServerStep, Observed
  <2>2. GoodWrite
    BY <2>1, NextKeeps DEF Next
  <2> QED
    BY <2>1, <2>2, ServerStepKeeps, ServerStepStatement, ServerMarks DEF screens
<1>2. ASSUME NEW v \in Worker, pc'[v] \in OnOrderLabels
      PROVE  orders'[req'[v].order] # NULL
  <2>1. Serves(v, req[v].order) /\ req'[v] = req[v]
    <3>1. PICK o : o = req'[v].order
      OBVIOUS
    <3>2. Serves(v, o)'
      BY <1>2, <3>1 DEF Serves
    <3> QED
      BY <1>1, <3>1, <3>2, ServedBefore DEF Serves
  <2>2. req[v].order \in OrderId /\ orders[req[v].order] # NULL
    BY <1>1, <2>1 DEF Serves, OnOrderLabels, CartInv, IInv, RequestFits, AddRequest,
                      RemoveRequest, StatusRequest
  <2> QED
    BY <1>1, <2>1, <2>2 DEF GoodWrite, OrderMoves
<1>3. ASSUME NEW d \in Waiter, NEW c \in calls[d], Opens(c)' PROVE Opens(c)
  BY <1>1, <1>3, CallTypes DEF Opens, Statement, RouteKept
<1>4. ASSUME NEW d \in Waiter, NEW c \in calls[d] PROVE CallRests(d, c)'
  <2>1. CallRests(d, c) /\ c.w \in Worker /\ c.order \in OrderId
    BY <1>1, CallTypes DEF CartInv
  <2>2. CallAlone(d, c)'
    BY <1>1, <2>1 DEF CallRests, CallAlone
  <2>3. ASSUME Opens(c)' PROVE Unopened(c)'
    <3>1. Unopened(c)
      BY <1>3, <2>1, <2>3 DEF CallRests
    <3>2. \A v \in Worker : ~Serves(v, c.order)'
      BY <1>1, <3>1, ServedBefore DEF Unopened
    <3>3. ASSUME NEW e \in Waiter, NEW b \in calls[e], b.order = c.order,
                 b.kind = "create" => Opens(b)'
          PROVE  b = c
      BY <1>3, <3>1, <3>3 DEF Unopened
    <3> QED
      BY <1>1, <3>1, <3>2, <3>3 DEF Unopened
  <2>4. c.kind # "create" => orders'[c.order] # NULL
    BY <1>1, <2>1 DEF CallRests, GoodWrite, OrderMoves
  <2>5. pc'[c.w] = "idle" => reply'[c.w] # NULL
    BY <1>1, <2>1 DEF CallRests, Marks, Statement, RouteKept
  <2> QED
    BY <2>2, <2>3, <2>4, <2>5 DEF CallRests
<1>5. ASSUME NEW d \in Waiter, shown[d] # NULL PROVE OrderRests(d)'
  <2>1. OrderRests(d) /\ shown[d] \in OrderId /\ orders[shown[d]] # NULL
    BY <1>1, <1>5, CallTypes DEF CartInv
  <2>2. OwnCalls(d)' = OwnCalls(d) /\ \A c \in OwnCalls(d) : c.w \in Worker
    BY <1>1, CallTypes DEF OwnCalls
  <2>3. ASSUME d \notin missed, \A c \in OwnCalls(d) : ~wrote'[c.w]
        PROVE  ViewsCurrent(d)'
    <3>1. ViewsCurrent(d)
      <4>1. \A c \in OwnCalls(d) : ~wrote[c.w]
        BY <1>1, <2>2, <2>3 DEF Marks
      <4> QED
        BY <1>5, <2>1, <2>3, <4>1 DEF OrderRests
    <3>2. /\ orders'[shown[d]] = orders[shown[d]]
          /\ ItemsOf(shown[d])' \subseteq ItemsOf(shown[d])
          /\ ItemsOf(shown[d]) \ ItemsOf(shown[d])' \subseteq dropped'
      <4>1. CASE Serves(w, shown[d])
        <5>1. PICK c \in OwnCalls(d) : c.w = w
          BY <1>5, <2>1, <2>3, <4>1 DEF OrderRests
        <5>2. UNCHANGED <<orders, items>>
          BY <1>1, <2>3, <5>1 DEF Marks
        <5> QED
          BY <1>1, <5>2 DEF ItemsOf, Exists
      <4>2. CASE ~Serves(w, shown[d])
        BY <1>1, <2>1, <4>2, ServedOrders
      <4> QED
        BY <4>1, <4>2
    <3> QED
      BY <1>1, <3>1, <3>2 DEF ViewsCurrent, Current
  <2>4. \A v \in Worker : Serves(v, shown[d])' => Serves(v, shown[d])
    BY <1>1, ServedBefore
  <2> QED
    BY <1>1, <2>1, <2>2, <2>3, <2>4 DEF OrderRests
<1> QED
  BY <1>1, <1>2, <1>4, <1>5 DEF CartInv, OrderRests

\* The requests of the other screens are on no waiter's order and given to
\* workers that no device waits for.
LEMMA OtherRequestRests ==
  ASSUME CartInv, WaiterInv', NEW w \in Worker, OtherRequest(w)
  PROVE  CartInv'
<1>1. /\ UNCHANGED <<orders, items, shown, cart, read, calls, missed, dropped>>
      /\ \A v \in Worker \ {w} : /\ pc'[v] = pc[v] /\ req'[v] = req[v]
                                 /\ reply'[v] = reply[v] /\ wrote'[v] = wrote[v]
      /\ pc'[w] \notin OnOrderLabels
  BY OtherReceived
  DEF CartInv, db, screens, observers, OnOrderLabels, OtherLabels, KitchenLabels, TableLabels,
      ProductLabels, AddLabels, RemoveLabels, StatusLabels
<1>2. \A d \in Waiter : \A c \in calls[d] : c.w \in Worker \ {w}
  BY OtherReceived, CallTypes DEF CartInv, Free
<1>3. \A v \in Worker : \A o : Serves(v, o)' => Serves(v, o)
  BY <1>1 DEF Serves
<1>4. ASSUME NEW d \in Waiter, NEW c \in calls[d] PROVE CallRests(d, c)'
  <2>1. CallRests(d, c) /\ c.w \in Worker \ {w}
    BY <1>2 DEF CartInv
  <2>2. CallAlone(d, c)'
    BY <1>1, <2>1 DEF CallRests, CallAlone
  <2>3. \A e \in Waiter : \A b \in calls[e] : Opens(b)' <=> Opens(b)
    BY <1>1, <1>2 DEF Opens
  <2>4. Unopened(c) => Unopened(c)'
    BY <1>1, <1>3, <2>3 DEF Unopened
  <2> QED
    BY <1>1, <2>1, <2>2, <2>3, <2>4 DEF CallRests
<1>5. ASSUME NEW d \in Waiter PROVE OrderRests(d)'
  <2>1. OrderRests(d) /\ OwnCalls(d)' = OwnCalls(d)
    BY <1>1 DEF CartInv, OwnCalls
  <2>2. \A c \in OwnCalls(d) : wrote'[c.w] = wrote[c.w]
    BY <1>1, <1>2 DEF OwnCalls
  <2>3. ViewsCurrent(d)' <=> ViewsCurrent(d)
    BY <1>1 DEF ViewsCurrent, Current, ItemsOf, Exists
  <2> QED
    BY <1>1, <1>3, <2>1, <2>2, <2>3 DEF OrderRests
<1>6. \A v \in Worker : pc'[v] \in OnOrderLabels => orders'[req'[v].order] # NULL
  BY <1>1 DEF CartInv
<1> QED
  BY <1>1, <1>4, <1>5, <1>6 DEF CartInv

-----------------------------------------------------------------------------
(* A device sends a request *)

\* The worker of a request sent is nobody else's, and has written nothing.
LEMMA Sent ==
  ASSUME CartInv, NEW d \in Waiter, NEW w \in Worker, NEW endpoint, NEW label, NEW r,
         Receive(w, endpoint, label, r), NEW kind, NEW o, Sends(d, kind, w, o)
  PROVE  /\ UNCHANGED <<orders, items, shown, cart, read, missed, dropped>>
         /\ pc'[w] = label /\ req'[w] = r /\ ~wrote'[w]
         /\ \A v \in Worker \ {w} : /\ pc'[v] = pc[v] /\ req'[v] = req[v]
                                    /\ reply'[v] = reply[v] /\ wrote'[v] = wrote[v]
         /\ calls'[d] = calls[d] \cup {[kind |-> kind, w |-> w, order |-> o]}
         /\ \A e \in Waiter \ {d} : calls'[e] = calls[e]
         /\ \A e \in Waiter : \A c \in calls[e] : c.w \in Worker /\ c.w # w
<1>1. WaiterInv /\ WaiterTypeOK /\ RequestsOK
  BY DEF CartInv, WaiterInv, IInv, TypeOK
<1>2. \A e \in Waiter : \A c \in calls[e] : c.w \in Worker /\ c.w # w
  BY <1>1, CallTypes DEF Sends, Free
<1>3. /\ pc'[w] = label /\ req'[w] = r /\ ~wrote'[w]
      /\ \A v \in Worker \ {w} : /\ pc'[v] = pc[v] /\ req'[v] = req[v]
                                 /\ reply'[v] = reply[v] /\ wrote'[v] = wrote[v]
  BY <1>1 DEF Receive, RequestsOK
<1> QED
  BY <1>1, <1>2, <1>3 DEF Receive, Sends, db, WaiterTypeOK

\* The order of a creation is a new one: nobody can know of it.
LEMMA CreationRests ==
  ASSUME CartInv, WaiterInv', NEW d \in Waiter, NEW w \in Worker, NEW endpoint,
         NEW label \in CreateLabels, NEW r, Receive(w, endpoint, label, r),
         NEW o \in Fresh(orders), o \in OrderId, Sends(d, "create", w, o)
  PROVE  CartInv'
<1> DEFINE n == [kind |-> "create", w |-> w, order |-> o]
<1>1. /\ UNCHANGED <<orders, items, shown, cart, read, missed, dropped>>
      /\ pc'[w] = label /\ req'[w] = r /\ ~wrote'[w]
      /\ \A v \in Worker \ {w} : /\ pc'[v] = pc[v] /\ req'[v] = req[v]
                                 /\ reply'[v] = reply[v] /\ wrote'[v] = wrote[v]
      /\ calls'[d] = calls[d] \cup {n}
      /\ \A e \in Waiter \ {d} : calls'[e] = calls[e]
      /\ \A e \in Waiter : \A c \in calls[e] : c.w \in Worker /\ c.w # w
  BY Sent
<1>2. label \notin OnOrderLabels /\ pc[w] \notin OnOrderLabels /\ label # "idle"
  BY DEF OnOrderLabels, CreateLabels, AddLabels, RemoveLabels, StatusLabels, Receive
<1>3. \A v \in Worker : \A p : Serves(v, p)' <=> Serves(v, p)
  BY <1>1, <1>2 DEF Serves
<1>4. \A e \in Waiter : \A c \in calls[e] : Opens(c)' <=> Opens(c)
  BY <1>1 DEF Opens
<1>5. orders[o] = NULL /\ \A v \in Worker : pc[v] \in CreateLabels => req[v].new # o
  BY DEF Fresh, Inserting, CreateLabels
<1>6. ASSUME NEW e \in Waiter, NEW c \in calls[e], c.kind = "create" => Opens(c)
      PROVE  c.order # o
  <2>1. CallRests(e, c) /\ CallFits(c) /\ c.w \in Worker
    BY CallTypes DEF CartInv
  <2>2. CASE c.kind = "create"
    BY <1>5, <1>6, <2>1, <2>2 DEF CallFits, Opens
  <2>3. CASE c.kind # "create"
    BY <1>5, <2>1, <2>3 DEF CallRests
  <2> QED
    BY <2>2, <2>3
<1>7. Unopened(n)'
  <2>1. \A e \in Waiter : shown'[e] # o
    BY <1>1, <1>5, CallTypes, MarkersAreNoValues DEF CartInv
  <2>2. ASSUME NEW e \in Waiter, NEW b \in calls'[e], b.order = o,
               b.kind = "create" => Opens(b)'
        PROVE  b = n
    <3>1. b \notin calls[e]
      BY <1>4, <1>6, <2>2
    <3> QED
      BY <1>1, <3>1
  <2>3. \A v \in Worker : ~Serves(v, o)'
    BY <1>3, <1>5 DEF Serves, CartInv
  <2> QED
    BY <2>1, <2>2, <2>3 DEF Unopened
<1>8. CallRests(d, n)'
  <2>1. CallAlone(d, n)'
    BY <1>1 DEF CallAlone
  <2> QED
    BY <1>1, <1>2, <1>7, <2>1 DEF CallRests
<1>9. ASSUME NEW e \in Waiter, NEW c \in calls[e] PROVE CallRests(e, c)'
  <2>1. CallRests(e, c)
    BY DEF CartInv
  <2>2. CallAlone(e, c)'
    BY <1>1, <2>1 DEF CallRests, CallAlone
  <2>3. ASSUME Opens(c)' PROVE Unopened(c)'
    <3>1. Unopened(c) /\ c.order # o
      BY <1>4, <1>6, <2>1, <2>3 DEF CallRests
    <3>2. ASSUME NEW f \in Waiter, NEW b \in calls'[f], b.order = c.order,
                 b.kind = "create" => Opens(b)'
          PROVE  b = c
      <4>1. b \in calls[f]
        BY <1>1, <3>1, <3>2
      <4> QED
        BY <1>4, <3>1, <3>2, <4>1 DEF Unopened
    <3> QED
      BY <1>1, <1>3, <3>1, <3>2 DEF Unopened
  <2> QED
    BY <1>1, <2>1, <2>2, <2>3 DEF CallRests
<1>10. ASSUME NEW e \in Waiter PROVE OrderRests(e)'
  <2>1. OrderRests(e) /\ OwnCalls(e)' = OwnCalls(e)
    BY <1>1 DEF CartInv, OwnCalls
  <2>2. \A c \in OwnCalls(e) : wrote'[c.w] = wrote[c.w]
    BY <1>1 DEF OwnCalls
  <2>3. ViewsCurrent(e)' <=> ViewsCurrent(e)
    BY <1>1 DEF ViewsCurrent, Current, ItemsOf, Exists
  <2> QED
    BY <1>1, <1>3, <2>1, <2>2, <2>3 DEF OrderRests
<1>11. \A v \in Worker : pc'[v] \in OnOrderLabels => orders'[req'[v].order] # NULL
  BY <1>1, <1>2 DEF CartInv
<1>12. \A e \in Waiter : \A c \in calls'[e] : CallRests(e, c)'
  BY <1>1, <1>8, <1>9
<1> QED
  BY <1>10, <1>11, <1>12 DEF CartInv
\* A request on the order that is shown, which nobody else shows.
LEMMA RequestRests ==
  ASSUME CartInv, WaiterInv', NEW d \in Waiter, NEW w \in Worker, NEW endpoint,
         NEW label \in OnOrderLabels, NEW r, Receive(w, endpoint, label, r),
         r.order = shown[d], cart[d] # NULL, shown[d] # NULL,
         NEW kind \in {"add", "remove", "send"}, Sends(d, kind, w, shown[d])
  PROVE  CartInv'
<1>0. PICK o : o = shown[d]
  OBVIOUS
<1> DEFINE n == [kind |-> kind, w |-> w, order |-> o]
<1>1. /\ UNCHANGED <<orders, items, shown, cart, read, missed, dropped>>
      /\ pc'[w] = label /\ req'[w] = r /\ ~wrote'[w]
      /\ \A v \in Worker \ {w} : /\ pc'[v] = pc[v] /\ req'[v] = req[v]
                                 /\ reply'[v] = reply[v] /\ wrote'[v] = wrote[v]
      /\ calls'[d] = calls[d] \cup {n}
      /\ \A e \in Waiter \ {d} : calls'[e] = calls[e]
      /\ \A e \in Waiter : \A c \in calls[e] : c.w \in Worker /\ c.w # w
  BY <1>0, Sent
<1>2. label # "idle" /\ orders[o] # NULL /\ o = shown[d] /\ r.order = o
  BY <1>0, CallTypes DEF OnOrderLabels, AddLabels, RemoveLabels, StatusLabels, CartInv
<1>3. \A v \in Worker : \A p : Serves(v, p)' => Serves(v, p) \/ (v = w /\ p = o)
  BY <1>1, <1>2 DEF Serves
<1>4. \A e \in Waiter : \A c \in calls[e] : Opens(c)' <=> Opens(c)
  BY <1>1 DEF Opens
<1>5. CallRests(d, n)'
  <2>1. CallAlone(d, n)'
    BY <1>1 DEF CallAlone
  <2>2. ~Opens(n)'
    BY DEF Opens
  <2> QED
    BY <1>1, <1>2, <2>1, <2>2 DEF CallRests
<1>6. ASSUME NEW e \in Waiter, NEW c \in calls[e] PROVE CallRests(e, c)'
  <2>1. CallRests(e, c)
    BY DEF CartInv
  <2>2. CallAlone(e, c)'
    BY <1>1, <2>1 DEF CallRests, CallAlone
  <2>3. ASSUME Opens(c)' PROVE Unopened(c)'
    <3>1. Unopened(c) /\ c.order # o
      BY <1>2, <1>4, <2>1, <2>3 DEF CallRests, Unopened
    <3>2. ASSUME NEW f \in Waiter, NEW b \in calls'[f], b.order = c.order,
                 b.kind = "create" => Opens(b)'
          PROVE  b = c
      <4>1. b \in calls[f]
        BY <1>1, <3>1, <3>2
      <4> QED
        BY <1>4, <3>1, <3>2, <4>1 DEF Unopened
    <3> QED
      BY <1>1, <1>3, <3>1, <3>2 DEF Unopened
  <2> QED
    BY <1>1, <2>1, <2>2, <2>3 DEF CallRests
<1>7. ASSUME NEW e \in Waiter PROVE OrderRests(e)'
  <2>1. OrderRests(e)
    BY DEF CartInv
  <2>2. ViewsCurrent(e)' <=> ViewsCurrent(e)
    BY <1>1 DEF ViewsCurrent, Current, ItemsOf, Exists
  <2>3. CASE e = d
    <3>1. OwnCalls(d)' = OwnCalls(d) \cup {n}
      BY <1>1, <1>2 DEF OwnCalls
    <3>2. \A c \in OwnCalls(d) : wrote'[c.w] = wrote[c.w]
      BY <1>1 DEF OwnCalls
    <3>3. ASSUME d \notin missed, NEW v \in Worker, Serves(v, o)'
          PROVE  \E c \in OwnCalls(d)' : c.w = v
      <4>1. CASE v = w
        <5>1. n \in OwnCalls(d)' /\ n.w = w
          BY <3>1
        <5> QED
          BY <4>1, <5>1
      <4>2. CASE v # w
        BY <1>2, <1>3, <2>1, <2>3, <3>1, <3>3, <4>2 DEF OrderRests
      <4> QED
        BY <4>1, <4>2
    <3> QED
      BY <1>1, <1>2, <2>1, <2>2, <2>3, <3>1, <3>2, <3>3 DEF OrderRests
  <2>4. CASE e # d
    <3>1. OwnCalls(e)' = OwnCalls(e) /\ \A c \in OwnCalls(e) : wrote'[c.w] = wrote[c.w]
      BY <1>1, <2>4 DEF OwnCalls
    <3>2. shown[e] # NULL => shown[e] # o
      BY <1>2, <2>4 DEF CartInv, OrderRests
    <3> QED
      BY <1>1, <1>3, <2>1, <2>2, <3>1, <3>2 DEF OrderRests
  <2> QED
    BY <2>3, <2>4
<1>8. ASSUME NEW v \in Worker, pc'[v] \in OnOrderLabels PROVE orders'[req'[v].order] # NULL
  BY <1>1, <1>2, <1>8 DEF CartInv
<1>9. \A e \in Waiter : \A c \in calls'[e] : CallRests(e, c)'
  BY <1>1, <1>5, <1>6
<1> QED
  BY <1>7, <1>8, <1>9 DEF CartInv

LEMMA PressRests ==
  ASSUME CartInv, WaiterInv', NEW d \in Waiter,
         \/ handleTablePress(d) \/ handleAddProduct(d)
         \/ handleRemoveItem(d) \/ handleSendToKitchen(d)
  PROVE  CartInv'
<1>1. CASE handleTablePress(d)
  <2>1. PICK w \in Worker, o \in Fresh(orders), t \in TableId :
          /\ Receive(w, "orders.Create", "create.table", [new |-> o, table |-> t])
          /\ Sends(d, "create", w, o)
    BY <1>1 DEF handleTablePress
  <2>2. "create.table" \in CreateLabels /\ o \in OrderId
    BY DEF CreateLabels, Fresh, CartInv, WaiterInv, IInv, TypeOK, SchemaOK
  <2> QED
    BY <2>1, <2>2, CreationRests
<1> /\ "add.order" \in OnOrderLabels /\ "remove.order" \in OnOrderLabels
    /\ "status.order" \in OnOrderLabels
  BY DEF OnOrderLabels, AddLabels, RemoveLabels, StatusLabels
<1>2. ASSUME cart[d] # NULL PROVE shown[d] # NULL
  BY <1>2 DEF CartInv, WaiterInv, ScreenFits, ViewFits
<1>3. CASE handleAddProduct(d)
  BY <1>2, <1>3, RequestRests DEF handleAddProduct, canEditOrder
<1>4. CASE handleRemoveItem(d)
  BY <1>2, <1>4, RequestRests DEF handleRemoveItem, canEditOrder
<1>5. CASE handleSendToKitchen(d)
  BY <1>2, <1>5, RequestRests DEF handleSendToKitchen, canSendToKitchen, canEditOrder
<1> QED
  BY <1>1, <1>3, <1>4, <1>5

-----------------------------------------------------------------------------
(* A device moves on its own *)

\* It shows its order or none, and stops waiting for those who have answered,
\* for creations, or for somebody it will miss.
LEMMA DeviceRests ==
  ASSUME CartInv, WaiterInv', UNCHANGED <<vars, dropped>>, NEW d \in Waiter,
         \A e \in Waiter \ {d} : /\ shown'[e] = shown[e] /\ cart'[e] = cart[e]
                                 /\ read'[e] = read[e] /\ calls'[e] = calls[e]
                                 /\ e \in missed' <=> e \in missed,
         calls'[d] \subseteq calls[d],
         shown'[d] \in {shown[d], NULL},
         shown'[d] # NULL =>
           /\ cart[d] # NULL => cart'[d] # NULL
           /\ d \notin missed' =>
                /\ d \notin missed
                /\ \A c \in calls[d] \ calls'[d] : c.kind = "create" \/ pc[c.w] = "idle"
                /\ (\A c \in OwnCalls(d)' : ~wrote[c.w]) => ViewsCurrent(d)'
  PROVE  CartInv'
<1>1. UNCHANGED <<orders, items, pc, req, reply, wrote, dropped>>
  BY DEF vars, db, request
<1>2. \A v \in Worker : \A p : Serves(v, p)' <=> Serves(v, p)
  BY <1>1 DEF Serves
<1>3. \A c : Opens(c)' <=> Opens(c)
  BY <1>1 DEF Opens
<1>4. \A e \in Waiter : calls'[e] \subseteq calls[e]
  OBVIOUS
<1>5. ASSUME NEW e \in Waiter, NEW c \in calls'[e] PROVE CallRests(e, c)'
  <2>1. CallRests(e, c) /\ c.order \in OrderId /\ c \in calls[e]
    BY <1>4, CallTypes DEF CartInv
  <2>2. CallAlone(e, c)'
    BY <1>4, <2>1 DEF CallRests, CallAlone
  <2>3. Unopened(c) => Unopened(c)'
    BY <1>2, <1>3, <1>4, <2>1, MarkersAreNoValues DEF Unopened
  <2> QED
    BY <1>1, <1>3, <2>1, <2>2, <2>3 DEF CallRests
<1>6. ASSUME NEW e \in Waiter, e # d PROVE OrderRests(e)'
  <2>1. OrderRests(e) /\ OwnCalls(e)' = OwnCalls(e)
    BY <1>6 DEF CartInv, OwnCalls
  <2>2. ViewsCurrent(e)' <=> ViewsCurrent(e)
    BY <1>1, <1>6 DEF ViewsCurrent, Current, ItemsOf, Exists
  <2>3. ASSUME shown[e] # NULL, NEW f \in Waiter, shown'[f] = shown[e] PROVE f = e
    BY <1>6, <2>1, <2>3 DEF OrderRests
  <2> QED
    BY <1>1, <1>2, <1>6, <2>1, <2>2, <2>3 DEF OrderRests
<1>7. ASSUME shown'[d] # NULL PROVE OrderRests(d)'
  <2>1. OrderRests(d) /\ shown'[d] = shown[d] /\ shown[d] # NULL
    BY <1>7 DEF CartInv
  <2>2. OwnCalls(d)' \subseteq OwnCalls(d)
    BY <2>1 DEF OwnCalls
  <2>3. \A e \in Waiter : shown'[e] = shown[d] => e = d
    BY <2>1 DEF OrderRests
  <2>4. OwnCalls(d)' # {} => cart'[d] # NULL
    BY <1>7, <2>1, <2>2 DEF OrderRests
  <2>5. ASSUME d \notin missed', NEW v \in Worker, Serves(v, shown[d])
        PROVE  \E c \in OwnCalls(d)' : c.w = v
    <3>1. PICK c \in OwnCalls(d) : c.w = v
      BY <1>7, <2>1, <2>5 DEF OrderRests
    <3>2. pc[c.w] # "idle" /\ c.kind # "create" /\ c \in calls[d]
      BY <2>5, <3>1 DEF Serves, OwnCalls, OnOrderLabels, AddLabels, RemoveLabels, StatusLabels
    <3>3. c \in calls'[d]
      BY <1>7, <2>5, <3>2
    <3> QED
      BY <2>1, <3>1, <3>3 DEF OwnCalls
  <2>6. d \notin missed' /\ (\A c \in OwnCalls(d)' : ~wrote'[c.w]) => ViewsCurrent(d)'
    BY <1>1, <1>7
  <2> QED
    BY <1>2, <2>1, <2>3, <2>4, <2>5, <2>6 DEF OrderRests
<1>8. \A e \in Waiter : OrderRests(e)'
  BY <1>6, <1>7 DEF OrderRests
<1>9. \A v \in Worker : pc'[v] \in OnOrderLabels => orders'[req'[v].order] # NULL
  BY <1>1 DEF CartInv
<1> QED
  BY <1>5, <1>8, <1>9 DEF CartInv
\* Whoever opens an order finds it untouched: its creation was pressed on this
\* device, and the answer is the first anybody heard of it.
LEMMA OpeningRests ==
  ASSUME CartInv, WaiterInv', UNCHANGED <<vars, dropped>>, NEW d \in Waiter, NEW c \in calls[d],
         c.kind = "create", pc[c.w] = "idle", reply[c.w] = 200,
         calls' = [calls EXCEPT ![d] = @ \ {c}], Navigate(d, c.order)
  PROVE  CartInv'
<1>1. /\ UNCHANGED <<orders, items, pc, req, reply, wrote, dropped>>
      /\ calls'[d] = calls[d] \ {c} /\ \A e \in Waiter \ {d} : calls'[e] = calls[e]
      /\ shown'[d] = c.order /\ cart'[d] = NULL /\ read'[d] = NewRead
      /\ \A e \in Waiter \ {d} : /\ shown'[e] = shown[e] /\ cart'[e] = cart[e]
                                 /\ read'[e] = read[e] /\ (e \in missed' <=> e \in missed)
  BY DEF vars, db, request, Navigate, CartInv, WaiterInv, WaiterTypeOK
<1>2. Opens(c) /\ Unopened(c) /\ CallAlone(d, c)
  BY DEF Opens, CartInv, CallRests
<1>3. \A v \in Worker : \A p : Serves(v, p)' <=> Serves(v, p)
  BY <1>1 DEF Serves
<1>4. \A b : Opens(b)' <=> Opens(b)
  BY <1>1 DEF Opens
<1>5. ASSUME NEW e \in Waiter, NEW b \in calls'[e] PROVE CallRests(e, b)'
  <2>1. CallRests(e, b) /\ b \in calls[e] /\ b # c
    BY <1>1, <1>2 DEF CartInv, CallAlone
  <2>2. CallAlone(e, b)'
    BY <1>1, <2>1 DEF CallRests, CallAlone
  <2>3. ASSUME Opens(b) PROVE Unopened(b)'
    <3>1. Unopened(b)
      BY <2>1, <2>3 DEF CallRests
    <3>2. b.order # c.order
      BY <1>2, <2>1, <3>1 DEF Unopened
    <3>3. \A f \in Waiter : calls'[f] \subseteq calls[f] /\ shown'[f] # b.order
      BY <1>1, <3>1, <3>2 DEF Unopened
    <3> QED
      BY <1>3, <1>4, <3>1, <3>3 DEF Unopened
  <2> QED
    BY <1>1, <1>4, <2>1, <2>2, <2>3 DEF CallRests
<1>6. ASSUME NEW e \in Waiter, e # d PROVE OrderRests(e)'
  <2>1. OrderRests(e) /\ OwnCalls(e)' = OwnCalls(e)
    BY <1>1, <1>6 DEF CartInv, OwnCalls
  <2>2. ViewsCurrent(e)' <=> ViewsCurrent(e)
    BY <1>1, <1>6 DEF ViewsCurrent, Current, ItemsOf, Exists
  <2>3. ASSUME shown[e] # NULL, NEW f \in Waiter, shown'[f] = shown[e] PROVE f = e
    BY <1>1, <1>2, <1>6, <2>1, <2>3 DEF OrderRests, Unopened
  <2> QED
    BY <1>1, <1>3, <1>6, <2>1, <2>2, <2>3 DEF OrderRests
<1>7. OrderRests(d)'
  <2>1. \A e \in Waiter : shown'[e] = shown'[d] => e = d
    BY <1>1, <1>2 DEF Unopened
  <2>2. OwnCalls(d)' = {}
    BY <1>1, <1>2 DEF OwnCalls, Unopened
  <2>3. \A v \in Worker : ~Serves(v, c.order)'
    BY <1>2, <1>3 DEF Unopened
  <2>4. ViewsCurrent(d)'
    BY <1>1 DEF ViewsCurrent, Current, NewRead
  <2> QED
    BY <1>1, <2>1, <2>2, <2>3, <2>4 DEF OrderRests
<1>8. \A v \in Worker : pc'[v] \in OnOrderLabels => orders'[req'[v].order] # NULL
  BY <1>1 DEF CartInv
<1> QED
  BY <1>5, <1>6, <1>7, <1>8 DEF CartInv

LEMMA CreateAnsweredRests ==
  ASSUME CartInv, WaiterInv', NEW d \in Waiter, CreateAnswered(d)
  PROVE  CartInv'
<1>1. PICK c \in calls[d] :
        /\ c.kind = "create" /\ pc[c.w] = "idle"
        /\ calls' = [calls EXCEPT ![d] = @ \ {c}]
        /\ IF reply[c.w] = 200 THEN Navigate(d, c.order)
                               ELSE UNCHANGED <<shown, cart, read, missed>>
  BY DEF CreateAnswered
<1>2. UNCHANGED <<vars, dropped>>
  BY DEF CreateAnswered, observers
<1>3. CASE reply[c.w] = 200
  BY <1>1, <1>2, <1>3, OpeningRests
<1>4. CASE reply[c.w] # 200
  <2>1. /\ UNCHANGED <<shown, cart, read, missed, orders, items, wrote, dropped>>
        /\ calls'[d] = calls[d] \ {c} /\ \A e \in Waiter \ {d} : calls'[e] = calls[e]
    BY <1>1, <1>2, <1>4 DEF CartInv, WaiterInv, WaiterTypeOK, vars, db, request
  <2>2. OwnCalls(d)' = OwnCalls(d)
    BY <1>1, <2>1 DEF OwnCalls
  <2>3. ViewsCurrent(d)' <=> ViewsCurrent(d)
    BY <2>1 DEF ViewsCurrent, Current, ItemsOf, Exists
  <2>4. OrderRests(d)
    BY DEF CartInv
  <2> QED
    BY <1>1, <1>2, <2>1, <2>2, <2>3, <2>4, DeviceRests DEF OrderRests
<1> QED
  BY <1>3, <1>4

\* Each of the two statements of a read finds the order as it is.
LEMMA ReadingRests ==
  ASSUME CartInv, WaiterInv', NEW d \in Waiter, Reading(d)
  PROVE  CartInv'
<1>1. /\ UNCHANGED <<vars, shown, calls, missed, orders, items, dropped>>
      /\ \A e \in Waiter \ {d} : cart'[e] = cart[e] /\ read'[e] = read[e]
      /\ read[d] # NULL /\ (cart[d] # NULL => cart'[d] # NULL)
  BY MarkersAreNoValues
  DEF Reading, ReadOrder, ReadLines, DrawOrder, CartInv, WaiterInv, WaiterTypeOK, vars, db,
      observers
<1>2. ViewsCurrent(d) => ViewsCurrent(d)'
  <2> SUFFICES ASSUME ViewsCurrent(d) PROVE ViewsCurrent(d)'
    OBVIOUS
  <2>1. /\ Current(shown[d], read[d])
        /\ read[d] \in [status : OrderStatus \cup {NULL}, lines : (SUBSET ItemId) \cup {NULL}]
        /\ DOMAIN read = Waiter /\ DOMAIN cart = Waiter
    BY <1>1 DEF ViewsCurrent, CartInv, WaiterInv, WaiterTypeOK
  <2>2. ItemsOf(shown[d])' = ItemsOf(shown[d])
    BY <1>1 DEF ItemsOf, Exists
  <2>3. CASE ReadOrder(d)
    <3>1. read'[d] = [read[d] EXCEPT !.status = orders[shown[d]].status]
      BY <2>1, <2>3 DEF ReadOrder
    <3>2. read'[d].status = orders[shown[d]].status /\ read'[d].lines = read[d].lines
      BY <2>1, <3>1
    <3>3. orders[shown[d]].status \in OrderStatus
      BY <1>1, CallTypes DEF CartInv, WaiterInv, ScreenFits, ViewFits, IInv, TypeOK, SchemaOK,
                             OrderRow
    <3>4. Current(shown[d], read[d])'
      BY <1>1, <2>1, <2>2, <3>2 DEF Current
    <3>5. read'[d] = [status |-> orders[shown[d]].status, lines |-> read[d].lines]
      BY <2>1, <3>1
    <3>6. read'[d] # NULL
      BY <2>1, <3>3, <3>5, NoReadIsMissing
    <3> QED
      BY <3>4, <3>6 DEF ViewsCurrent
  <2>4. CASE ReadLines(d)
    <3>1. read'[d] = [read[d] EXCEPT !.lines = ItemsOf(shown[d])]
      BY <2>1, <2>4 DEF ReadLines
    <3>2. read'[d].status = read[d].status /\ read'[d].lines = ItemsOf(shown[d])
      BY <2>1, <3>1
    <3>3. Current(shown[d], read[d])'
      BY <1>1, <2>1, <2>2, <3>2 DEF Current
    <3>4. read'[d] = [status |-> read[d].status, lines |-> ItemsOf(shown[d])]
      BY <2>1, <3>1
    <3>5. read'[d] # NULL
      BY <2>1, <3>4, NoReadIsMissing DEF ItemsOf
    <3> QED
      BY <3>3, <3>5 DEF ViewsCurrent
  <2>5. CASE DrawOrder(d)
    BY <1>1, <2>1, <2>2, <2>5 DEF DrawOrder, ViewsCurrent, Current
  <2> QED
    BY <2>3, <2>4, <2>5 DEF Reading
<1>3. OwnCalls(d)' = OwnCalls(d)
  BY <1>1 DEF OwnCalls
<1>4. OrderRests(d)
  BY DEF CartInv
<1> QED
  BY <1>1, <1>2, <1>3, <1>4, DeviceRests DEF OrderRests


LEMMA LostReadRests ==
  ASSUME CartInv, WaiterInv', NEW d \in Waiter, ReadFails(d)
  PROVE  CartInv'
<1>1. /\ UNCHANGED <<vars, dropped, shown, cart, calls>> /\ d \in missed'
      /\ \A e \in Waiter \ {d} : read'[e] = read[e] /\ (e \in missed' <=> e \in missed)
  BY DEF ReadFails, CartInv, WaiterInv, WaiterTypeOK, observers
<1> QED
  BY <1>1, DeviceRests

LEMMA ModalRests ==
  ASSUME CartInv, WaiterInv', NEW d \in Waiter, OpenCart(d) \/ CloseCart(d)
  PROVE  CartInv'
<1>1. UNCHANGED <<vars, dropped, shown, cart, read, calls, missed, orders, items>>
  BY DEF OpenCart, CloseCart, vars, db, observers
<1>2. OwnCalls(d)' = OwnCalls(d) /\ (ViewsCurrent(d)' <=> ViewsCurrent(d))
  BY <1>1 DEF OwnCalls, ViewsCurrent, Current, ItemsOf, Exists
<1>3. OrderRests(d)
  BY DEF CartInv
<1> QED
  BY <1>1, <1>2, <1>3, DeviceRests DEF OrderRests

\* After 200 the order is read again, after 500 its waiter has missed
\* something, and after a refusal there was nothing to miss.
LEMMA AnsweredRests ==
  ASSUME CartInv, WaiterInv', NEW d \in Waiter, Answered(d)
  PROVE  CartInv'
<1>1. PICK c \in calls[d] :
        /\ c.kind # "create" /\ pc[c.w] = "idle"
        /\ calls' = [calls EXCEPT ![d] = @ \ {c}]
        /\ read' = IF reply[c.w] = 200 THEN [read EXCEPT ![d] = Invalidated(d)] ELSE read
        /\ cartOpen' = IF reply[c.w] = 200 /\ c.kind = "send"
                       THEN [cartOpen EXCEPT ![d] = FALSE] ELSE cartOpen
        /\ missed' = IF reply[c.w] = 500 THEN missed \cup {d} ELSE missed
  BY DEF Answered
<1>2. /\ UNCHANGED <<vars, shown, cart, orders, items, wrote, dropped>>
      /\ calls'[d] = calls[d] \ {c} /\ \A e \in Waiter \ {d} : calls'[e] = calls[e]
      /\ \A e \in Waiter \ {d} : read'[e] = read[e] /\ (e \in missed' <=> e \in missed)
      /\ reply[c.w] # 200 => read'[d] = read[d]
      /\ reply[c.w] = 200 => read'[d] = Invalidated(d)
  BY <1>1 DEF Answered, CartInv, WaiterInv, WaiterTypeOK, vars, db, request, observers
<1>3. OrderRests(d) /\ c.w \in Worker /\ reply[c.w] \in HttpCode
  BY <1>1, CallTypes DEF CartInv, CallRests, WaiterInv, IInv, TypeOK, RequestsOK
<1>4. ASSUME shown[d] # NULL, d \notin missed', \A b \in OwnCalls(d)' : ~wrote[b.w]
      PROVE  d \notin missed /\ ViewsCurrent(d)'
  <2>1. d \notin missed /\ reply[c.w] # 500
    BY <1>1, <1>4
  <2>2. ASSUME c \in OwnCalls(d) => ~wrote[c.w], read'[d] = read[d] PROVE ViewsCurrent(d)'
    <3>1. \A b \in OwnCalls(d) : ~wrote[b.w]
      BY <1>2, <1>4, <2>2 DEF OwnCalls
    <3>2. ViewsCurrent(d)
      BY <1>3, <1>4, <2>1, <3>1 DEF OrderRests
    <3> QED
      BY <1>2, <2>2, <3>2 DEF ViewsCurrent, Current, ItemsOf, Exists
  <2>3. CASE read'[d] = NewRead
    <3>1. NewRead # NULL
      BY NoReadIsMissing DEF NewRead
    <3>2. ViewsCurrent(d)'
      BY <2>3, <3>1 DEF ViewsCurrent, Current, NewRead
    <3> QED
      BY <2>1, <3>2
  <2>4. CASE reply[c.w] = 200 /\ read'[d] # NewRead
    <3>1. read'[d] = read[d] /\ cart[d] = NULL
      BY <1>2, <2>4 DEF Invalidated
    <3>2. c \notin OwnCalls(d)
      BY <1>3, <1>4, <3>1 DEF OrderRests
    <3> QED
      BY <2>1, <2>2, <3>1, <3>2
  <2>5. CASE reply[c.w] # 200
    <3>1. IsRefusal(reply[c.w])
      BY <1>3, <2>1, <2>5 DEF HttpCode, IsRefusal
    <3>2. ~wrote[c.w]
      BY <1>1, <1>3, <3>1 DEF CartInv, WaiterInv, IInv, NoTrace
    <3> QED
      BY <1>2, <2>1, <2>2, <2>5, <3>2
  <2> QED
    BY <2>3, <2>4, <2>5
<1> QED
  BY <1>1, <1>2, <1>4, DeviceRests

LEMMA LeavingRests ==
  ASSUME CartInv, WaiterInv', NEW d \in Waiter, GiveUp(d) \/ Back(d)
  PROVE  CartInv'
<1>1. CASE GiveUp(d)
  <2>1. PICK c \in calls[d] :
          /\ calls'  = [calls EXCEPT ![d] = @ \ {c}]
          /\ missed' = IF c.kind = "create" THEN missed ELSE missed \cup {d}
    BY <1>1 DEF GiveUp
  <2>2. /\ UNCHANGED <<vars, shown, cart, read, orders, items, wrote, dropped>>
        /\ calls'[d] = calls[d] \ {c} /\ \A e \in Waiter \ {d} : calls'[e] = calls[e]
        /\ \A e \in Waiter \ {d} : e \in missed' <=> e \in missed
    BY <1>1, <2>1 DEF GiveUp, CartInv, WaiterInv, WaiterTypeOK, vars, db, request, observers
  <2>3. CASE c.kind = "create"
    <3>1. missed' = missed /\ OwnCalls(d)' = OwnCalls(d)
      BY <2>1, <2>2, <2>3 DEF OwnCalls
    <3>2. ViewsCurrent(d)' <=> ViewsCurrent(d)
      BY <2>2 DEF ViewsCurrent, Current, ItemsOf, Exists
    <3>3. OrderRests(d)
      BY DEF CartInv
    <3> QED
      BY <2>2, <2>3, <3>1, <3>2, <3>3, DeviceRests DEF OrderRests
  <2>4. CASE c.kind # "create"
    <3>1. d \in missed'
      BY <2>1, <2>4
    <3> QED
      BY <2>2, <3>1, DeviceRests
  <2> QED
    BY <2>3, <2>4
<1>2. CASE Back(d)
  <2>1. /\ UNCHANGED <<vars, dropped>> /\ shown'[d] = NULL /\ calls'[d] \subseteq calls[d]
        /\ \A e \in Waiter \ {d} : /\ shown'[e] = shown[e] /\ cart'[e] = cart[e]
                                   /\ read'[e] = read[e] /\ calls'[e] = calls[e]
                                   /\ e \in missed' <=> e \in missed
    BY <1>2 DEF Back, CartInv, WaiterInv, WaiterTypeOK, observers
  <2> QED
    BY <2>1, DeviceRests
<1> QED
  BY <1>1, <1>2

LEMMA CartStutter ==
  ASSUME CartInv, WaiterInv', UNCHANGED waiterVars
  PROVE  CartInv'
BY DEF CartInv, OrderRests, CallRests, CallAlone, Opens, Unopened, OwnCalls, Serves,
       ViewsCurrent, Current, ItemsOf, Exists, waiterVars, screens, observers, vars, db, request

LEMMA CartInvInit ==
  ASSUME WaiterInit
  PROVE  CartInv
<1>1. /\ WaiterInv /\ \A w \in Worker : pc[w] = "idle"
      /\ \A d \in Waiter : shown[d] = NULL /\ calls[d] = {}
  BY InitWaiterInv DEF WaiterInit, Init
<1> QED
  BY <1>1 DEF CartInv, OrderRests, OnOrderLabels, AddLabels, RemoveLabels, StatusLabels

LEMMA CartInvStep ==
  ASSUME CartInv, [WaiterNext]_waiterVars
  PROVE  CartInv'
<1>1. WaiterInv'
  BY WaiterNextKeeps, WaiterStutterKeeps DEF CartInv
<1>2. CASE UNCHANGED waiterVars
  BY <1>1, <1>2, CartStutter
<1>3. ASSUME NEW w \in Worker, ServerStep(w) PROVE CartInv'
  BY <1>3, ServerRests
<1>4. ASSUME NEW d \in Waiter, WaiterAction(d) PROVE CartInv'
  BY <1>1, <1>4, PressRests, CreateAnsweredRests, ReadingRests, LostReadRests, ModalRests,
     AnsweredRests, LeavingRests DEF WaiterAction
<1>5. ASSUME NEW w \in Worker, OtherRequest(w) PROVE CartInv'
  BY <1>1, <1>5, OtherRequestRests
<1> QED
  BY <1>2, <1>3, <1>4, <1>5 DEF WaiterNext

(* The inductive invariant of the carts: an order is shown by one device,  *)
(* and while no request of that device has written, what its screen holds  *)
(* is current, but for items that went with their product: the kitchen and *)
(* the products screen write beside it, and nothing tells the waiter's.    *)
THEOREM CartsInductive == WaiterSpec => []CartInv
<1>1. CartInv /\ [WaiterNext]_waiterVars => CartInv'
  BY CartInvStep
<1> QED
  BY <1>1, CartInvInit, PTL DEF WaiterSpec

(* A screen that waits for nothing and has missed nothing draws the status *)
(* of its order and every item of it, and beyond these only items that     *)
(* were deleted with their product, for any number of devices, workers,    *)
(* orders and products, whatever the kitchen and the products screen send. *)
THEOREM RestingCartsAreTrue == WaiterSpec => []RestingCartIsTrue
<1>1. CartInv => RestingCartIsTrue
  <2> SUFFICES ASSUME CartInv, NEW d \in Waiter \ missed, cart[d] # NULL, read[d] = NULL,
                      \A c \in calls[d] : c.kind = "create"
               PROVE  /\ cart[d].status = orders[shown[d]].status
                      /\ ItemsOf(shown[d]) \subseteq cart[d].lines
                      /\ cart[d].lines \ ItemsOf(shown[d]) \subseteq dropped
    BY DEF RestingCartIsTrue
  <2>1. shown[d] # NULL /\ cart[d] \in Cart /\ OrderRests(d)
    BY DEF CartInv, WaiterInv, WaiterTypeOK, ScreenFits, ViewFits
  <2>2. OwnCalls(d) = {}
    BY DEF OwnCalls
  <2>3. Current(shown[d], cart[d])
    BY <2>1, <2>2 DEF OrderRests, ViewsCurrent
  <2>4. cart[d].status # NULL /\ cart[d].lines # NULL
    BY <2>1, MarkersAreNoValues, NoListIsMissing DEF Cart
  <2> QED
    BY <2>1, <2>3, <2>4 DEF Current, Cart
<1> QED
  BY <1>1, CartsInductive, PTL
=============================================================================
