--------------------------- MODULE RestaurantAPI ---------------------------
(***************************************************************************)
(* The server: any number of workers, each running one request of one of   *)
(* the four services, over one database.                                   *)
(***************************************************************************)
EXTENDS OrderService, KitchenService, TableService, ProductService

CONSTANTS SeedTables, SeedProducts   \* the rows the migration inserts

ASSUME SeedRows == SeedTables \subseteq TableId /\ SeedProducts \subseteq ProductId

\* The seeded tables are free, the seeded products available, at any price.
Init ==
  /\ tables   = [t \in TableId |-> IF t \in SeedTables THEN "free" ELSE NULL]
  /\ orders   = [o \in OrderId |-> NULL]
  /\ items    = [i \in ItemId |-> NULL]
  /\ \E price \in [SeedProducts -> Price] :
       products = [p \in ProductId |->
                     IF p \in SeedProducts THEN [price |-> price[p], available |-> TRUE]
                                           ELSE NULL]
  /\ pc       = [w \in Worker |-> "idle"]
  /\ req      = [w \in Worker |-> NULL]
  /\ seen     = [w \in Worker |-> NULL]
  /\ locked   = [w \in Worker |-> {}]
  /\ reply    = [w \in Worker |-> NULL]
  /\ wrote    = [w \in Worker |-> FALSE]
  /\ told     = {}

\* A request arrives.
Arrival(w) ==
  \/ OrderRequest(w)
  \/ ReceiveItemStatus(w)
  \/ ReceiveNewTable(w) \/ ReceiveTableStatus(w)
  \/ ReceiveNewProduct(w) \/ ReceiveProductPatch(w) \/ ReceiveProductDelete(w)

\* The worker executes the next statement of its request.
Step(w) ==
  \/ OrderStep(w)
  \/ KitchenStep(w)
  \/ TableStep(w)
  \/ ProductStep(w)

Next == \E w \in Worker : Arrival(w) \/ Step(w) \/ StatementFails(w)

Spec == Init /\ [][Next]_vars

\* The database answers every statement.  Those that wait for a row stand in
\* a queue, so none is overtaken for ever: fairness is strong.  Nothing makes a
\* client send a request.
FairSpec == Spec /\ \A w \in Worker : SF_vars(Step(w))

-----------------------------------------------------------------------------
Request == CreateRequest \cup AddRequest \cup EditRequest \cup RemoveRequest
           \cup StatusRequest \cup KitchenRequest \cup NewTableRequest
           \cup TableStatusRequest \cup NewProductRequest
           \cup ProductPatchRequest \cup ProductDeleteRequest

Labels == CreateLabels \cup AddLabels \cup EditLabels \cup RemoveLabels
          \cup StatusLabels \cup KitchenLabels \cup TableLabels \cup ProductLabels

\* What the workers hold between two statements.
RequestsOK ==
  /\ pc     \in [Worker -> Labels \cup {"idle"}]
  /\ req    \in [Worker -> Request \cup {NULL}]
  /\ seen   \in [Worker -> OrderRow \cup ItemRow \cup ProductRow \cup {NULL}]
  /\ locked \in [Worker -> SUBSET ItemId]
  /\ reply  \in [Worker -> HttpCode \cup {NULL}]
  /\ wrote  \in [Worker -> BOOLEAN]
  /\ told   \in SUBSET OrderId

\* Type invariant: whatever the requests ask for, and in whatever order their
\* statements run, the rows obey the schema's types and CHECK constraints.
TypeOK == SchemaOK /\ RequestsOK

-----------------------------------------------------------------------------
(* A 400, 401, 404 or 409 means that nothing happened: writeServiceError   *)
(* gives these codes only to errors found before a handler's first write.  *)
RefusalLeavesNoTrace ==
  \A w \in Worker : pc[w] = "idle" /\ IsRefusal(reply[w]) => ~wrote[w]

(* Whatever two requests do between each other's read and write of one     *)
(* order, UpdateStatus never reopens it and never closes it unsent.        *)
OrderStatusPath ==
  [][\A o \in OrderId :
       orders[o] # NULL /\ orders[o] # orders'[o] =>
         /\ orders'[o].status # "open"
         /\ orders[o].status = "open" => orders'[o].status # "closed"]_vars

(* Whatever two cooks do between each other's read and write of one item,  *)
(* it never goes back to pending and never skips preparing.                *)
ItemStatusPath ==
  [][\A i \in ItemId :
       Exists(items[i]) /\ Exists(items'[i]) /\ items[i].status # items'[i].status =>
         /\ items'[i].status # "pending"
         /\ items[i].status = "pending" => items'[i].status = "preparing"]_vars

\* A request on the items of the order has read that it was open.
Editing(o) ==
  \E w \in Worker :
    /\ pc[w] \in {"add.product", "add.insert", "edit.item", "edit.write", "remove.write"}
    /\ req[w].order = o

Frozen(o) == orders[o] # NULL /\ orders[o].status # "open" /\ ~Editing(o)

(* Once an order is not open and the requests that saw it open have ended, *)
(* its items are what the kitchen was sent, for good: no request gets past *)
(* its check again, no item comes, none changes its quantity, and one goes *)
(* only with its product.                                                  *)
LockedOrderStaysLocked ==
  [][\A o \in OrderId :
       Frozen(o) =>
         /\ Frozen(o)'
         /\ \A i \in ItemsOf(o) \cup ItemsOf(o)' :
              \/ i \in ItemsOf(o) /\ ~Exists(products'[items[i].product])
              \/ /\ i \in ItemsOf(o) \cap ItemsOf(o)'
                 /\ items'[i] = [items[i] EXCEPT !.status = items'[i].status]]_vars

(* A field that a PATCH of a product leaves out keeps its value, when no   *)
(* other request comes between its read and its write.                     *)
PatchKeepsOtherFields ==
  [][\A w \in Worker :
       pc[w] = "product.write" /\ pc'[w] = "idle" =>
         LET p == req[w].product IN
           Exists(products[p]) =>
             /\ req[w].price = NULL => products'[p].price = products[p].price
             /\ req[w].available = NULL =>
                  products'[p].available = products[p].available]_vars

(* A PATCH of an item that only changes its notes keeps its quantity, when *)
(* no other request comes between its read and its write, although it      *)
(* writes the quantity it has read.                                        *)
NotesKeepQuantity ==
  [][\A w \in Worker :
       pc[w] = "edit.write" /\ pc'[w] = "idle" /\ req[w].quantity = NULL =>
         LET i == req[w].item IN
           Exists(items'[i]) => items'[i].quantity = items[i].quantity]_vars

(* ErrOrderCloseRequiresReady, as its text puts it: "order can be closed   *)
(* only when all items are ready".  UpdateStatus counts the items and      *)
(* closes the order in two statements.                                     *)
ClosedOrderIsReady ==
  \A o \in OrderId :
    orders[o] # NULL /\ orders[o].status = "closed" => NonReadyItems(o) = {}

(* ErrOrderItemsLocked, as its text puts it: "order items can only be      *)
(* changed while order is open".                                           *)
ItemsChangeOnlyWhileOpen ==
  [][\A o \in OrderId :
       orders[o] # NULL /\ orders[o].status # "open" =>
         /\ ItemsOf(o)' = ItemsOf(o)
         /\ \A i \in ItemsOf(o) : items'[i].quantity = items[i].quantity]_vars

(* Every request is answered, the ones that wait for the rows of another   *)
(* request's transaction included.                                         *)
EveryRequestAnswered == \A w \in Worker : []<>(pc[w] = "idle")
=============================================================================
