---------------------------- MODULE WaiterScreens ----------------------------
(***************************************************************************)
(* The tables screen and the order screen of the waiters over the server   *)
(* they talk to, whose other clients (the kitchen's, the products and the  *)
(* tables screen) send what they like.  A press on a table creates an      *)
(* order, and its answer opens that order; the order screen draws the cart *)
(* it has in its cache, which is read anew after each success of its own   *)
(* and at no other time.  Nothing opens an order a second time: an order   *)
(* that is left, or whose creation is not heard of, is out of every        *)
(* waiter's reach.                                                         *)
(*                                                                         *)
(* Four variables observe: missed the waiters whose cart may be old        *)
(* because an answer or a read of it was lost, had the items an order has  *)
(* ever had, dropped the items that went with their product, and drawn the *)
(* lines of the cart that the send a worker handles was pressed on.        *)
(***************************************************************************)
EXTENDS RestaurantAPI

CONSTANT Waiter   \* the devices

ASSUME OneOfEach == 1 \in Quantity   \* the quantity the menu adds
ASSUME NoListIsMissing == \A lines \in SUBSET ItemId : lines # NULL
ASSUME NoReadIsMissing ==
  \A status \in OrderStatus \cup {NULL}, lines \in (SUBSET ItemId) \cup {NULL} :
    [status |-> status, lines |-> lines] # NULL

VARIABLES
  shown,     \* the order on the order screen, NULL on the tables screen
  cart,      \* its status and items as drawn, NULL for the spinner
  cartOpen,  \* is the modal with the cart visible?
  read,      \* the order on its way, first its row and then its items
  calls,     \* the requests the device waits for
  missed,
  had,
  dropped,
  drawn

screens    == <<shown, cart, cartOpen, read, calls, missed>>
observers  == <<had, dropped, drawn>>
waiterVars == <<vars, screens, observers>>

NewRead == [status |-> NULL, lines |-> NULL]

WaiterInit ==
  /\ Init
  /\ shown    = [d \in Waiter |-> NULL]
  /\ cart     = [d \in Waiter |-> NULL]
  /\ cartOpen = [d \in Waiter |-> FALSE]
  /\ read     = [d \in Waiter |-> NULL]
  /\ calls    = [d \in Waiter |-> {}]
  /\ missed   = {}
  /\ had      = [o \in OrderId |-> {}]
  /\ dropped  = {}
  /\ drawn    = [w \in Worker |-> {}]

Free(w) == \A d \in Waiter : \A c \in calls[d] : c.w # w

Waits(d, kind) == \E c \in calls[d] : c.kind = kind

\* The device sends the request that worker w has just received.
Sends(d, kind, w, o) ==
  /\ Free(w)
  /\ calls' = [calls EXCEPT ![d] = @ \cup {[kind |-> kind, w |-> w, order |-> o]}]
  /\ drawn' = IF kind = "send" THEN [drawn EXCEPT ![w] = cart[d].lines] ELSE drawn
  /\ UNCHANGED <<shown, cart, cartOpen, read, missed, had, dropped>>

-----------------------------------------------------------------------------
(* The tables screen *)

\* Nothing disables the cards while a creation is pending.
handleTablePress(d) ==
  /\ shown[d] = NULL
  /\ \E w \in Worker, o \in Fresh(orders), t \in TableId :
       /\ Receive(w, "orders.Create", "create.table", [new |-> o, table |-> t])
       /\ Sends(d, "create", w, o)

\* Mutant: the query of the order is not enabled by the navigation.
Navigate_NotRead(d, o) ==
  /\ shown'  = [shown EXCEPT ![d] = o]
  /\ cart'   = [cart EXCEPT ![d] = NULL]
  /\ read'   = [read EXCEPT ![d] = NULL]
  /\ missed' = missed \ {d}

\* The device shows order o, whatever it showed before.
Navigate(d, o) ==
  /\ shown'  = [shown EXCEPT ![d] = o]
  /\ cart'   = [cart EXCEPT ![d] = NULL]
  /\ read'   = [read EXCEPT ![d] = NewRead]
  /\ missed' = missed \ {d}

\* Mutant: the tables screen opens the order that is active at the table.
CreateAnswered_Reopens(d) ==
  /\ \E c \in calls[d] :
       /\ c.kind = "create" /\ pc[c.w] = "idle"
       /\ calls' = [calls EXCEPT ![d] = @ \ {c}]
       /\ IF reply[c.w] = 200
          THEN \E o \in told : orders[o].status \in {"open", "sent"} /\ Navigate(d, o)
          ELSE UNCHANGED <<shown, cart, read, missed>>
  /\ UNCHANGED <<vars, observers, cartOpen>>

CreateAnswered(d) ==
  /\ \E c \in calls[d] :
       /\ c.kind = "create" /\ pc[c.w] = "idle"
       /\ calls' = [calls EXCEPT ![d] = @ \ {c}]
       /\ IF reply[c.w] = 200 THEN Navigate(d, c.order)
                              ELSE UNCHANGED <<shown, cart, read, missed>>
  /\ UNCHANGED <<vars, observers, cartOpen>>

-----------------------------------------------------------------------------
(* GET /orders/:id *)

\* Mutant: an order that is not open any more comes without its status.
ReadOrder_OpenOnly(d) ==
  /\ read[d] # NULL /\ read[d].status = NULL
  /\ read' = [read EXCEPT ![d].status =
                IF orders[shown[d]].status = "open" THEN "open" ELSE "unknown"]
  /\ UNCHANGED <<vars, observers, shown, cart, cartOpen, calls, missed>>

ReadOrder(d) ==
  /\ read[d] # NULL /\ read[d].status = NULL
  /\ read' = [read EXCEPT ![d].status = orders[shown[d]].status]
  /\ UNCHANGED <<vars, observers, shown, cart, cartOpen, calls, missed>>

ReadLines(d) ==
  /\ read[d] # NULL /\ read[d].status # NULL /\ read[d].lines = NULL
  /\ read' = [read EXCEPT ![d].lines = ItemsOf(shown[d])]
  /\ UNCHANGED <<vars, observers, shown, cart, cartOpen, calls, missed>>

DrawOrder(d) ==
  /\ read[d] # NULL /\ read[d].lines # NULL
  /\ cart' = [cart EXCEPT ![d] = read[d]]
  /\ read' = [read EXCEPT ![d] = NULL]
  /\ UNCHANGED <<vars, observers, shown, cartOpen, calls, missed>>

\* The query has tried three times more; without a cart, the spinner stays.
ReadFails(d) ==
  /\ Faults /\ read[d] # NULL
  /\ read'   = [read EXCEPT ![d] = NULL]
  /\ missed' = missed \cup {d}
  /\ UNCHANGED <<vars, observers, shown, cart, cartOpen, calls>>

-----------------------------------------------------------------------------
(* The order screen *)

canEditOrder(d) == cart[d] # NULL /\ cart[d].status = "open"

\* Mutant: an order without items may be sent.
canSendToKitchen_Empty(d) == canEditOrder(d)

canSendToKitchen(d) == canEditOrder(d) /\ cart[d].lines # {}

OpenCart(d) ==
  /\ cart[d] # NULL /\ ~cartOpen[d]
  /\ cartOpen' = [cartOpen EXCEPT ![d] = TRUE]
  /\ UNCHANGED <<vars, observers, shown, cart, read, calls, missed>>

CloseCart(d) ==
  /\ cart[d] # NULL /\ cartOpen[d]
  /\ cartOpen' = [cartOpen EXCEPT ![d] = FALSE]
  /\ UNCHANGED <<vars, observers, shown, cart, read, calls, missed>>

\* The menu may be an old one.
handleAddProduct(d) ==
  /\ canEditOrder(d) /\ ~cartOpen[d] /\ ~Waits(d, "add")
  /\ \E w \in Worker, i \in Fresh(items), p \in {q \in ProductId : products[q] # NULL} :
       /\ Receive(w, "orders.AddItem", "add.order",
                  [new |-> i, order |-> shown[d], product |-> p, quantity |-> 1])
       /\ Sends(d, "add", w, shown[d])

handleRemoveItem(d) ==
  /\ canEditOrder(d) /\ cartOpen[d] /\ ~Waits(d, "remove")
  /\ \E w \in Worker, i \in cart[d].lines :
       /\ Receive(w, "orders.DeleteItem", "remove.order", [order |-> shown[d], item |-> i])
       /\ Sends(d, "remove", w, shown[d])

\* Mutant: the screen draws the order as sent before the server has answered.
handleSendToKitchen_Optimistic(d) ==
  /\ canSendToKitchen(d) /\ cartOpen[d] /\ ~Waits(d, "send")
  /\ \E w \in Worker :
       /\ Receive(w, "orders.UpdateStatus", "status.order",
                  [order |-> shown[d], status |-> "sent"])
       /\ Free(w)
       /\ calls' = [calls EXCEPT ![d] = @ \cup {[kind |-> "send", w |-> w, order |-> shown[d]]}]
       /\ drawn' = [drawn EXCEPT ![w] = cart[d].lines]
  /\ cart' = [cart EXCEPT ![d].status = "sent"]
  /\ UNCHANGED <<shown, cartOpen, read, missed, had, dropped>>

handleSendToKitchen(d) ==
  /\ canSendToKitchen(d) /\ cartOpen[d] /\ ~Waits(d, "send")
  /\ \E w \in Worker :
       /\ Receive(w, "orders.UpdateStatus", "status.order",
                  [order |-> shown[d], status |-> "sent"])
       /\ Sends(d, "send", w, shown[d])

\* Mutant: a read on its way is waited for, not replaced.
Invalidated_Joined(d) == IF read[d] # NULL THEN read[d] ELSE NewRead

\* The read on its way is cancelled for a new one, unless it is the first.
Invalidated(d) == IF cart[d] = NULL /\ read[d] # NULL THEN read[d] ELSE NewRead

\* After an error the screen only says so.
Answered(d) ==
  /\ \E c \in calls[d] :
       /\ c.kind # "create" /\ pc[c.w] = "idle"
       /\ calls' = [calls EXCEPT ![d] = @ \ {c}]
       /\ read' = IF reply[c.w] = 200 THEN [read EXCEPT ![d] = Invalidated(d)] ELSE read
       /\ cartOpen' = IF reply[c.w] = 200 /\ c.kind = "send"
                      THEN [cartOpen EXCEPT ![d] = FALSE] ELSE cartOpen
       /\ missed' = IF reply[c.w] = 500 THEN missed \cup {d} ELSE missed
  /\ UNCHANGED <<vars, observers, shown, cart>>

\* The client waits ten seconds; the handler goes on.
GiveUp(d) ==
  /\ Faults
  /\ \E c \in calls[d] :
       /\ calls'  = [calls EXCEPT ![d] = @ \ {c}]
       /\ missed' = IF c.kind = "create" THEN missed ELSE missed \cup {d}
  /\ UNCHANGED <<vars, observers, shown, cart, cartOpen, read>>

\* The back gesture closes the cart first.  The order screen is gone with its
\* cache and its requests; the tables screen below it still waits for its own.
Back(d) ==
  /\ shown[d] # NULL /\ (cart[d] = NULL \/ ~cartOpen[d])
  /\ shown'    = [shown EXCEPT ![d] = NULL]
  /\ cart'     = [cart EXCEPT ![d] = NULL]
  /\ cartOpen' = [cartOpen EXCEPT ![d] = FALSE]
  /\ read'     = [read EXCEPT ![d] = NULL]
  /\ calls'    = [calls EXCEPT ![d] = {c \in @ : c.kind = "create"}]
  /\ missed'   = missed \ {d}
  /\ UNCHANGED <<vars, observers>>

-----------------------------------------------------------------------------
Reading(d) == ReadOrder(d) \/ ReadLines(d) \/ DrawOrder(d)

WaiterAction(d) ==
  \/ handleTablePress(d) \/ CreateAnswered(d)
  \/ Reading(d) \/ ReadFails(d)
  \/ OpenCart(d) \/ CloseCart(d)
  \/ handleAddProduct(d) \/ handleRemoveItem(d) \/ handleSendToKitchen(d)
  \/ Answered(d) \/ GiveUp(d) \/ Back(d)

\* What the observers see of a statement.
Observed ==
  /\ had'     = [o \in OrderId |-> had[o] \cup ItemsOf(o)']
  /\ dropped' = dropped \cup
                  {i \in ItemId : /\ Exists(items[i]) /\ ~Exists(items'[i])
                                  /\ ~Exists(products'[items[i].product])}
  /\ drawn'   = [w \in Worker |-> IF pc'[w] = "idle" THEN {} ELSE drawn[w]]

\* A statement of any request, whoever sent it.  No screen is told.
ServerStep(w) == (Step(w) \/ StatementFails(w)) /\ Observed /\ UNCHANGED screens

\* The kitchen's, the products and the tables screen send a request: they
\* touch no order's row, but the items of the order a waiter is looking at.
OtherRequest(w) ==
  /\ Free(w)
  /\ \/ ReceiveItemStatus(w)
     \/ ReceiveNewTable(w) \/ ReceiveTableStatus(w)
     \/ ReceiveNewProduct(w) \/ ReceiveProductPatch(w) \/ ReceiveProductDelete(w)
  /\ UNCHANGED <<screens, observers>>

WaiterNext ==
  \/ \E d \in Waiter : WaiterAction(d)
  \/ \E w \in Worker : ServerStep(w) \/ OtherRequest(w)

WaiterSpec == WaiterInit /\ [][WaiterNext]_waiterVars

\* The server answers the reads: they wait for no row.
FairWaiterSpec == WaiterSpec /\ \A d \in Waiter : WF_waiterVars(Reading(d))

-----------------------------------------------------------------------------
Cart == [status : OrderStatus, lines : SUBSET ItemId]

\* Type invariant of the screens.
WaiterTypeOK ==
  /\ shown    \in [Waiter -> OrderId \cup {NULL}]
  /\ cart     \in [Waiter -> Cart \cup {NULL}]
  /\ cartOpen \in [Waiter -> BOOLEAN]
  /\ read     \in [Waiter -> [status : OrderStatus \cup {NULL},
                              lines : (SUBSET ItemId) \cup {NULL}] \cup {NULL}]
  /\ calls    \in [Waiter -> SUBSET [kind : {"create", "add", "remove", "send"},
                                     w : Worker, order : OrderId]]
  /\ missed   \in SUBSET Waiter
  /\ had      \in [OrderId -> SUBSET ItemId]
  /\ dropped  \in SUBSET ItemId
  /\ drawn    \in [Worker -> SUBSET ItemId]

(* A cart that is drawn as locked is locked: a screen never withholds an   *)
(* order that could be edited, whatever became of the press that sent it.  *)
LockedCartIsLocked ==
  \A d \in Waiter :
    cart[d] # NULL /\ cart[d].status # "open" => orders[shown[d]].status # "open"

\* Some worker handles a request on the row or the items of order o.
Handled(o) ==
  \E w \in Worker :
    \/ pc[w] \in CreateLabels /\ req[w].new = o
    \/ pc[w] \in AddLabels \cup RemoveLabels \cup StatusLabels /\ req[w].order = o

(* Once a screen waits for nothing and has missed nothing, it draws the    *)
(* status its order has and every item of it, although an order is read in *)
(* two statements and a read may be overtaken by the press that follows    *)
(* it.  What it draws beyond that are items deleted with their product:    *)
(* products.Delete (product_repo.go:173) takes them out of open orders,    *)
(* and no screen that shows one reads it again.  How far the kitchen has   *)
(* come with an item is not part of it: the screen is not told that either.*)
RestingCartIsTrue ==
  \A d \in Waiter \ missed :
    /\ cart[d] # NULL /\ read[d] = NULL
    /\ \A c \in calls[d] : c.kind = "create"
    => /\ cart[d].status = orders[shown[d]].status
       /\ ItemsOf(shown[d]) \subseteq cart[d].lines
       /\ cart[d].lines \ ItemsOf(shown[d]) \subseteq dropped

(* "Add at least one item before sending to kitchen.": when an order       *)
(* reaches the kitchen without items, the send was pressed on a cart with  *)
(* lines, every one of them an item of this order that has been deleted    *)
(* since that cart was read, by a removal or with its product.             *)
SentEmptyOnlyAfterRemoval ==
  [][\A o \in OrderId :
       /\ orders[o] # NULL /\ orders[o].status = "open"
       /\ orders'[o].status = "sent" /\ ItemsOf(o) = {}
       => \E w \in Worker :
            /\ pc[w] = "status.write" /\ req[w].order = o
            /\ drawn[w] # {} /\ drawn[w] \subseteq had[o]
            /\ \A i \in drawn[w] : items[i] = DELETED]_waiterVars

\* No screen shows the order, no answer that is awaited can open it, and no
\* request of it is being handled.
Lost(o) ==
  /\ orders[o] # NULL /\ ~Handled(o)
  /\ \A d \in Waiter : shown[d] # o /\ \A c \in calls[d] : c.order # o

(* An order that is lost stays lost, and stays as it is: no press on its   *)
(* table, and no late answer, brings it back or ends it.  It can only lose *)
(* items, with their product.                                              *)
LostOrderStaysLost ==
  [][\A o \in OrderId :
       Lost(o) =>
         /\ Lost(o)' /\ orders'[o] = orders[o]
         /\ ItemsOf(o)' \subseteq ItemsOf(o)
         /\ \A i \in ItemsOf(o) \ ItemsOf(o)' : ~Exists(products'[items[i].product])
    ]_waiterVars

(* The spinner ends, unless the first read of the order fails.             *)
SpinnerEnds ==
  \A d \in Waiter :
    shown[d] # NULL /\ cart[d] = NULL ~> shown[d] = NULL \/ cart[d] # NULL \/ d \in missed
=============================================================================
