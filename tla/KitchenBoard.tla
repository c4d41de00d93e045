---------------------------- MODULE KitchenBoard ----------------------------
(***************************************************************************)
(* The kitchen screens of the app and the server they talk to.  A screen   *)
(* polls GET /kitchen/orders, which is one statement for the sent orders   *)
(* and one more for the items of each; it draws what came back, and a      *)
(* press on an item asks for the status after the one that was drawn,      *)
(* however old that is.  board[s] maps the orders drawn on screen s to     *)
(* their lines, and these map items to statuses; fetch[s] is the list on   *)
(* its way; asked[s] is the worker that handles the press of screen s;     *)
(* crashed is the set of screens whose rendering threw.                    *)
(***************************************************************************)
EXTENDS RestaurantAPI

CONSTANT Screen

VARIABLES board, fetch, asked, crashed

screens   == <<board, fetch, asked, crashed>>
boardVars == <<vars, screens>>

NoRows == [o \in {} |-> {}]

BoardInit ==
  /\ Init
  /\ board   = [s \in Screen |-> NoRows]
  /\ fetch   = [s \in Screen |-> NULL]
  /\ asked   = [s \in Screen |-> NULL]
  /\ crashed = {}

\* A goroutine serves one connection: it takes the next request when the
\* answer to the last one has been read or the client has gone.
Free(w) == \A s \in Screen : asked[s] # w

-----------------------------------------------------------------------------
(* GET /kitchen/orders *)

\* Mutant: an order without items has null for its lines.
Lines_NullWhenEmpty(o) ==
  IF ItemsOf(o) = {} THEN NULL ELSE [i \in ItemsOf(o) |-> items[i].status]

Lines(o) == [i \in ItemsOf(o) |-> items[i].status]

\* A fetch that has not reached the database.
NewFetch == [todo |-> NULL, got |-> NoRows]

\* Mutant: the list is fetched once and never again.
Poll_Once(s) ==
  /\ s \notin crashed /\ fetch[s] = NULL /\ board[s] = NoRows
  /\ fetch' = [fetch EXCEPT ![s] = NewFetch]
  /\ UNCHANGED <<vars, board, asked, crashed>>

\* The refetchInterval of the query; it never has two fetches on their way.
Poll(s) ==
  /\ s \notin crashed /\ fetch[s] = NULL
  /\ fetch' = [fetch EXCEPT ![s] = NewFetch]
  /\ UNCHANGED <<vars, board, asked, crashed>>

\* Mutant: open orders are listed as well.
ListOrders_Open(s) ==
  /\ fetch[s] # NULL /\ fetch[s].todo = NULL
  /\ fetch' = [fetch EXCEPT ![s].todo =
                 {o \in OrderId : orders[o] # NULL /\ orders[o].status \in {"open", "sent"}}]
  /\ UNCHANGED <<vars, board, asked, crashed>>

ListOrders(s) ==
  /\ fetch[s] # NULL /\ fetch[s].todo = NULL
  /\ fetch' = [fetch EXCEPT ![s].todo =
                 {o \in OrderId : orders[o] # NULL /\ orders[o].status = "sent"}]
  /\ UNCHANGED <<vars, board, asked, crashed>>

\* The items of one more order, whatever has become of the order since.
ListItems(s) ==
  /\ fetch[s] # NULL /\ fetch[s].todo # NULL
  /\ \E o \in fetch[s].todo :
       fetch' = [fetch EXCEPT ![s].todo = @ \ {o},
                              ![s].got = [p \in DOMAIN @ \cup {o} |->
                                            IF p = o THEN Lines(o) ELSE @[p]]]
  /\ UNCHANGED <<vars, board, asked, crashed>>

\* The screen draws the list.  An order without items comes without the
\* field the screen maps over, and drawing it throws.
Deliver(s) ==
  /\ fetch[s] # NULL /\ fetch[s].todo = {}
  /\ board'   = [board EXCEPT ![s] = fetch[s].got]
  /\ fetch'   = [fetch EXCEPT ![s] = NULL]
  /\ crashed' = IF \E o \in DOMAIN fetch[s].got : DOMAIN fetch[s].got[o] = {}
                THEN crashed \cup {s} ELSE crashed
  /\ UNCHANGED <<vars, asked>>

\* The request failed or took longer than the client waits: the rows stay.
FetchFails(s) ==
  /\ Faults /\ fetch[s] # NULL
  /\ fetch' = [fetch EXCEPT ![s] = NULL]
  /\ UNCHANGED <<vars, board, asked, crashed>>

-----------------------------------------------------------------------------
(* A cook presses an item. *)

getNextStatus(status) ==
  CASE status = "pending"   -> "preparing"
    [] status = "preparing" -> "ready"
    [] OTHER                -> NULL

\* The button is disabled while the last press is not answered.
CanPress(s, w, o, i) ==
  /\ s \notin crashed /\ asked[s] = NULL /\ Free(w)
  /\ getNextStatus(board[s][o][i]) # NULL
  /\ Receive(w, "kitchen.UpdateItemStatus", "kitchen.item",
             [order |-> o, item |-> i, status |-> getNextStatus(board[s][o][i])])
  /\ asked' = [asked EXCEPT ![s] = w]

\* Mutant: the screen draws the new status before the server has answered.
Press_Optimistic(s) ==
  \E w \in Worker, o \in DOMAIN board[s] : \E i \in DOMAIN board[s][o] :
    /\ CanPress(s, w, o, i)
    /\ board' = [board EXCEPT ![s][o][i] = getNextStatus(@)]
    /\ UNCHANGED <<fetch, crashed>>

Press(s) ==
  \E w \in Worker, o \in DOMAIN board[s] : \E i \in DOMAIN board[s][o] :
    /\ CanPress(s, w, o, i)
    /\ UNCHANGED <<board, fetch, crashed>>

\* After a success the list is fetched anew, and the fetch on its way is
\* abandoned.  After an error the screen only says so.
Answered(s) ==
  /\ asked[s] # NULL /\ pc[asked[s]] = "idle"
  /\ asked' = [asked EXCEPT ![s] = NULL]
  /\ fetch' = IF reply[asked[s]] = 200 /\ s \notin crashed
              THEN [fetch EXCEPT ![s] = NewFetch] ELSE fetch
  /\ UNCHANGED <<vars, board, crashed>>

\* The client's timeout; the handler goes on.
GiveUp(s) ==
  /\ asked[s] # NULL
  /\ asked' = [asked EXCEPT ![s] = NULL]
  /\ UNCHANGED <<vars, board, fetch, crashed>>

\* The app is started again, with nothing in its cache.
Restart(s) ==
  /\ s \in crashed
  /\ board'   = [board EXCEPT ![s] = NoRows]
  /\ fetch'   = [fetch EXCEPT ![s] = NULL]
  /\ asked'   = [asked EXCEPT ![s] = NULL]
  /\ crashed' = crashed \ {s}
  /\ UNCHANGED vars
-----------------------------------------------------------------------------
Fetching(s) == ListOrders(s) \/ ListItems(s) \/ Deliver(s)

ScreenStep(s) ==
  \/ Poll(s) \/ Fetching(s) \/ FetchFails(s)
  \/ Press(s) \/ Answered(s) \/ GiveUp(s) \/ Restart(s)

\* The waiters' requests and the statements of all.
ServerStep(w) ==
  /\ (Free(w) /\ OrderRequest(w)) \/ Step(w) \/ StatementFails(w)
  /\ UNCHANGED screens

BoardNext == (\E s \in Screen : ScreenStep(s)) \/ (\E w \in Worker : ServerStep(w))

BoardSpec == BoardInit /\ [][BoardNext]_boardVars

\* The timer of the query goes off and the server answers the list, whatever
\* the other requests wait for: a read waits for no row.
FairBoardSpec ==
  BoardSpec /\ \A s \in Screen : WF_boardVars(Poll(s)) /\ WF_boardVars(Fetching(s))

-----------------------------------------------------------------------------
\* What a fetch and a screen may hold.
List == UNION {[os -> UNION {[is -> ItemStatus] : is \in SUBSET ItemId}] : os \in SUBSET OrderId}

\* Type invariant of the screens.
BoardTypeOK ==
  /\ board   \in [Screen -> List]
  /\ fetch   \in [Screen -> [todo : (SUBSET OrderId) \cup {NULL}, got : List] \cup {NULL}]
  /\ asked   \in [Screen -> Worker \cup {NULL}]
  /\ crashed \in SUBSET Screen

(* The kitchen cooks what was sent: however late its list arrives, no      *)
(* screen draws an order the waiter is still working on.                   *)
NoOpenOrderDrawn ==
  \A s \in Screen : \A o \in DOMAIN board[s] : orders[o].status # "open"

(* What a screen draws as started has been started: a refused or lost      *)
(* press leaves no trace on it.                                            *)
DrawnProgressIsReal ==
  \A s \in Screen : \A o \in DOMAIN board[s] : \A i \in DOMAIN board[s][o] :
    Exists(items[i]) /\ board[s][o][i] # "pending" => items[i].status # "pending"

(* From one drawing to the next no item goes back to pending, although the *)
(* lists are read in several statements and some arrive late.              *)
DrawnItemsStayStarted ==
  [][\A s \in Screen : \A o \in DOMAIN board[s] \cap DOMAIN board'[s] :
       \A i \in DOMAIN board[s][o] \cap DOMAIN board'[s][o] :
         board[s][o][i] # "pending" => board'[s][o][i] # "pending"]_boardVars

SentOrders == {o \in OrderId : orders[o] # NULL /\ orders[o].status = "sent"}

(* When the orders and the items rest and no fetch of it fails any more, a *)
(* screen that has not crashed comes to draw the sent orders with their    *)
(* items as they are.                                                      *)
BoardCatchesUp ==
  \A s \in Screen :
    (/\ <>[][FALSE]_<<orders, items>>
     /\ <>[][~FetchFails(s)]_boardVars
     /\ [](s \notin crashed)) =>
      <>[](board[s] = [o \in SentOrders |-> Lines(o)])

(* An Order of types/index.ts always has its items.                        *)
DrawnOrdersHaveItems ==
  \A s \in Screen : \A o \in DOMAIN board[s] : DOMAIN board[s][o] # {}
=============================================================================
