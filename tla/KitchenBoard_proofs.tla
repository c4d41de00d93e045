------------------------ MODULE KitchenBoard_proofs ------------------------
(***************************************************************************)
(* Theorems about the kitchen screens, for any number of screens, workers  *)
(* and rows: what is drawn is late but never ahead of the kitchen.         *)
(***************************************************************************)
EXTENDS KitchenBoard, RestaurantAPI_proofs

Handed(o) == orders[o] # NULL /\ orders[o].status # "open"

\* An item whose drawn status is not pending has been started, or is gone.
Real(i, status) ==
  /\ items[i] # NULL
  /\ Exists(items[i]) /\ status # "pending" => items[i].status # "pending"

\* A list that is drawn, or will be.
Honest(list) ==
  \A o \in DOMAIN list : Handed(o) /\ \A i \in DOMAIN list[o] : Real(i, list[o][i])

\* The list old may be followed by the list new.
Follows(old, new) ==
  \A o \in DOMAIN old \cap DOMAIN new : \A i \in DOMAIN old[o] \cap DOMAIN new[o] :
    old[o][i] # "pending" => new[o][i] # "pending"

ScreenHonest(s) ==
  /\ Honest(board[s])
  /\ fetch[s] # NULL =>
       /\ Honest(fetch[s].got)
       /\ Follows(board[s], fetch[s].got)
       /\ fetch[s].todo # NULL => \A o \in fetch[s].todo : Handed(o)

BoardInv == IInv /\ BoardTypeOK /\ \A s \in Screen : ScreenHonest(s)

-----------------------------------------------------------------------------
(* The lists *)

\* The lines of one order, as a list may have them.
SomeLines == UNION {[is -> ItemStatus] : is \in SUBSET ItemId}

LEMMA ListRows ==
  ASSUME NEW list \in List
  PROVE  /\ DOMAIN list \subseteq OrderId
         /\ \A o \in DOMAIN list :
              /\ list[o] \in SomeLines
              /\ DOMAIN list[o] \subseteq ItemId
              /\ \A i \in DOMAIN list[o] : list[o][i] \in ItemStatus
<1>1. PICK os \in SUBSET OrderId : list \in [os -> SomeLines]
  BY DEF List, SomeLines
<1>2. ASSUME NEW o \in os
      PROVE  DOMAIN list[o] \subseteq ItemId /\ \A i \in DOMAIN list[o] : list[o][i] \in ItemStatus
  <2>1. PICK is \in SUBSET ItemId : list[o] \in [is -> ItemStatus]
    BY <1>1 DEF SomeLines
  <2> QED
    BY <2>1
<1> QED
  BY <1>1, <1>2

LEMMA IsList ==
  ASSUME NEW os \in SUBSET OrderId, NEW list \in [os -> SomeLines]
  PROVE  list \in List
BY DEF List, SomeLines

LEMMA NoRowsIsList ==
  NoRows \in List
<1>1. NoRows \in [{} -> SomeLines]
  BY DEF NoRows
<1> QED
  BY <1>1, IsList

\* The items of an order as the database has them.
LEMMA LinesAreRows ==
  ASSUME IInv, NEW o \in OrderId
  PROVE  Lines(o) \in SomeLines
<1>1. \A i \in ItemsOf(o) : items[i] \in ItemRow
  BY RowsExist DEF IInv, TypeOK, ItemsOf
<1>2. Lines(o) \in [ItemsOf(o) -> ItemStatus]
  BY <1>1 DEF Lines, ItemRow
<1>3. ItemsOf(o) \in SUBSET ItemId
  BY DEF ItemsOf
<1> QED
  BY <1>2, <1>3 DEF SomeLines

-----------------------------------------------------------------------------
(* A write of the server makes no list dishonest. *)

LEMMA HandedStays ==
  ASSUME GoodWrite, NEW o \in OrderId, Handed(o)
  PROVE  Handed(o)'
BY DEF GoodWrite, OrderMoves, Handed

LEMMA RealStays ==
  ASSUME GoodWrite, NEW i \in ItemId, NEW status, Real(i, status)
  PROVE  /\ items'[i] # NULL
         /\ Exists(items'[i]) /\ status # "pending" => items'[i].status # "pending"
BY DEF GoodWrite, ItemMoves, Real, Exists

LEMMA HonestStays ==
  ASSUME GoodWrite, NEW list \in List, Honest(list)
  PROVE  \A o \in DOMAIN list : Handed(o)' /\ \A i \in DOMAIN list[o] :
            /\ items'[i] # NULL
            /\ Exists(items'[i]) /\ list[o][i] # "pending" => items'[i].status # "pending"
BY ListRows, HandedStays, RealStays DEF Honest

\* A step of the server, the screens being what they were.
LEMMA ServerKeeps ==
  ASSUME BoardInv, IInv', GoodWrite, UNCHANGED <<board, fetch, crashed>>,
         asked' \in [Screen -> Worker \cup {NULL}]
  PROVE  BoardInv'
<1>1. BoardTypeOK'
  BY DEF BoardInv, BoardTypeOK
<1>2. ASSUME NEW s \in Screen
      PROVE  ScreenHonest(s)'
  <2>1. board[s] \in List /\ board'[s] = board[s] /\ fetch'[s] = fetch[s]
    BY DEF BoardInv, BoardTypeOK
  <2>2. Honest(board[s])'
    BY <2>1, HonestStays DEF BoardInv, ScreenHonest, Honest, Real
  <2>3. ASSUME fetch[s] # NULL
        PROVE  /\ Honest(fetch[s].got)'
               /\ Follows(board[s], fetch[s].got)'
               /\ fetch'[s].todo # NULL => \A o \in fetch'[s].todo : Handed(o)'
    <3>1. fetch[s] \in [todo : (SUBSET OrderId) \cup {NULL}, got : List]
      BY <2>3 DEF BoardInv, BoardTypeOK
    <3>2. Honest(fetch[s].got)'
      BY <2>1, <2>3, <3>1, HonestStays DEF BoardInv, ScreenHonest, Honest, Real
    <3>3. fetch[s].todo # NULL => \A o \in fetch[s].todo : o \in OrderId /\ Handed(o)
      <4>1. fetch[s].todo \in (SUBSET OrderId) \cup {NULL}
        BY <3>1
      <4>2. fetch[s].todo # NULL => \A o \in fetch[s].todo : Handed(o)
        BY <2>3 DEF BoardInv, ScreenHonest
      <4> QED
        BY <4>1, <4>2
    <3>4. Follows(board[s], fetch[s].got)'
      BY <2>1, <2>3 DEF BoardInv, ScreenHonest, Follows
    <3>5. \A o \in OrderId : Handed(o) => Handed(o)'
      BY HandedStays
    <3>6. fetch'[s].todo # NULL => \A o \in fetch'[s].todo : Handed(o)'
      BY <2>1, <3>3, <3>5
    <3> QED
      BY <3>2, <3>4, <3>6
  <2> QED
    BY <2>1, <2>2, <2>3 DEF ScreenHonest
<1> QED
  BY <1>1, <1>2 DEF BoardInv

-----------------------------------------------------------------------------
(* The screens *)

LEMMA SameServer ==
  ASSUME IInv, UNCHANGED vars
  PROVE  IInv' /\ GoodWrite /\ UNCHANGED <<orders, items>>
BY StutterKeeps DEF vars, db

\* One screen changes what it draws or fetches, the server does nothing.
LEMMA ScreenKeeps ==
  ASSUME BoardInv, UNCHANGED vars, NEW s \in Screen, BoardTypeOK',
         \A t \in Screen \ {s} : board'[t] = board[t] /\ fetch'[t] = fetch[t],
         ScreenHonest(s)'
  PROVE  BoardInv'
<1>1. IInv' /\ UNCHANGED <<orders, items>>
  BY SameServer DEF BoardInv
<1>2. ASSUME NEW t \in Screen \ {s}
      PROVE  ScreenHonest(t)'
  <2>1. ScreenHonest(t) /\ board'[t] = board[t] /\ fetch'[t] = fetch[t]
    BY DEF BoardInv
  <2> QED
    BY <1>1, <2>1 DEF ScreenHonest, Honest, Handed, Real, Follows
<1> QED
  BY <1>1, <1>2 DEF BoardInv

LEMMA PollKeeps ==
  ASSUME BoardInv, NEW s \in Screen, Poll(s)
  PROVE  BoardInv'
<1>1. BoardTypeOK' /\ board' = board /\ fetch'[s] = NewFetch
      /\ \A t \in Screen \ {s} : fetch'[t] = fetch[t]
  <2>1. NewFetch \in [todo : (SUBSET OrderId) \cup {NULL}, got : List]
    BY NoRowsIsList DEF NewFetch
  <2> QED
    BY <2>1 DEF BoardInv, BoardTypeOK, Poll
<1>2. Honest(board[s])'
  BY <1>1, SameServer DEF BoardInv, ScreenHonest, Poll, Honest, Handed, Real
<1>3. Honest(fetch[s].got)' /\ Follows(board[s], fetch[s].got)' /\ fetch'[s].todo = NULL
  BY <1>1 DEF NewFetch, NoRows, Honest, Follows
<1> QED
  BY <1>1, <1>2, <1>3, ScreenKeeps DEF ScreenHonest, Poll

LEMMA ListOrdersKeeps ==
  ASSUME BoardInv, NEW s \in Screen, ListOrders(s)
  PROVE  BoardInv'
<1> DEFINE sent == {o \in OrderId : orders[o] # NULL /\ orders[o].status = "sent"}
<1>1. fetch[s] \in [todo : (SUBSET OrderId) \cup {NULL}, got : List]
  BY DEF BoardInv, BoardTypeOK, ListOrders
<1>2. fetch'[s] = [todo |-> sent, got |-> fetch[s].got]
  BY <1>1 DEF ListOrders, BoardInv, BoardTypeOK
<1>3. BoardTypeOK' /\ board' = board /\ \A t \in Screen \ {s} : fetch'[t] = fetch[t]
  BY <1>1 DEF BoardInv, BoardTypeOK, ListOrders
<1>4. IInv' /\ UNCHANGED <<orders, items>>
  BY SameServer DEF BoardInv, ListOrders
<1>5. Honest(board[s])' /\ Honest(fetch[s].got)' /\ Follows(board[s], fetch[s].got)'
  BY <1>2, <1>3, <1>4 DEF BoardInv, ScreenHonest, ListOrders, Honest, Handed, Real, Follows
<1>6. \A o \in fetch'[s].todo : Handed(o)'
  BY <1>2, <1>4 DEF Handed
<1> QED
  BY <1>3, <1>5, <1>6, ScreenKeeps DEF ScreenHonest, ListOrders

\* The items of an order are read when the items drawn before have moved on.
LEMMA ListItemsKeeps ==
  ASSUME BoardInv, NEW s \in Screen, ListItems(s)
  PROVE  BoardInv'
<1>1. PICK o \in fetch[s].todo :
        fetch' = [fetch EXCEPT ![s].todo = @ \ {o},
                               ![s].got = [p \in DOMAIN @ \cup {o} |->
                                             IF p = o THEN Lines(o) ELSE @[p]]]
  BY DEF ListItems
<1> DEFINE old == fetch[s].got
           new == [p \in DOMAIN old \cup {o} |-> IF p = o THEN Lines(o) ELSE old[p]]
<1>2. /\ fetch[s] \in [todo : (SUBSET OrderId) \cup {NULL}, got : List]
      /\ fetch[s].todo \in SUBSET OrderId /\ o \in OrderId /\ Handed(o)
  <2>1. /\ fetch[s] \in [todo : (SUBSET OrderId) \cup {NULL}, got : List]
        /\ fetch[s].todo # NULL
    BY DEF BoardInv, BoardTypeOK, ListItems
  <2>2. fetch[s].todo \in SUBSET OrderId
    BY <2>1
  <2>3. \A p \in fetch[s].todo : Handed(p)
    BY <2>1 DEF BoardInv, ScreenHonest, ListItems
  <2> QED
    BY <2>1, <2>2, <2>3
<1>3. fetch'[s] = [todo |-> fetch[s].todo \ {o}, got |-> new]
  BY <1>1, <1>2 DEF BoardInv, BoardTypeOK
<1>4. new \in List
  <2>1. Lines(o) \in SomeLines
    BY <1>2, LinesAreRows DEF BoardInv
  <2>2. DOMAIN old \cup {o} \in SUBSET OrderId /\ \A p \in DOMAIN old : old[p] \in SomeLines
    BY <1>2, ListRows
  <2>3. new \in [DOMAIN old \cup {o} -> SomeLines]
    BY <2>1, <2>2
  <2> QED
    BY <2>2, <2>3, IsList
<1> HIDE DEF new
<1>5. BoardTypeOK' /\ board' = board /\ \A t \in Screen \ {s} : fetch'[t] = fetch[t]
  <2>1. fetch'[s] \in [todo : (SUBSET OrderId) \cup {NULL}, got : List]
    BY <1>2, <1>3, <1>4
  <2> QED
    BY <1>1, <2>1 DEF BoardInv, BoardTypeOK, ListItems
<1>6. UNCHANGED <<orders, items>>
  BY SameServer DEF BoardInv, ListItems
<1>7. /\ DOMAIN new = DOMAIN old \cup {o}
      /\ new[o] = [i \in ItemsOf(o) |-> items[i].status]
      /\ \A p \in DOMAIN new \ {o} : new[p] = old[p]
  BY DEF new, Lines
<1>8. Honest(old) /\ Follows(board[s], old) /\ Honest(board[s])
      /\ \A p \in fetch[s].todo : Handed(p)
  BY DEF BoardInv, ScreenHonest, ListItems
<1>9. Honest(new)
  BY <1>2, <1>7, <1>8, MarkersAreNoValues DEF Honest, Real, ItemsOf, Exists
<1>10. Follows(board[s], new)
  <2>1. ASSUME o \in DOMAIN board[s], NEW i \in DOMAIN board[s][o] \cap DOMAIN new[o],
               board[s][o][i] # "pending"
        PROVE  new[o][i] # "pending"
    BY <1>7, <1>8, <2>1 DEF Honest, Real, ItemsOf
  <2> QED
    BY <1>7, <1>8, <2>1 DEF Follows
<1>11. ScreenHonest(s)'
  BY <1>3, <1>5, <1>6, <1>8, <1>9, <1>10 DEF ScreenHonest, Honest, Handed, Real
<1> QED
  BY <1>5, <1>11, ScreenKeeps DEF ListItems

LEMMA DeliverKeeps ==
  ASSUME BoardInv, NEW s \in Screen, Deliver(s)
  PROVE  BoardInv'
<1>1. /\ fetch[s] \in [todo : (SUBSET OrderId) \cup {NULL}, got : List]
      /\ Honest(fetch[s].got)
  BY DEF BoardInv, BoardTypeOK, ScreenHonest, Deliver
<1>2. /\ board'[s] = fetch[s].got /\ fetch'[s] = NULL
      /\ \A t \in Screen \ {s} : board'[t] = board[t] /\ fetch'[t] = fetch[t]
  BY DEF BoardInv, BoardTypeOK, Deliver
<1>3. BoardTypeOK'
  BY <1>1 DEF BoardInv, BoardTypeOK, Deliver
<1>4. Honest(board[s])'
  BY <1>1, <1>2, SameServer DEF BoardInv, Deliver, Honest, Handed, Real
<1> QED
  BY <1>2, <1>3, <1>4, ScreenKeeps DEF ScreenHonest, Deliver

\* The fetch is given up, or starts anew, and the board stays.
LEMMA FetchDropped ==
  ASSUME BoardInv, UNCHANGED <<vars, board>>, NEW s \in Screen, BoardTypeOK',
         \A t \in Screen \ {s} : fetch'[t] = fetch[t],
         fetch'[s] \in {fetch[s], NULL, NewFetch}
  PROVE  BoardInv'
<1>1. UNCHANGED <<orders, items>>
  BY SameServer DEF BoardInv
<1>2. Honest(board[s])'
  BY <1>1 DEF BoardInv, ScreenHonest, Honest, Handed, Real
<1>3. CASE fetch'[s] = NULL
  BY <1>2, <1>3, ScreenKeeps DEF ScreenHonest
<1>4. CASE fetch'[s] = NewFetch
  <2>1. Honest(fetch[s].got)' /\ Follows(board[s], fetch[s].got)' /\ fetch'[s].todo = NULL
    BY <1>4 DEF NewFetch, NoRows, Honest, Follows
  <2> QED
    BY <1>2, <2>1, ScreenKeeps DEF ScreenHonest
<1>5. CASE fetch'[s] = fetch[s]
  <2>1. ScreenHonest(s)'
    BY <1>1, <1>5 DEF BoardInv, ScreenHonest, Honest, Handed, Real, Follows
  <2> QED
    BY <2>1, ScreenKeeps
<1> QED
  BY <1>3, <1>4, <1>5

LEMMA PressKeeps ==
  ASSUME BoardInv, NEW s \in Screen, Press(s)
  PROVE  BoardInv'
<1>1. PICK w \in Worker, o \in DOMAIN board[s] : \E i \in DOMAIN board[s][o] :
        CanPress(s, w, o, i) /\ UNCHANGED <<board, fetch, crashed>>
  BY DEF Press
<1>2. PICK i \in DOMAIN board[s][o] :
        CanPress(s, w, o, i) /\ UNCHANGED <<board, fetch, crashed>>
  BY <1>1
<1> DEFINE next == getNextStatus(board[s][o][i])
           r == [order |-> o, item |-> i, status |-> next]
<1>3. o \in OrderId /\ i \in ItemId
  BY ListRows DEF BoardInv, BoardTypeOK
<1>4. next \in {"preparing", "ready", NULL}
  BY DEF getNextStatus
<1>5. Receive(w, "kitchen.UpdateItemStatus", "kitchen.item", r) /\ next # NULL
      /\ asked' = [asked EXCEPT ![s] = w]
  BY <1>2 DEF CanPress
<1> HIDE DEF next
<1>6. r \in KitchenRequest
  BY <1>3, <1>4, <1>5 DEF KitchenRequest, ItemStatus
<1> HIDE DEF r
<1>7. IInv' /\ GoodWrite
  <2>1. "kitchen.item" \in First /\ r \in Request
    BY <1>6 DEF First, Request
  <2>2. RequestFits("kitchen.item", r)
    BY <1>6 DEF RequestFits, CreateLabels, AddLabels, EditLabels, RemoveLabels, StatusLabels
  <2> QED
    BY <1>5, <2>1, <2>2, ReceiveKeeps DEF BoardInv
<1>8. asked' \in [Screen -> Worker \cup {NULL}]
  BY <1>5 DEF BoardInv, BoardTypeOK
<1> QED
  BY <1>2, <1>7, <1>8, ServerKeeps

LEMMA FetchingKeeps ==
  ASSUME BoardInv, NEW s \in Screen, Fetching(s)
  PROVE  BoardInv'
BY ListOrdersKeeps, ListItemsKeeps, DeliverKeeps DEF Fetching

LEMMA FetchEndsKeeps ==
  ASSUME BoardInv, NEW s \in Screen, FetchFails(s) \/ Answered(s) \/ GiveUp(s)
  PROVE  BoardInv'
<1>1. NewFetch \in [todo : (SUBSET OrderId) \cup {NULL}, got : List]
  BY NoRowsIsList DEF NewFetch
<1>2. CASE FetchFails(s)
  BY <1>2, FetchDropped DEF FetchFails, BoardInv, BoardTypeOK
<1>3. CASE Answered(s)
  <2>1. BoardTypeOK' /\ fetch'[s] \in {fetch[s], NewFetch}
        /\ \A t \in Screen \ {s} : fetch'[t] = fetch[t]
    BY <1>1, <1>3 DEF Answered, BoardInv, BoardTypeOK
  <2> QED
    BY <1>3, <2>1, FetchDropped DEF Answered
<1>4. CASE GiveUp(s)
  BY <1>4, FetchDropped DEF GiveUp, BoardInv, BoardTypeOK
<1> QED
  BY <1>2, <1>3, <1>4

LEMMA RestartKeeps ==
  ASSUME BoardInv, NEW s \in Screen, Restart(s)
  PROVE  BoardInv'
<1>1. /\ BoardTypeOK' /\ board'[s] = NoRows /\ fetch'[s] = NULL
      /\ \A t \in Screen \ {s} : board'[t] = board[t] /\ fetch'[t] = fetch[t]
  BY NoRowsIsList DEF Restart, BoardInv, BoardTypeOK
<1>2. Honest(board[s])'
  BY <1>1 DEF NoRows, Honest
<1> QED
  BY <1>1, <1>2, ScreenKeeps DEF ScreenHonest, Restart

LEMMA ServerStepKeeps ==
  ASSUME BoardInv, NEW w \in Worker, ServerStep(w)
  PROVE  BoardInv'
<1>1. Next
  BY DEF ServerStep, Next, Arrival
<1>2. UNCHANGED <<board, fetch, asked, crashed>>
  BY DEF ServerStep, screens
<1> QED
  BY <1>1, <1>2, NextKeeps, ServerKeeps DEF BoardInv, BoardTypeOK

LEMMA BoardInvInit ==
  ASSUME BoardInit
  PROVE  BoardInv
<1>1. IInv
  BY InitIInv DEF BoardInit
<1>2. BoardTypeOK
  BY NoRowsIsList DEF BoardInit, BoardTypeOK
<1>3. \A s \in Screen : ScreenHonest(s)
  BY DEF BoardInit, ScreenHonest, Honest, NoRows
<1> QED
  BY <1>1, <1>2, <1>3 DEF BoardInv

LEMMA BoardInvStep ==
  ASSUME BoardInv, [BoardNext]_boardVars
  PROVE  BoardInv'
<1>1. ASSUME NEW s \in Screen, ScreenStep(s)
      PROVE  BoardInv'
  BY <1>1, PollKeeps, FetchingKeeps, FetchEndsKeeps, PressKeeps, RestartKeeps DEF ScreenStep
<1>2. CASE UNCHANGED boardVars
  <2>1. IInv' /\ GoodWrite
    BY <1>2, SameServer DEF boardVars, BoardInv
  <2> QED
    BY <1>2, <2>1, ServerKeeps DEF boardVars, screens, BoardInv, BoardTypeOK
<1> QED
  BY <1>1, <1>2, ServerStepKeeps DEF BoardNext

\* Only a delivery draws anything new.
LEMMA DrawnFollows ==
  ASSUME BoardInv, [BoardNext]_boardVars, NEW s \in Screen
  PROVE  board'[s] \in {board[s], NoRows} \/ Follows(board[s], board'[s])
<1>1. CASE \E t \in Screen : Deliver(t)
  <2>1. PICK t \in Screen : Deliver(t)
    BY <1>1
  <2>2. s = t => board'[s] = fetch[s].got /\ fetch[s] # NULL
    BY <2>1 DEF Deliver, BoardInv, BoardTypeOK
  <2>3. s # t => board'[s] = board[s]
    BY <2>1 DEF Deliver, BoardInv, BoardTypeOK
  <2> QED
    BY <2>2, <2>3 DEF BoardInv, ScreenHonest
<1>2. CASE \E t \in Screen : Restart(t)
  BY <1>2 DEF Restart, BoardInv, BoardTypeOK
<1>3. CASE UNCHANGED board
  BY <1>3
<1>4. UNCHANGED board \/ \E t \in Screen : Deliver(t) \/ Restart(t)
  BY DEF BoardNext, boardVars, screens, ScreenStep, Poll, Fetching, ListOrders, ListItems,
         FetchFails, Press, Answered, GiveUp, ServerStep
<1> QED
  BY <1>1, <1>2, <1>3, <1>4

-----------------------------------------------------------------------------
(* The screens and the lists on their way are honest in every behaviour.   *)
THEOREM BoardInductive == BoardSpec => []BoardInv
<1>1. BoardInit => BoardInv
  BY BoardInvInit
<1>2. BoardInv /\ [BoardNext]_boardVars => BoardInv'
  BY BoardInvStep
<1> QED
  BY <1>1, <1>2, PTL DEF BoardSpec

(* Type correctness of the screens: an order drawn has its items, each     *)
(* with a status, whatever the list was put together from.                 *)
THEOREM BoardTypeCorrect == BoardSpec => []BoardTypeOK
<1>1. BoardInv => BoardTypeOK
  BY DEF BoardInv
<1> QED
  BY <1>1, BoardInductive, PTL

(* No screen ever draws an order the waiter is still working on, for an    *)
(* order that was read as sent is not opened again before it is drawn.     *)
THEOREM OpenOrdersStayHidden == BoardSpec => []NoOpenOrderDrawn
<1>1. BoardInv => NoOpenOrderDrawn
  BY DEF BoardInv, ScreenHonest, Honest, Handed, NoOpenOrderDrawn
<1> QED
  BY <1>1, BoardInductive, PTL

(* What is drawn as started has been started, however late the list and    *)
(* whatever became of the press.                                           *)
THEOREM ProgressIsReal == BoardSpec => []DrawnProgressIsReal
<1>1. BoardInv => DrawnProgressIsReal
  BY DEF BoardInv, ScreenHonest, Honest, Real, DrawnProgressIsReal
<1> QED
  BY <1>1, BoardInductive, PTL

(* A list read in several statements, others writing in between, never     *)
(* sets a drawn item back to pending.                                      *)
THEOREM DrawnProgressStays == BoardSpec => DrawnItemsStayStarted
<1>1. BoardInv /\ [BoardNext]_boardVars =>
        [\A s \in Screen : \A o \in DOMAIN board[s] \cap DOMAIN board'[s] :
           \A i \in DOMAIN board[s][o] \cap DOMAIN board'[s][o] :
             board[s][o][i] # "pending" => board'[s][o][i] # "pending"]_boardVars
  BY DrawnFollows DEF Follows, NoRows
<1> QED
  BY <1>1, BoardInductive, PTL DEF BoardSpec, DrawnItemsStayStarted
=============================================================================
