--------------------------- MODULE DeskRefinement ---------------------------
(***************************************************************************)
(* How the server implements the desk.  An order and the status of its     *)
(* table are two rows, written by two statements; the desk changes them at *)
(* once.  The desk's table is therefore the one the request in progress    *)
(* will have written when it is done.                                      *)
(***************************************************************************)
EXTENDS RestaurantAPI

\* The order of table t is written and its table is not.
Placing(t)  == \E w \in Worker : pc[w] = "create.occupy" /\ req[w].table = t
Changing(t) ==
  {w \in Worker : pc[w] \in {"status.active", "status.table"} /\ seen[w].table = t}

SettledTable(t) ==
  IF Placing(t) THEN "occupied"
  ELSE IF \E w \in Changing(t) : req[w].status = "sent" THEN "waiting"
  ELSE IF Changing(t) # {} /\ ~HasActiveOrdersByTable(t) THEN "free"
  ELSE tables[t]

SettledTables == [t \in TableId |-> SettledTable(t)]

Desk == INSTANCE OrderDesk WITH tables <- SettledTables,
                                FirstTables <- SeedTables,
                                FirstProducts <- SeedProducts

\* A member of staff sets the status of a table.
ByHand == \E w \in Worker : pc[w] = "table.write"

(* One request at a time, and none that fails half way, is the desk: every *)
(* statement of a request is a step of the desk or changes nothing there,  *)
(* and only staff's own request sets a table against its orders.           *)
ImplementsDesk == Desk!Init /\ [][Desk!Next \/ (ByHand /\ Desk!NextByHand)]_(Desk!db)
=============================================================================
