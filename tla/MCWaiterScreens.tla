-------------------------- MODULE MCWaiterScreens --------------------------
(* Instances of WaiterScreens for TLC.                                     *)
EXTENDS WaiterScreens

\* The requests of the waiters' screens, and the one of the other clients that
\* takes items away.  A kitchen's request only changes how far an item is.
WaiterEndpoints ==
  {"orders.Create", "orders.AddItem", "orders.DeleteItem", "orders.UpdateStatus",
   "products.Delete"}

\* What tells two states apart.  No action and no property of this instance
\* looks at wrote, nor at an answer for which no device waits.
Looked ==
  <<db, pc, req, seen, locked, told, screens, observers,
    [w \in Worker |-> IF Free(w) THEN NULL ELSE reply[w]]>>
=============================================================================
