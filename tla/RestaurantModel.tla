-------------------------- MODULE RestaurantModel --------------------------
(***************************************************************************)
(* Vocabulary of the restaurant API: the status columns of the schema, the *)
(* predicates the services decide by, and the table that turns a service   *)
(* error into an HTTP status.  Everything here is constant-level.          *)
(***************************************************************************)
EXTENDS Integers

OrderStatus == {"open", "sent", "closed", "cancelled"}
ItemStatus  == {"pending", "preparing", "ready"}
TableStatus == {"free", "occupied", "waiting", "closed"}

isValidOrderStatus(status) == status \in OrderStatus
isValidItemStatus(status)  == status \in ItemStatus
isValidTableStatus(status) == status \in TableStatus

\* Mutant: an order may be closed before it was sent.
canTransitionOrder_SkipSent(current, target) ==
  \/ current = "open" /\ target \in {"sent", "closed", "cancelled"}
  \/ current = "sent" /\ target \in {"closed", "cancelled"}

\* open -> sent | cancelled, sent -> closed | cancelled, nothing else.
canTransitionOrder(current, target) ==
  \/ current = "open" /\ target \in {"sent", "cancelled"}
  \/ current = "sent" /\ target \in {"closed", "cancelled"}

\* Mutant: an item may skip preparing.
isForwardItemTransition_SkipPreparing(current, target) ==
  \/ current = "pending"   /\ target \in {"preparing", "ready"}
  \/ current = "preparing" /\ target = "ready"

\* pending -> preparing -> ready, one step at a time.
isForwardItemTransition(current, target) ==
  \/ current = "pending"   /\ target = "preparing"
  \/ current = "preparing" /\ target = "ready"

-----------------------------------------------------------------------------
BadRequestErrors ==
  {"ErrInvalidInput", "ErrInvalidRole", "ErrInvalidTableStatus",
   "ErrInvalidProductPrice", "ErrInvalidOrderStatus", "ErrInvalidItemStatus"}

NotFoundErrors ==
  {"ErrUserNotFound", "ErrTableNotFound", "ErrProductNotFound",
   "ErrOrderNotFound", "ErrOrderItemNotFound"}

ConflictErrors ==
  {"ErrEmailAlreadyExists", "ErrTableNumberAlreadyExists",
   "ErrInvalidOrderTransition", "ErrInvalidItemTransition",
   "ErrOrderCloseRequiresReady", "ErrOrderItemsLocked", "ErrProductUnavailable"}

\* Every other error, a raw driver error such as pgx.ErrNoRows included, is
\* an internal server error.  The 2xx codes are one class, 200.
HttpStatus(err) ==
  CASE err = "nil"                   -> 200
    [] err \in BadRequestErrors      -> 400
    [] err = "ErrInvalidCredentials" -> 401
    [] err \in NotFoundErrors        -> 404
    [] err \in ConflictErrors        -> 409
    [] OTHER                         -> 500

HttpCode == {200, 400, 401, 404, 409, 500}

\* The client is told that its request was refused.
IsRefusal(code) == code \in {400, 401, 404, 409}
=============================================================================
