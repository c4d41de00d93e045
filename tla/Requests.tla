------------------------------ MODULE Requests ------------------------------
(***************************************************************************)
(* The life of an HTTP request.  A worker is a goroutine of the HTTP       *)
(* server; it takes one request at a time and runs the handler's SQL       *)
(* statements one after the other, any statement of another worker in      *)
(* between.  pc[w] names the next statement, "idle" when there is none;    *)
(* req[w] is the parsed request, with the UUID its new row will get;       *)
(* seen[w] is the row the handler read and still holds; locked[w] are the  *)
(* items whose rows its open transaction has deleted; reply[w] is the last *)
(* HTTP status; wrote[w] says that this request changed the database.      *)
(* told is the set of orders whose id some client was given: there is no   *)
(* route that lists the open orders, so no request can name another one.   *)
(*                                                                         *)
(* Requests a handler refuses before the first statement (a malformed      *)
(* body or id) change nothing and are left out.                            *)
(***************************************************************************)
EXTENDS Repository

CONSTANTS Worker,
          Endpoint,   \* the routes the clients of this instance call
          Faults      \* may a statement fail or its answer be lost?

VARIABLES pc, req, seen, locked, reply, wrote, told

request == <<pc, req, seen, locked, reply, wrote, told>>
vars    == <<db, request>>

ASSUME FaultsIsBoolean == Faults \in BOOLEAN
ASSUME NoRowIsNoStatus == NULL \notin HttpCode

\* Handlers that insert a row keep its new id in req[w].new.
Inserting == {"create.table", "create.insert", "create.occupy", "create.reply",
              "add.order", "add.product", "add.insert", "product.insert"}

\* A random UUID is one that no row has had and no other request has drawn.
Fresh(rows) ==
  {id \in DOMAIN rows : /\ rows[id] = NULL
                        /\ \A w \in Worker : pc[w] \in Inserting => req[w].new # id}

\* What a client may name: a row, a row that is gone, or no row at all.
Named(rows) == {id \in DOMAIN rows : rows[id] # NULL} \cup Fresh(rows)
NamedOrders == told \cup Fresh(orders)

-----------------------------------------------------------------------------
Receive(w, endpoint, label, r) ==
  /\ endpoint \in Endpoint
  /\ pc[w] = "idle"
  /\ pc'    = [pc EXCEPT ![w] = label]
  /\ req'   = [req EXCEPT ![w] = r]
  /\ reply' = [reply EXCEPT ![w] = NULL]
  /\ wrote' = [wrote EXCEPT ![w] = FALSE]
  /\ UNCHANGED <<db, seen, locked, told>>

\* The handler goes on to its next statement, keeping the row it read.
Continue(w, label, row) ==
  /\ pc'   = [pc EXCEPT ![w] = label]
  /\ seen' = [seen EXCEPT ![w] = row]
  /\ UNCHANGED <<req, locked, reply, wrote, told>>

\* The statement was a write: it is committed, whatever happens next.
Wrote(w, label) ==
  /\ pc'    = [pc EXCEPT ![w] = label]
  /\ wrote' = [wrote EXCEPT ![w] = TRUE]
  /\ UNCHANGED <<req, seen, locked, reply, told>>

\* Mutant: no deferred Rollback, the rows of the transaction stay locked.
Return_NoRollback(w, err) ==
  /\ pc'    = [pc EXCEPT ![w] = "idle"]
  /\ req'   = [req EXCEPT ![w] = NULL]
  /\ seen'  = [seen EXCEPT ![w] = NULL]
  /\ reply' = [reply EXCEPT ![w] = HttpStatus(err)]
  /\ UNCHANGED locked

\* Returning ends the request and, by the deferred Rollback, its transaction.
Return(w, err) ==
  /\ pc'     = [pc EXCEPT ![w] = "idle"]
  /\ req'    = [req EXCEPT ![w] = NULL]
  /\ seen'   = [seen EXCEPT ![w] = NULL]
  /\ locked' = [locked EXCEPT ![w] = {}]
  /\ reply'  = [reply EXCEPT ![w] = HttpStatus(err)]

Answer(w, err) == Return(w, err) /\ UNCHANGED <<wrote, told>>

\* The last statement was a write.  With faults its acknowledgement may be
\* lost: the row is committed and the client is told 500.
AnswerWrite(w) ==
  /\ \E err \in {"nil"} \cup {e \in {"ErrConnectionLost"} : Faults} : Return(w, err)
  /\ wrote' = [wrote EXCEPT ![w] = TRUE]
  /\ UNCHANGED told

\* A read and the checks on it: refuse, or go on with the row.
Checked(w, err, label, row) ==
  /\ \/ err # "nil" /\ Answer(w, err)
     \/ err = "nil" /\ Continue(w, label, row)
  /\ UNCHANGED db

-----------------------------------------------------------------------------
(* A statement fails before it takes effect: the connection broke, the     *)
(* server stopped, or the client hung up and the request context was       *)
(* cancelled.  What earlier statements of the request wrote stays.         *)
StatementFails(w) ==
  /\ Faults
  /\ pc[w] # "idle"
  /\ Answer(w, "ErrConnectionLost")
  /\ UNCHANGED db

\* No open transaction has deleted the row, so a statement may write it.
Unlocked(i) == \A w \in Worker : i \notin locked[w]
=============================================================================
