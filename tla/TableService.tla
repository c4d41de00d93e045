---------------------------- MODULE TableService ----------------------------
(***************************************************************************)
(* POST /tables and PATCH /tables/:id/status, one statement each.          *)
(***************************************************************************)
EXTENDS Requests

TableLabels        == {"table.insert", "table.write"}
NewTableRequest    == [table : TableId]
TableStatusRequest == [table : TableId, status : TableStatus \cup {"unknown"}]

ReceiveNewTable(w) ==
  \E t \in TableId : Receive(w, "tables.Create", "table.insert", [table |-> t])

\* Two creations of one number race to the UNIQUE constraint.
TableInsert(w) ==
  /\ pc[w] = "table.insert"
  /\ \/ TablesCreate(req[w].table) /\ AnswerWrite(w)
     \/ /\ tables[req[w].table] # NULL
        /\ Answer(w, "ErrTableNumberAlreadyExists")
        /\ UNCHANGED db

ReceiveTableStatus(w) ==
  \E t \in TableId, target \in TableStatus \cup {"unknown"} :
    Receive(w, "tables.UpdateStatus", "table.write", [table |-> t, status |-> target])

\* Any status may follow any other, and no order is consulted.
TableStatusWrite(w) ==
  /\ pc[w] = "table.write"
  /\ \/ /\ isValidTableStatus(req[w].status)
        /\ TablesUpdateStatus(req[w].table, req[w].status)
        /\ AnswerWrite(w)
     \/ /\ ~isValidTableStatus(req[w].status)
        /\ Answer(w, "ErrInvalidTableStatus")
        /\ UNCHANGED db
     \/ /\ isValidTableStatus(req[w].status)
        /\ tables[req[w].table] = NULL
        /\ Answer(w, "ErrTableNotFound")
        /\ UNCHANGED db

TableStep(w) == TableInsert(w) \/ TableStatusWrite(w)
=============================================================================
