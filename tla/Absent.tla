------------------------------- MODULE Absent -------------------------------
(***************************************************************************)
(* The marker for what is not there: SQL's missing row, Go's nil pointer,  *)
(* the undefined of the app.                                               *)
(***************************************************************************)
CONSTANT NULL
=============================================================================
