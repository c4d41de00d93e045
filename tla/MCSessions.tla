----------------------------- MODULE MCSessions -----------------------------
(* Instances of Sessions for TLC; the constants are all in the .cfg files. *)
EXTENDS Sessions
=============================================================================
