---------------------------- MODULE MCOrderDesk ----------------------------
(* Instances of OrderDesk for TLC.                                         *)
EXTENDS OrderDesk, TLC

Interchangeable ==
  Permutations(OrderId) \cup Permutations(ItemId)
  \cup Permutations(FirstTables) \cup Permutations(FirstProducts)
=============================================================================
