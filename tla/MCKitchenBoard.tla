--------------------------- MODULE MCKitchenBoard ---------------------------
(* Instances of KitchenBoard for TLC.                                      *)
EXTENDS KitchenBoard

\* What changes the kitchen's list.
BoardEndpoints ==
  {"orders.Create", "orders.AddItem", "orders.UpdateStatus", "kitchen.UpdateItemStatus"}
=============================================================================
