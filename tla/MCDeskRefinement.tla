-------------------------- MODULE MCDeskRefinement --------------------------
(* Instances of DeskRefinement for TLC.                                    *)
EXTENDS DeskRefinement, MCRestaurantAPI
=============================================================================
