-------------------------- MODULE MCProductsScreen --------------------------
(* Instances of ProductsScreen for TLC.                                    *)
EXTENDS ProductsScreen, TLC

\* The requests of the screen, and no others.
FormEndpoints == {"products.Create", "products.Update", "products.Delete"}

Goroutines == Permutations(Worker)
=============================================================================
