--------------------------- MODULE MCUsersScreen ---------------------------
(* Instances of UsersScreen for TLC.                                       *)
EXTENDS UsersScreen, TLC

Interchangeable ==
  Permutations(Admin) \cup Permutations(Email) \cup Permutations(UserId \ SeedUsers)
=============================================================================
