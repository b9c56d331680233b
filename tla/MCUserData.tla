----------------------------- MODULE MCUserData -----------------------------
(* A small instance of UserData: two calls about one person, two modules. *)
EXTENDS UserData, TLC

Symmetry == Permutations(Calls)
=============================================================================
