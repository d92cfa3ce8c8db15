----------------------------- MODULE MCGateway -----------------------------
(* Gateway with the values of the .cfg files. *)
EXTENDS Gateway, TLC

Symmetry == Permutations(Accounts)
=============================================================================
