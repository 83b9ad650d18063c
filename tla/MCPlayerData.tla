------------------------------ MODULE MCPlayerData ------------------------------
(* PlayerData on a small instance for TLC. *)
EXTENDS PlayerData, TLC

Symmetry == Permutations(Players)
=============================================================================
