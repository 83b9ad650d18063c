--------------------------- MODULE MCCrossServerChat ---------------------------
(* CrossServerChat on a small instance for TLC. *)
EXTENDS CrossServerChat, TLC

\* Every message is addressed to every server.
ToAll == [m \in Messages |-> {}]

Symmetry == Permutations(Servers)
=============================================================================
