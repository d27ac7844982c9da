-------------------------- MODULE MCDelegateTasks --------------------------
(* DelegateTasks on two binder threads for TLC. *)
EXTENDS DelegateTasks, TLC

CONSTANTS c1, c2

MCClients == {c1, c2}

ClientSymmetry == Permutations(MCClients)
=============================================================================
