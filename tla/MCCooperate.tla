---------------------------- MODULE MCCooperate ----------------------------
(* The two devices may be swapped. *)
EXTENDS Cooperate, TLC

MCSymmetry == Permutations(Devices)
============================================================================
