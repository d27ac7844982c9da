--------------------------- MODULE MCEventTimers ---------------------------
(* EventTimers for TLC: the applications are interchangeable. *)
EXTENDS EventTimers, TLC

Symmetry == Permutations(App)
=============================================================================
