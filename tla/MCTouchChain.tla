----------------------------- MODULE MCTouchChain -----------------------------
(* TouchChain for TLC: model values, the symmetry of fingers and windows, and
   a bound: a gesture is followed until three unusual things have happened to
   it.  The properties of windows claim nothing of it long before. *)
EXTENDS TouchChain, TLC
CONSTANTS f1, f2, w1, w2
MCSymmetry == Permutations({f1, f2}) \cup Permutations({w1, w2})
FewOddities == Cardinality(odd) <= 2
=============================================================================
