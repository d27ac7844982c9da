-------------------------- MODULE MCHandlerRegistry --------------------------
(* HandlerRegistry for TLC: model values to name in the configurations. *)
EXTENDS HandlerRegistry
CONSTANTS c1, h1, h2, k, p, s1, s2, s3
=============================================================================
