--------------------------- MODULE MCEventStream ---------------------------
(* Instances of EventStream for TLC: one node, one authority.              *)
EXTENDS EventStream, TLC

CONSTANTS n1, k1, e1, b0, b1, b2, b3

MCKeystore == n1 :> {k1}
=============================================================================
