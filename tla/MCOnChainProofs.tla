-------------------------- MODULE MCOnChainProofs --------------------------
(* OnChainProofs with two authorities, and blocks that replace one of them *)
(* or add a third.                                                         *)
EXTENDS OnChainProofs
CONSTANTS k1, k2, k3, e1, e2
Pair == {k1, k2}
Sets == {{k2, k3}, {k1, k2, k3}}
=============================================================================
