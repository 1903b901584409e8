------------------------- MODULE MCValidatedStreams -------------------------
(* Instances of ValidatedStreams for TLC.                                  *)
EXTENDS ValidatedStreams, TLC

CONSTANTS n1, n2, k1, k2, k3, k4, g, h1, h2, e1, e2

(* One AURA key per node; k3 and k4 belong to validators outside the model *)
TwoKeystores == (n1 :> {k1}) @@ (n2 :> {k2})

OneKeystore == n1 :> {k1}

(* Blocks are alike.                                                       *)
BlockSymmetry == Permutations({h1, h2})

(* Two nodes with a key each are alike, and so are two alternatives.       *)
NodeSymmetry ==
  {(n1 :> n2) @@ (n2 :> n1) @@ (k1 :> k2) @@ (k2 :> k1)} \cup Permutations({e1, e2})
=============================================================================
