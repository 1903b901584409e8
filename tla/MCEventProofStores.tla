------------------------ MODULE MCEventProofStores -------------------------
(* EventProofStores, in which keys are alike and so are signatures.        *)
EXTENDS EventProofStores, TLC

StoreSymmetry == Permutations(Keys) \cup Permutations(Signatures)
=============================================================================
