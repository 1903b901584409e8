----------------------- MODULE MCOffchainEventProofs -----------------------
(* Instances of OffchainEventProofs for TLC.                               *)
EXTENDS OffchainEventProofs

CONSTANTS k1, k2, e1, e2
=============================================================================
