--------------------------- MODULE MCTpsBenchmark ---------------------------
(***************************************************************************)
(* TLC instances of the throughput benchmark.                              *)
(***************************************************************************)
EXTENDS TpsBenchmark

ToRatio(n, d) == [num |-> n, den |-> d]

(* The factors of the benchmark's README, an increase factor that leaves a *)
(* rate of one at one, and one that takes it to zero.                      *)
MCFactors ==
  { [increase |-> ToRatio(2, 1), decrease |-> ToRatio(2, 1)],
    [increase |-> ToRatio(3, 2), decrease |-> ToRatio(5, 2)],
    [increase |-> ToRatio(1, 2), decrease |-> ToRatio(2, 1)] }
=============================================================================
