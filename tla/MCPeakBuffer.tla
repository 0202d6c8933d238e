---------------------------- MODULE MCPeakBuffer ----------------------------
(* The shared peak buffer with two workers.                                *)
EXTENDS PeakBuffer, TLC

CONSTANTS w1, w2
TwoWorkers == {w1, w2}
WorkerSymmetry == Permutations(TwoWorkers)
=============================================================================
