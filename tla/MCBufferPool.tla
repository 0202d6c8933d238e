---------------------------- MODULE MCBufferPool ----------------------------
(* The ownership protocol on a small instance.                             *)
EXTENDS BufferPool, TLC

CONSTANTS b1, b2, b3, b4, p1, p2, c1, c2

FourObjects == {b1, b2, b3, b4}
TwoProducers == {p1, p2}
TwoConsumers == {c1, c2}
PoolSymmetry ==
  Permutations(FourObjects) \cup Permutations(TwoProducers) \cup Permutations(TwoConsumers)
=============================================================================
