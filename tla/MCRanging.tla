------------------------------ MODULE MCRanging ------------------------------
(* The calculator on small instances.                                      *)
EXTENDS Ranging, TLC

CONSTANTS w1, w2, w3
ThreeWorkers == {w1, w2, w3}
WorkerSymmetry == Permutations(ThreeWorkers)

(* The repository's configuration, and a radar of 250 MHz, 0.599584 m per  *)
(* bin, whose range ends at bin 41 to the micrometre, so that the          *)
(* compensation moves the last bin out of it.                              *)
Shipped == [BandwidthMHz |-> 250000, MinDistance |-> 500000, MaxDistance |-> 25000000]
Edge == [BandwidthMHz |-> 250, MinDistance |-> 500000, MaxDistance |-> 24582944]
BothRadars == {Shipped, Edge}

\* With 250 MHz: below range, the two ends of it, and beyond; with 250 GHz
\* the first and the last of the 256 bins.
EdgeBins == {0, 1, 41, 42, 255}
AllTemps == {-60, -59, 20, 149}
=============================================================================
