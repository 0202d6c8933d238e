------------------------------ MODULE MCDemux ------------------------------
(* The demultiplexer with three workers, one more than its high mark.      *)
EXTENDS Demux

CONSTANTS w1, w2, w3

ThreeWorkers == {w1, w2, w3}
=============================================================================
