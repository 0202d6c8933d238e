----------------------------- MODULE MCStorage -----------------------------
(* The storage on small instances.                                         *)
EXTENDS Storage

CONSTANTS c1, c2, m1

TwoCallers == {c1, c2}
OneMeasurement == {m1}
=============================================================================
