------------------------------ MODULE MCThermal ------------------------------
(* The corrector with two workers, one feed and one client.                *)
EXTENDS Thermal

CONSTANTS w1, w2, f1, c1, none
TwoWorkers == {w1, w2}
OneFeeder == {f1}
OneClient == {c1}

\* 20, 149.75 and 150 degrees: the design temperature, the highest that is
\* accepted, and the lowest that is not.
Temps == {80, 599, 600}
=============================================================================
