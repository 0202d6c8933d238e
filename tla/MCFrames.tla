------------------------------ MODULE MCFrames ------------------------------
(* Small files; a radar that repeats two samples, at the extremes or       *)
(* near zero; frames of two impulses for the transform.                    *)
EXTENDS Frames

FramerFiles ==
  [ hdr : {0, 4}, bits : {0, 4, 5, 12, 14}, samples : {0, 1, 2, 4}, chirps : {0, 1, 2, 4}, rx : 0..2,
    range : {1, 4}, doppler : {1, 4}, guard : {0, 1}, hann : {FALSE}, shift : {TRUE} ]

(* The test of the transform has no header: 8 marks its files here.        *)
TransformFiles ==
  [ hdr : {8}, bits : {0}, samples : {2, 4}, chirps : {2, 4}, rx : {1, 2},
    range : {2, 4}, doppler : {2, 4}, guard : {1}, hann : BOOLEAN, shift : BOOLEAN ]

EightPoints ==
  [ hdr : {8}, bits : {0}, samples : {8}, chirps : {2}, rx : {1},
    range : {8}, doppler : {2}, guard : {1}, hann : {FALSE}, shift : {TRUE} ]

SmallFiles == FramerFiles \cup TransformFiles \cup EightPoints

Extremes(bits) == {-(2^(bits - 1)), -1, 1, 2^(bits - 1) - 1}

Cut(length) == IF length < MaxPacketSize THEN length ELSE MaxPacketSize

Radar(geo) ==
  LET n == SampleCount(geo)
      size == (n * geo.bits) \div 8
  IN  { [ source |-> "radar", length |-> Cut(len),
          sent |-> [k \in 0..(n - 1) |-> IF k % 2 = 0 THEN a ELSE b] ] :
        a, b \in Extremes(WidthOf(geo)), len \in {geo.hdr + size - 1, geo.hdr + size} }

Simulator(geo) ==
  LET n == SampleCount(geo)
  IN  IF geo.bits # 16 THEN {}
      ELSE { [ source |-> "simulator", length |-> Cut(SimulatorLength(n)),
               sent |-> [k \in 0..(n - 1) |-> -1] ] }

SmallDatagrams(geo) ==
  IF geo.hdr = 8 THEN {} ELSE Radar(geo) \cup (IF geo.hdr = 64 THEN Simulator(geo) ELSE {})

SmallSizes == {1, 2, 4, 8}

(* 2 is of order 8 modulo 17; the roots are taken between -8 and 8.        *)
RootOfUnity(n, k) ==
  LET root == (2^((8 \div n) * k)) % 17 IN IF root > 8 THEN root - 17 ELSE root

(* Where the window is exact, scaled to integers; it is zero everywhere    *)
(* for two points.                                                         *)
ScaledHann(n, k) == IF n = 4 /\ k \in {1, 2} THEN 3 ELSE 0

(* Rows as the test of the transform gives them, one for each chirp.       *)
SmallFrames(geo) ==
  IF geo.hdr # 8 THEN {}
  ELSE LET cells == (0..(geo.chirps - 1)) \X (0..(geo.samples - 1))
       IN  { [row \in 0..(geo.chirps - 1) |->
                [k \in 0..(geo.samples - 1) |->
                   (IF <<row, k>> = c THEN 3 ELSE 0) + (IF <<row, k>> = e THEN x ELSE 0)]] :
             c, e \in cells, x \in {-1, 5} }
=============================================================================
