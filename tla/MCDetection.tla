----------------------------- MODULE MCDetection -----------------------------
(* Matrices of two spikes on a level background; phases of any set of      *)
(* incoherent range bins of one kind; and every list of up to three peaks. *)
EXTENDS Detection, SequencesExt

Spiked(b, s, x, t, y) == [c \in Cells |-> IF c = s THEN x ELSE IF c = t THEN y ELSE b]

Inner == {c \in Cells : Within(c, CFARGuardCells)}

TwoSpikes ==
  {Spiked(b, s, x, t, y) : b \in {0, 20}, s \in Inner, x \in {100, 800},
                           t \in Cells, y \in {-20, 100, 800}}

LastTurned(bins) == [c \in Cells |-> IF c[1] >= DopplerBins \div 2 /\ c[2] \in bins THEN 2 * c[1] ELSE 0]

SomeTurned == {LastTurned(bins) : bins \in {{}, {2}, Columns}}

Peaks == [bin : {0, 1, 2, 3, 4, 6, 12, 13}, doppler : {1}, snr : {1, 6, 31, 156}]
SmallLists == BoundedSeq(Peaks, 3)
=============================================================================
