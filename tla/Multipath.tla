------------------------------ MODULE Multipath ------------------------------
(***************************************************************************)
(* The multipath suppressor: among the peaks of one frame it discards the  *)
(* weak ones whose range bin is a harmonic of another peak's bin.  The     *)
(* result depends on the order of the sweep, because a peak that has been  *)
(* discarded discards nothing any more.                                    *)
(*                                                                         *)
(* Of a peak the suppressor reads the range bin and the SNR, both integers *)
(* here; the constants 0.15 and MultipathNullDepth are in hundredths, so   *)
(* that the two comparisons are exact; the code's may round at equality.   *)
(***************************************************************************)
EXTENDS Integers, Sequences, FiniteSets

CONSTANTS
  EnableMultipathSuppression,
  MultipathNullDepth,      \* in hundredths; 20 unless set; the code takes more
                           \* than 100 as well, which is not considered
  MultipathHarmonicOrder,  \* 3 unless set
  PeakLists                \* bound: the peaks offered to the suppressor alone

ASSUME MultipathAssumption ==
  /\ EnableMultipathSuppression \in BOOLEAN
  /\ MultipathNullDepth \in 0..100
  /\ MultipathHarmonicOrder \in Nat \ {0, 1}
  /\ PeakLists \subseteq Seq([bin : Nat, doppler : Nat, snr : Nat])

VARIABLES
  peaks,   \* the argument: the peaks of one frame
  valid,   \* the indexes not discarded so far
  order,   \* the harmonic of the current sweep
  i        \* the peak whose harmonics are looked for next

suppressorVars == <<peaks, valid, order, i>>

Primary == IF peaks[i].bin > 1 THEN peaks[i].bin ELSE 1
Abs(x) == IF x < 0 THEN -x ELSE x

(* Whether bin j is about k times the bin of the current peak.             *)
HarmonicAbove(j, k) ==  \* mutant: the distance without its absolute value
  100 * peaks[j].bin - 100 * k * Primary < 15 * Primary

Harmonic(j, k) == Abs(100 * peaks[j].bin - 100 * k * Primary) < 15 * Primary

Dominates(a, b) == 100 * peaks[b].snr < MultipathNullDepth * peaks[a].snr

Sweeping ==
  /\ EnableMultipathSuppression
  /\ Len(peaks) >= 2
  /\ order <= MultipathHarmonicOrder

AdvanceTooFar ==  \* mutant: the last order is left out
  IF i < Len(peaks)
    THEN i' = i + 1 /\ order' = order
    ELSE /\ i' = 1
         /\ order' = IF order + 1 = MultipathHarmonicOrder THEN order + 2 ELSE order + 1

Advance ==
  IF i < Len(peaks)
    THEN i' = i + 1 /\ order' = order
    ELSE i' = 1 /\ order' = order + 1

(* One turn of the loop over i: the inner loop discards every valid        *)
(* harmonic that is weak enough.  It cannot discard i itself.              *)
Sweep ==
  /\ Sweeping
  /\ valid' = IF i \in valid
                THEN valid \ {j \in valid \ {i} : Harmonic(j, order) /\ Dominates(i, j)}
                ELSE valid
  /\ Advance
  /\ UNCHANGED peaks

(* Apply begins with the peaks of one frame, all of them valid.            *)
Offered(ps) ==
  /\ peaks = ps
  /\ valid = 1..Len(ps)
  /\ order = 2
  /\ i = 1

(* Apply alone, as its test calls it; Detection runs it after CFAR.        *)
SuppressorInit == \E ps \in PeakLists : Offered(ps)
SuppressorSpec == SuppressorInit /\ [][Sweep]_suppressorVars

-----------------------------------------------------------------------------
(* The ratio test of the code, between any two peaks.                      *)
IsHarmonicOf(b, a, k) ==
  LET p == IF peaks[a].bin > 1 THEN peaks[a].bin ELSE 1
  IN  Abs(100 * peaks[b].bin - 100 * k * p) < 15 * p

(* A peak is discarded only as a weak harmonic of another, and a survivor  *)
(* outshines it: although a peak that discards others may itself be        *)
(* discarded later, the chain ends at a peak that is kept.  In particular  *)
(* the strongest peak of a frame is never lost.                            *)
DiscardsJustified ==
  \A b \in (1..Len(peaks)) \ valid :
    /\ \E a \in 1..Len(peaks), k \in 2..MultipathHarmonicOrder :
         a # b /\ IsHarmonicOf(b, a, k) /\ Dominates(a, b)
    /\ \E a \in valid : Dominates(a, b)

(* The sweep settles in one pass: no survivor is a weak harmonic of        *)
(* another, so applying the suppressor again would change nothing.         *)
SurvivorsAreSettled ==
  ~Sweeping /\ EnableMultipathSuppression =>
    \A a, b \in valid, k \in 2..MultipathHarmonicOrder :
      a # b => ~(IsHarmonicOf(b, a, k) /\ Dominates(a, b))
=============================================================================
