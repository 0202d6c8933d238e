----------------------------- MODULE Detection -----------------------------
(***************************************************************************)
(* DetectPeaks on one frame: the range-Doppler matrix is cleaned of values *)
(* that are not finite or negative, the coherence mask attenuates the      *)
(* range bins whose Doppler profile looks like noise, CFAR picks the cells *)
(* that outshine their surroundings, the multipath suppressor discards     *)
(* harmonics, and the subpixel solver refines what is left.                *)
(*                                                                         *)
(* A cell is <<doppler bin, range bin>>.  An amplitude is a multiple of    *)
(* 20, so that the mask's factor 0.05 is exact, and -20 stands for NaN, an *)
(* infinity or a negative value.  Phases are in quarter turns; the weights *)
(* and the threshold of the mask, the stability and an SNR in hundredths,  *)
(* the last two rounded down.                                              *)
(***************************************************************************)
EXTENDS Multipath, FiniteSetsExt

CONSTANTS
  DopplerBins, RangeBins,
  EnableCoherenceMask,
  PhaseCoherenceWeight,      \* 60 unless set
  AmplitudeStabilityWeight,  \* 40 unless set
  CoherenceMaskThreshold,    \* 35 unless set
  CFARGuardCells, CFARTrainCells, CFARThreshold,
  EnableSubPixelInterp,
  Matrices,                  \* bound: the matrices offered
  PhaseFields                \* bound: the phases offered with them

Rows == 0..(DopplerBins - 1)
Columns == 0..(RangeBins - 1)
Cells == Rows \X Columns

ASSUME DetectionAssumption ==
  /\ DopplerBins \in Nat \ {0}
  /\ RangeBins \in Nat \ {0}
  /\ EnableCoherenceMask \in BOOLEAN
  /\ EnableSubPixelInterp \in BOOLEAN
  /\ {PhaseCoherenceWeight, AmplitudeStabilityWeight, CoherenceMaskThreshold} \subseteq 1..100
  /\ {CFARGuardCells, CFARTrainCells, CFARThreshold} \subseteq Nat \ {0}
  /\ Matrices \subseteq [Cells -> Int]
  /\ \A m \in Matrices : \A c \in Cells : m[c] % 20 = 0
  /\ PhaseFields \subseteq [Cells -> Int]

VARIABLES
  stage,    \* where DetectPeaks is
  given,    \* history: the matrix it was called with
  phase,    \* the phases of RangeDoppler
  rd,       \* its copy of the matrix
  masked,   \* the range bins the mask has attenuated
  index,    \* the cell that becomes PeakDopplerIdx, PeakRangeIdx
  stats     \* the Processor.stats it adds to

detectionVars == <<stage, given, phase, rd, masked, index, stats>>
vars == <<suppressorVars, detectionVars>>

-----------------------------------------------------------------------------
(* The coherence mask.                                                     *)
Clean(m) == [c \in Cells |-> IF m[c] < 0 THEN 0 ELSE m[c]]

(* The phase step from one Doppler bin to the next, as a unit vector: the  *)
(* unwrapping of the code does not change it.                              *)
UnitStep(r, d) ==
  LET turn == (phase[<<d + 1, r>>] - phase[<<d, r>>]) % 4
  IN  CASE turn = 0 -> <<1, 0>>
        [] turn = 1 -> <<0, 1>>
        [] turn = 2 -> <<-1, 0>>
        [] turn = 3 -> <<0, -1>>

(* The square of the length of the sum of the steps; the coherence is that *)
(* length over their number.                                               *)
ResultantSquared(r) ==
  LET steps == 0..(DopplerBins - 2)
      x == SumFunction([d \in steps |-> UnitStep(r, d)[1]])
      y == SumFunction([d \in steps |-> UnitStep(r, d)[2]])
  IN  IF DopplerBins < 3 THEN 0 ELSE x * x + y * y

(* 1 / (1 + cv * cv) is the square of the mean over the mean of squares.   *)
AmplitudeStability(m, r) ==
  LET a == [d \in Rows |-> m[<<d, r>>] \div 20]
      sum == SumFunction(a)
      squares == SumFunction([d \in Rows |-> a[d] * a[d]])
  IN  IF DopplerBins < 2 \/ sum = 0 THEN 0 ELSE (100 * sum * sum) \div (DopplerBins * squares)

(* What the stability leaves for the coherence to contribute.              *)
Missing(m, r) == 100 * CoherenceMaskThreshold - AmplitudeStability(m, r) * AmplitudeStabilityWeight

IncoherentUnsteady(m, r) ==  \* mutant: an unsteady amplitude is enough
  Missing(m, r) > 0

Incoherent(m, r) ==
  LET reach == 100 * PhaseCoherenceWeight
      need == Missing(m, r) * (DopplerBins - 1)
  IN  need > 0 /\ reach * reach * ResultantSquared(r) < need * need

AttenuateNext(m, bins) ==  \* mutant: the bin after the incoherent one
  [c \in Cells |-> IF c[2] - 1 \in bins THEN m[c] \div 20 ELSE m[c]]

Attenuate(m, bins) == [c \in Cells |-> IF c[2] \in bins THEN m[c] \div 20 ELSE m[c]]

Mask ==
  /\ stage = "mask"
  /\ stage' = "cfar"
  /\ masked' = IF EnableCoherenceMask
                 THEN {r \in Columns : Incoherent(Clean(given), r)} ELSE {}
  /\ rd' = Attenuate(Clean(given), masked')
  /\ stats' = [stats EXCEPT !.MaskedGridPoints = @ + Cardinality(masked')]
  /\ UNCHANGED <<suppressorVars, given, phase, index>>

-----------------------------------------------------------------------------
(* CFAR.  The average is over the training cells, which surround the guard *)
(* cells around the cell under test and end at the edges of the matrix.    *)
InteriorShort ==  \* mutant: the scan stops one range bin early
  { c \in Cells : /\ c[1] \in CFARGuardCells..(DopplerBins - CFARGuardCells - 1)
                  /\ c[2] \in CFARGuardCells..(RangeBins - CFARGuardCells - 2) }

Interior ==
  { c \in Cells : /\ c[1] \in CFARGuardCells..(DopplerBins - CFARGuardCells - 1)
                  /\ c[2] \in CFARGuardCells..(RangeBins - CFARGuardCells - 1) }

Near(a, b, n) == Abs(a[1] - b[1]) <= n /\ Abs(a[2] - b[2]) <= n

Training == [c \in Interior |->
  { n \in Cells : Near(n, c, CFARGuardCells + CFARTrainCells) /\ ~Near(n, c, CFARGuardCells) }]

Background(m, c) == SumFunctionOnSet(m, Training[c])

Outshines(m, c) == m[c] * Cardinality(Training[c]) > CFARThreshold * Background(m, c)

(* An average of zero is raised to 1e-10, here to a value as far below the *)
(* smallest average that is not zero.                                      *)
SNR(m, c) ==
  IF Background(m, c) = 0 THEN 5000 * m[c]
  ELSE (100 * m[c] * Cardinality(Training[c])) \div Background(m, c)

Detected(m) == {c \in Interior : Training[c] # {} /\ Outshines(m, c)}

RowMajor(a, b) == a[1] < b[1] \/ (a[1] = b[1] /\ a[2] < b[2])

(* The scan goes row by row: the place of a cell in the list is the number *)
(* of detections up to it.                                                 *)
Place(c, found) == Cardinality({d \in found : d = c \/ RowMajor(d, c)})

PeaksOf(m) ==
  LET found == Detected(m)
      cell == [k \in 1..Cardinality(found) |-> CHOOSE c \in found : Place(c, found) = k]
  IN  [k \in DOMAIN cell |->
         [bin |-> cell[k][2], doppler |-> cell[k][1], snr |-> SNR(m, cell[k])]]

CFARDetect ==
  /\ stage = "cfar"
  /\ stage' = "sweep"
  /\ peaks' = PeaksOf(rd)
  /\ valid' = DOMAIN peaks'
  /\ UNCHANGED <<order, i, given, phase, rd, masked, index, stats>>

Suppress ==
  /\ stage \in {"sweep", "alone"}
  /\ Sweep
  /\ UNCHANGED detectionVars

Suppressed ==
  /\ stage = "sweep"
  /\ ~Sweeping
  /\ stage' = "solve"
  /\ stats' = [stats EXCEPT !.MultipathRejected = @ + Len(peaks) - Cardinality(valid)]
  /\ UNCHANGED <<suppressorVars, given, phase, rd, masked, index>>

-----------------------------------------------------------------------------
(* The subpixel solver.                                                    *)
At(c) == IF c \in Cells THEN rd[c] ELSE 0

GradientVanishes(c) ==
  /\ At(<<c[1] - 1, c[2]>>) = At(<<c[1] + 1, c[2]>>)
  /\ At(<<c[1], c[2] - 1>>) = At(<<c[1], c[2] + 1>>)

Within(c, n) == c[1] \in n..(DopplerBins - 1 - n) /\ c[2] \in n..(RangeBins - 1 - n)

IterableCloser(c) == Within(c, 1)  \* mutant: one border cell is enough

(* Whether the damped iteration is tried at all.                           *)
Iterable(c) == Within(c, 2)

(* The cells to which the refined position may round.  The iteration stays *)
(* within two bins and counts as converged after its last turn; a step it  *)
(* cannot solve leaves it to the interpolation, which stays within one and *)
(* leaves a peak at the border alone.  Where the gradient vanishes neither *)
(* moves.                                                                  *)
Refined(c) ==
  LET reach == IF Iterable(c) THEN 2 ELSE IF Within(c, 1) THEN 1 ELSE 0
  IN  IF ~EnableSubPixelInterp \/ GradientVanishes(c) THEN {c}
      ELSE {<<c[1] + a, c[2] + b>> : a, b \in (-reach)..reach}

CellOf(k) == <<peaks[k].doppler, peaks[k].bin>>

(* Solve for every survivor; the indexes are those of the first, be it the *)
(* strongest or not.  With the interpolation off each counts as a fallback.*)
SolvePeaks ==
  /\ stage = "solve"
  /\ stage' = "done"
  /\ IF valid = {} THEN UNCHANGED index
     ELSE index' \in Refined(CellOf(Min(valid)))
  /\ stats' = IF EnableSubPixelInterp
                THEN [stats EXCEPT !.DLSConverged = @ + Cardinality(valid)]
                ELSE [stats EXCEPT !.DLSFallback = @ + Cardinality(valid)]
  /\ UNCHANGED <<suppressorVars, given, phase, rd, masked>>

-----------------------------------------------------------------------------
Zero == [c \in Cells |-> 0]

(* DetectPeaks on a matrix, or the suppressor alone on a list of peaks.    *)
Init ==
  /\ masked = {}
  /\ index = <<0, 0>>
  /\ stats = [MaskedGridPoints |-> 0, MultipathRejected |-> 0, DLSConverged |-> 0, DLSFallback |-> 0]
  /\ \/ /\ stage = "mask"
        /\ given \in Matrices
        /\ phase \in PhaseFields
        /\ rd = given
        /\ Offered(<<>>)
     \/ /\ stage = "alone"
        /\ given = Zero
        /\ phase = Zero
        /\ rd = Zero
        /\ SuppressorInit

Next == Mask \/ CFARDetect \/ Suppress \/ Suppressed \/ SolvePeaks

Spec == Init /\ [][Next]_vars /\ WF_vars(Next)

-----------------------------------------------------------------------------
Found == {CellOf(k) : k \in DOMAIN peaks}
FromMatrix == stage \in {"sweep", "solve", "done"}

(* The mask cannot act on what processFrame makes: its RangeDoppler holds  *)
(* magnitudes, whose phases are all zero, and a steady phase alone scores  *)
(* more than the threshold.  Only a matrix with phases of its own, as the  *)
(* tests of the mask build, is ever masked.                                *)
MaskSparesMagnitudes == phase = Zero /\ DopplerBins >= 3 => masked = {}

(* Attenuating a range bin lowers the average of its neighbours too and    *)
(* may so bring out peaks that were hidden, but never in the bin itself:   *)
(* what is found there would have been found without the mask.             *)
MaskAddsOnlyOutside ==
  FromMatrix => \A c \in Found : c[2] \in masked => c \in Detected(Clean(given))

(* An echo alone in an empty matrix, away from the guard border, comes     *)
(* through all the stages as one peak at its own cell.                     *)
LoneEchoIsFound ==
  stage = "done" =>
    \A c \in Cells :
      /\ Within(c, CFARGuardCells)
      /\ given[c] > 0
      /\ \A n \in Cells \ {c} : given[n] <= 0
      => Found = {c} /\ valid = {1} /\ index = c

(* PeakDopplerIdx and PeakRangeIdx stay inside the matrix, however far the *)
(* solver has moved from the cell that was detected.                       *)
IndexInside == index \in Cells
=============================================================================
