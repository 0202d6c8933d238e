\* Five Doppler by six range bins leave room for every stage: an interior for
\* CFAR and two cells where the damped iteration runs.  Three peaks: a chain of
\* two discards needs them; the SNRs are a factor of five apart or more.
CONSTANTS
  EnableMultipathSuppression = TRUE
  MultipathNullDepth = 20
  MultipathHarmonicOrder = 3
  DopplerBins = 5
  RangeBins = 6
  EnableCoherenceMask = TRUE
  PhaseCoherenceWeight = 60
  AmplitudeStabilityWeight = 40
  CoherenceMaskThreshold = 35
  CFARGuardCells = 1
  CFARTrainCells = 1
  CFARThreshold = 5
  EnableSubPixelInterp = TRUE
  Matrices <- TwoSpikes
  PhaseFields <- SomeTurned
  PeakLists <- SmallLists
SPECIFICATION Spec
CHECK_DEADLOCK FALSE
INVARIANTS
  MaskSparesMagnitudes
  MaskAddsOnlyOutside
  LoneEchoIsFound
  IndexInside
  DiscardsJustified
  SurvivorsAreSettled
