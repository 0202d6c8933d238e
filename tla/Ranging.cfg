\* Three samples go round a buffer of two.
CONSTANTS
  w1 = w1
  w2 = w2
  w3 = w3
  RangingWorkers <- ThreeWorkers
  Radars <- BothRadars
  WaveBufferSize = 2
  Bins <- EdgeBins
  Temps <- AllTemps
  MaxCalls = 3
SYMMETRY WorkerSymmetry
SPECIFICATION Spec
CHECK_DEADLOCK FALSE
INVARIANTS
  OutcomesAccounted
  WaveHoldsLatest
  ExtremesOfValid
