\* A capacity of two and up to three peaks, so that slices grow, and three
\* frames, so that one worker's first two calls can overlap the other's one.
CONSTANTS
  w1 = w1
  w2 = w2
  PeakWorkers <- TwoWorkers
  BufCap = 2
  MaxPeaks = 3
  MaxPeakFrames = 3
SYMMETRY WorkerSymmetry
SPECIFICATION Spec
CHECK_DEADLOCK FALSE
INVARIANTS
  UndisturbedIsOwn
  MixesOnlyOverlapping
