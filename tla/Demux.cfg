\* Marks within reach of the workers: the gate closes, workers sleep at it.
CONSTANTS
  w1 = w1
  w2 = w2
  w3 = w3
  DemuxWorkers <- ThreeWorkers
  HighWaterMark = 2
  LowWaterMark = 1
  FftCap = 1
  MeasCap = 1
  MaxFrames = 3
SPECIFICATION Spec
CHECK_DEADLOCK FALSE
INVARIANTS
  LoadIsInside
  GateMatchesLoad
  SleepersHaveWaker
  StatsAccountForFrames
PROPERTIES
  WorkersComeBack
