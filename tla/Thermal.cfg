\* A ring of two sensors; the second sensor gets the spread of +0.5.
CONSTANTS
  w1 = w1
  w2 = w2
  f1 = f1
  c1 = c1
  none = none
  Workers <- TwoWorkers
  Feeders <- OneFeeder
  Clients <- OneClient
  NoOne <- none
  RingCount = 1
  SensorsPerRing = 2
  TankDesignTempC = 80
  Temperatures <- Temps
  MaxUpdates = 2
SPECIFICATION Spec
CHECK_DEADLOCK FALSE
INVARIANTS
  ResultsAreWhole
PROPERTIES
  NeverPublishesStale
  ComputationsEnd
