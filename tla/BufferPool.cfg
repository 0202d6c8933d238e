\* Two workers on each side of a channel of two, four items.
CONSTANTS
  b1 = b1
  b2 = b2
  b3 = b3
  b4 = b4
  p1 = p1
  p2 = p2
  c1 = c1
  c2 = c2
  NoObject = NoObject
  Objects <- FourObjects
  Producers <- TwoProducers
  Consumers <- TwoConsumers
  ChCap = 2
  MaxItems = 4
INIT Init
NEXT Next
CHECK_DEADLOCK FALSE
SYMMETRY PoolSymmetry
INVARIANTS
  OneOwner
  ReadsWhatWasSent
  PoolIsClean
