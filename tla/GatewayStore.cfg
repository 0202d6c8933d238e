\* Two listener workers on every form of address, one worker of each other
\* kind, the storage up or down: one datagram to the table, and shutdown.
CONSTANTS
  l1 = l1
  l2 = l2
  f1 = f1
  f2 = f2
  p1 = p1
  d1 = d1
  d2 = d2
  ListenerWorkers <- TwoListeners
  FramerWorkers <- OneFramer
  FftWorkers <- OneFft
  DemuxWorkers <- OneDemux
  ListenAddrs <- AnyAddress
  BindMayFail = TRUE
  Kinds <- FramesOnly
  UdpCap = 1
  FramerCap = 1
  FftCap = 1
  MeasCap = 1
  HighWaterMark = 1
  LowWaterMark = 0
  BatchSize = 1
  StorageOutcomes <- UpOrDown
  MaxDatagrams = 1
  MaxReadErrors = 1
SPECIFICATION Spec
CHECK_DEADLOCK FALSE
INVARIANTS
  NoSendOnClosed
  CopiesBounded
PROPERTIES
  ShutdownEnds
  StartRollsBack
