\* Two framers and two demux workers at a gate that closes on one frame, no
\* storage: the flow of frames, and shutdown.
CONSTANTS
  l1 = l1
  l2 = l2
  f1 = f1
  f2 = f2
  p1 = p1
  d1 = d1
  d2 = d2
  ListenerWorkers <- OneListener
  FramerWorkers <- TwoFramers
  FftWorkers <- OneFft
  DemuxWorkers <- TwoDemuxes
  ListenAddrs <- WithPort
  BindMayFail = FALSE
  Kinds <- AllKinds
  UdpCap = 1
  FramerCap = 1
  FftCap = 1
  MeasCap = 1
  HighWaterMark = 1
  LowWaterMark = 0
  BatchSize = 1
  StorageOutcomes <- Down
  MaxDatagrams = 2
  MaxReadErrors = 1
SPECIFICATION Spec
CHECK_DEADLOCK FALSE
INVARIANTS
  FramesAccounted
  FrameInOnePlace
PROPERTIES
  ImplementsFrameFlow
  ShutdownEnds
