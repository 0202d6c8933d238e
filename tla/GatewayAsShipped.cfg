\* The listener's Start with the address of configs/gateway.yaml, which has no
\* port in it, and nobody else on the port.
CONSTANTS
  l1 = l1
  l2 = l2
  f1 = f1
  f2 = f2
  p1 = p1
  d1 = d1
  d2 = d2
  ListenerWorkers <- TwoListeners
  FramerWorkers <- OneFramer
  FftWorkers <- OneFft
  DemuxWorkers <- OneDemux
  ListenAddrs <- HostOnly
  BindMayFail = FALSE
  Kinds <- FramesOnly
  UdpCap = 1
  FramerCap = 1
  FftCap = 1
  MeasCap = 1
  HighWaterMark = 1
  LowWaterMark = 0
  BatchSize = 1
  StorageOutcomes <- Down
  MaxDatagrams = 1
  MaxReadErrors = 0
INIT Init
NEXT Next
CHECK_DEADLOCK FALSE
INVARIANTS
  ListenerStartsAsConfigured
