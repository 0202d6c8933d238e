\* Up to four chirps of four samples and two channels reach every way out of
\* the framer, and a matrix with an interior; rows of up to four by four reach
\* every pass and stride of the transform.  Larger datagrams are cut.
CONSTANTS
  Files <- SmallFiles
  Datagrams <- SmallDatagrams
  Frames <- SmallFrames
  DefaultRows = 4
  DefaultCols = 4
  MaxPacketSize = 96
  Sizes <- SmallSizes
  P = 17
  Twiddle <- RootOfUnity
  Hann <- ScaledHann
SPECIFICATION FrameSpec
CHECK_DEADLOCK FALSE
INVARIANTS
  NothingToDetect
  RowsHoldSamples
  TransformIsReference
