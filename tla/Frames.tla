------------------------------- MODULE Frames -------------------------------
(***************************************************************************)
(* One frame from its datagram to its range-Doppler matrix: the framer     *)
(* unpacks the samples into the rows of a pooled frame, and processFrame   *)
(* (or GoFFT.RangeDopplerFFT, which does the same) transforms each row     *)
(* over range, then each range bin over the chirps, and shifts the result. *)
(* All of it happens in one goroutine on objects it owns, so a loop is one *)
(* step; what matters are the extents, because an index beyond them is a   *)
(* panic that ends the process.                                            *)
(*                                                                         *)
(* The transform is computed in the integers modulo P, with roots of unity *)
(* for twiddles.  What the algorithm needs of exp(-2 pi i k / n) is in     *)
(* TransformAssumption, and nothing else is used of it, so it gives the    *)
(* transform there if and only if it gives it over the complex numbers.    *)
(* An even function stands for the magnitude.                              *)
(***************************************************************************)
EXTENDS Integers, FiniteSetsExt

CONSTANTS
  Files,          \* the configuration files considered
  Datagrams(_),   \* bound: the datagrams that may reach the framer
  Frames(_),      \* bound: the rows given to the transform directly
  DefaultRows,    \* 128: rows of a pooled frame when chirps_per_frame is 0
  DefaultCols,    \* 256: its columns when samples_per_chirp is 0
  MaxPacketSize,  \* a datagram is cut to this by the listener's buffer
  Sizes,          \* powers of two: Init of the transform refuses other sizes
  P,              \* the modulus
  Twiddle(_, _),  \* exp(-2 pi i k / n), as a root of unity modulo P
  Hann(_, _)      \* the window of n points, at k

(* The sections framer and fft of a configuration file: 0 where a number   *)
(* is not set.                                                             *)
File == [ hdr : Nat, bits : Nat, samples : Nat, chirps : Nat, rx : Nat, range : Nat,
          doppler : Nat, guard : Nat, hann : BOOLEAN, shift : BOOLEAN ]

OrDefault(x, default) == IF x = 0 THEN default ELSE x

(* What loadConfig makes of a file.  The extents of the frame are left     *)
(* unset: the framer then expects no sample.                               *)
SetDefaults(file) ==
  [ hdr     |-> OrDefault(file.hdr, 64),     bits   |-> OrDefault(file.bits, 16),
    range   |-> OrDefault(file.range, 256),  guard  |-> OrDefault(file.guard, 2),
    doppler |-> OrDefault(file.doppler, 64), chirps |-> file.chirps,
    samples |-> file.samples, rx |-> file.rx, hann |-> file.hann, shift |-> file.shift ]

Geometries == {SetDefaults(file) : file \in Files}

SampleCount(geo) == geo.rx * geo.chirps * geo.samples

(* The framer knows three widths and reads any other at sixteen bits; the  *)
(* sizes and offsets it computes go by the configured one all the same.    *)
WidthOf(geo) == IF geo.bits \in {12, 14} THEN geo.bits ELSE 16

(* A radar sends samples of the configured width; if the framer does not   *)
(* know it they are any bytes, given here as the words it makes of them.   *)
(* frameToBytes of the simulator sends sixteen bits, after the 24 bytes of *)
(* the fields it writes; its buffer counts 20 reserved bytes as well, and  *)
(* the framer's header is longer.                                          *)
SimulatorLength(n) == 44 + 2 * n

FromRadar(d, geo) ==
  /\ d.source = "radar"
  /\ d.sent \in [0..(SampleCount(geo) - 1) -> (-(2^(WidthOf(geo) - 1)))..(2^(WidthOf(geo) - 1) - 1)]

FromSimulator(d, geo) ==
  /\ d.source = "simulator"
  /\ geo.bits = 16 /\ geo.hdr > 44
  /\ d.length <= SimulatorLength(SampleCount(geo))

ASSUME FramesAssumption ==
  /\ Files \subseteq File
  /\ {DefaultRows, DefaultCols} \subseteq Nat \ {0}
  /\ MaxPacketSize \in Nat
  /\ \A geo \in Geometries : \A d \in Datagrams(geo) :
       /\ d.length \in 0..MaxPacketSize
       /\ FromRadar(d, geo) \/ FromSimulator(d, geo)
  /\ \A geo \in Geometries : \A rows \in Frames(geo) :
       /\ IsFiniteSet(DOMAIN rows)
       /\ rows \in [0..(Cardinality(DOMAIN rows) - 1) -> [0..(geo.samples - 1) -> Int]]

ASSUME TransformAssumption ==
  /\ P \in Nat \ {0}
  /\ Sizes \subseteq Nat \ {0}
  /\ \A n \in Sizes : n = 1 \/ (n % 2 = 0 /\ n \div 2 \in Sizes)
  /\ \A geo \in Geometries : geo.range \in Sizes /\ geo.doppler \in Sizes
  /\ \A n \in Sizes : \A k \in 0..(n - 1) : Hann(n, k) \in Int
  /\ \A n \in Sizes :
       /\ \A k \in 0..(n - 1) : Twiddle(n, k) \in Int
       /\ Twiddle(n, 0) = 1
       /\ n # 1 => Twiddle(n, n \div 2) = -1
       /\ \A j, k \in 0..(n - 1) :
            (Twiddle(n, j) * Twiddle(n, k) - Twiddle(n, (j + k) % n)) % P = 0
       /\ \A s \in Sizes : \A k \in 0..(s - 1) :
            n % s = 0 => Twiddle(n, k * (n \div s)) = Twiddle(s, k)

VARIABLES
  g,         \* the configuration
  datagram,  \* what the listener received: source, length, samples sent
  pc,        \* where the frame is
  IFData,    \* the rows of the raw frame
  profile,   \* RangeProfile, the magnitudes of the rows' transforms
  RDMatrix   \* the flat matrix of magnitudes

frameVars == <<g, datagram, pc, IFData, profile, RDMatrix>>

-----------------------------------------------------------------------------
(* Extents.                                                                *)
PoolRows == IF g.chirps = 0 THEN DefaultRows ELSE g.chirps
PoolCols == IF g.samples = 0 THEN DefaultCols ELSE g.samples
PoolSize == PoolRows * PoolCols

SamplesPerChannel == g.samples * g.chirps

(* The bytes the framer asks for, header included.                         *)
ExpectedSize == g.hdr + (SampleCount(g) * g.bits) \div 8

ChannelOffset(ch) == (ch * SamplesPerChannel * g.bits) \div 8

Width == WidthOf(g)

(* The samples extracted for a channel: as many as are asked for and fit   *)
(* in the bytes from its offset to the end of the datagram.                *)
Extracted(ch) ==
  LET fit == (8 * (datagram.length - g.hdr - ChannelOffset(ch))) \div Width
  IN  IF fit < SamplesPerChannel THEN fit ELSE SamplesPerChannel

(* The radar sends its samples in bits, lowest first, without a gap.       *)
Bit(x, k) == (x \div 2^k) % 2
SentBit(k) ==
  LET s == k \div Width
  IN  IF s \in DOMAIN datagram.sent THEN Bit(datagram.sent[s], k % Width) ELSE 0
PayloadByte(j) == SumFunction([k \in 0..7 |-> SentBit(8 * j + k) * 2^k])

-----------------------------------------------------------------------------
(* The framer.                                                             *)
SignExtended(x) == IF x >= 2^(Width - 1) THEN x - 2^Width ELSE x

SampleTwoBytes(first, k) ==  \* mutant: the third byte is forgotten
  LET byte == first + (k * Width) \div 8
      off == (k * Width) % 8
      raw == PayloadByte(byte) \div 2^off + PayloadByte(byte + 1) * 2^(8 - off)
  IN  SignExtended(raw % 2^Width)

(* Sample k from byte first: two bytes, or three when the sample reaches   *)
(* into a third, masked and sign-extended.                                 *)
Sample(first, k) ==
  LET byte == first + (k * Width) \div 8
      off == (k * Width) % 8
      raw == PayloadByte(byte) \div 2^off + PayloadByte(byte + 1) * 2^(8 - off)
             + (IF off + Width > 16 THEN PayloadByte(byte + 2) * 2^(16 - off) ELSE 0)
  IN  SignExtended(raw % 2^Width)

Malformed == datagram.length < g.hdr \/ g.hdr < 8
Incomplete == datagram.length < ExpectedSize

RowFitsAlways(ch) ==  \* mutant: a row takes the samples of every chirp
  ch < PoolRows

(* A channel is written to one row, whose width is one chirp.              *)
RowFits(ch) == ch < PoolRows /\ Extracted(ch) <= PoolCols

Unpacked ==
  [ch \in 0..(PoolRows - 1) |-> [k \in 0..(PoolCols - 1) |->
     IF ch < g.rx /\ k < Extracted(ch) THEN Sample(ChannelOffset(ch), k) ELSE 0]]

Reject ==
  /\ pc = "datagram"
  /\ Malformed \/ Incomplete
  /\ pc' = "rejected"
  /\ UNCHANGED <<g, datagram, IFData, profile, RDMatrix>>

Parse ==
  /\ pc = "datagram"
  /\ ~Malformed /\ ~Incomplete
  /\ \A ch \in 0..(g.rx - 1) : RowFits(ch)
  /\ IFData' = Unpacked
  /\ pc' = "range"
  /\ UNCHANGED <<g, datagram, profile, RDMatrix>>

ParsePanics ==
  /\ pc = "datagram"
  /\ ~Malformed /\ ~Incomplete
  /\ \E ch \in 0..(g.rx - 1) : ~RowFits(ch)
  /\ pc' = "panic"
  /\ UNCHANGED <<g, datagram, IFData, profile, RDMatrix>>

-----------------------------------------------------------------------------
(* The transform.  Unset sizes are taken from the frame: without a number  *)
(* of chirps its rows are divided among the channels, which panics when    *)
(* there are none.                                                         *)
RowCount == Cardinality(DOMAIN IFData)
NoChannels == g.chirps = 0 /\ g.rx = 0
NumChirps ==
  IF g.chirps # 0 THEN g.chirps
  ELSE IF RowCount >= g.rx THEN RowCount \div g.rx ELSE DefaultRows
NumSamples == IF g.samples # 0 THEN g.samples ELSE Cardinality(DOMAIN IFData[0])
NumChannels == IF g.rx = 0 THEN 1 ELSE g.rx

Magnitude(z) == IF 2 * z < P THEN z ELSE P - z

Window(n, k) == IF g.hann THEN Hann(n, k) ELSE 1

(* Position k is given the bits of k in reverse: the lowest of them counts *)
(* most, the rest is reversed for half the size.                           *)
BitReversed(n) ==
  LET reversed[m \in 1..n] ==
        [k \in 0..(n - 1) |->
           IF m = 1 THEN 0 ELSE (k % 2) * (m \div 2) + reversed[m \div 2][k \div 2]]
  IN  reversed[n]

ButterflyNoStride(data, n, size) ==  \* mutant: k advances by one, not by twiddleStep
  [p \in 0..(n - 1) |->
     LET half == size \div 2
         j == p % half
         even == data[p - (p % size) + j]
         odd == data[p - (p % size) + j + half] * Twiddle(n, j)
     IN  (IF p % size < half THEN even + odd ELSE even - odd) % P]

Butterfly(data, n, size) ==
  [p \in 0..(n - 1) |->
     LET half == size \div 2
         j == p % half
         even == data[p - (p % size) + j]
         odd == data[p - (p % size) + j + half] * Twiddle(n, j * (n \div size))
     IN  (IF p % size < half THEN even + odd ELSE even - odd) % P]

(* The input in bit-reversed order, then a pass for each size 2, 4, ... n. *)
FFT(x, n) ==
  LET pass[size \in 1..n] ==
        IF size = 1 THEN [k \in 0..(n - 1) |-> x[BitReversed(n)[k]]]
        ELSE Butterfly(pass[size \div 2], n, size)
  IN  pass[n]

Magnitudes(x, n) == LET y == FFT(x, n) IN [k \in 0..(n - 1) |-> Magnitude(y[k])]

(* One row, cut to the transform or padded with zeros.                     *)
RangeInput(row) ==
  [k \in 0..(g.range - 1) |->
     IF row < RowCount /\ k < NumSamples /\ k \in DOMAIN IFData[row]
       THEN (IFData[row][k] * Window(g.range, k)) % P ELSE 0]

RangeFits == ~NoChannels /\ NumChirps * NumChannels * g.range <= PoolSize

RangeTransform ==
  /\ pc = "range"
  /\ RangeFits
  /\ profile' =
       [p \in 0..(NumChirps * NumChannels * g.range - 1) |->
          LET chirp == p \div (NumChannels * g.range)
              ch == (p \div g.range) % NumChannels
          IN  Magnitudes(RangeInput(ch * NumChirps + chirp), g.range)[p % g.range]]
  /\ pc' = "doppler"
  /\ UNCHANGED <<g, datagram, IFData, RDMatrix>>

(* The chirps of one channel and range bin; those past the size are lost.  *)
DopplerInput(ch, r) ==
  [chirp \in 0..(g.doppler - 1) |->
     IF chirp < NumChirps
       THEN (profile[(chirp * NumChannels + ch) * g.range + r] * Window(g.doppler, chirp)) % P
       ELSE 0]

DopplerFits == g.doppler * NumChannels * g.range <= PoolSize

DopplerTransform ==
  /\ pc = "doppler"
  /\ DopplerFits
  /\ RDMatrix' =
       [p \in 0..(g.doppler * NumChannels * g.range - 1) |->
          Magnitudes(DopplerInput((p \div g.range) % NumChannels, p % g.range),
                     g.doppler)[p \div (NumChannels * g.range)]]
  /\ pc' = "shift"
  /\ UNCHANGED <<g, datagram, IFData, profile>>

Swapped(k, n) == IF k < n \div 2 THEN k + n \div 2 ELSE k - n \div 2

(* fftShift exchanges the halves of the first doppler rows, and of each of *)
(* them: with several channels these rows mix channels.  The copy into     *)
(* RangeDoppler, a row for each Doppler bin, ends processFrame.            *)
ShiftedFrom(p) ==
  IF g.shift /\ g.range > 1 /\ g.doppler > 1 /\ p < g.doppler * g.range
    THEN Swapped(p \div g.range, g.doppler) * g.range + Swapped(p % g.range, g.range)
    ELSE p

CopyFits == g.doppler <= PoolRows /\ g.range <= PoolCols

Shift ==
  /\ pc = "shift"
  /\ CopyFits
  /\ RDMatrix' = [p \in DOMAIN RDMatrix |-> RDMatrix[ShiftedFrom(p)]]
  /\ pc' = "done"
  /\ UNCHANGED <<g, datagram, IFData, profile>>

TransformPanics ==
  /\ \/ pc = "range" /\ ~RangeFits
     \/ pc = "doppler" /\ ~DopplerFits
     \/ pc = "shift" /\ ~CopyFits
  /\ pc' = "panic"
  /\ UNCHANGED <<g, datagram, IFData, profile, RDMatrix>>

-----------------------------------------------------------------------------
None == [source |-> "none", length |-> 0, sent |-> <<>>]

(* A datagram for the framer, or rows for the transform alone, as the      *)
(* tests of the transform give it.                                         *)
FrameInit ==
  /\ g \in Geometries
  /\ profile = <<>>
  /\ RDMatrix = <<>>
  /\ \/ pc = "datagram" /\ datagram \in Datagrams(g) /\ IFData = <<>>
     \/ pc = "range" /\ datagram = None /\ IFData \in Frames(g)

FrameNext ==
  \/ Reject \/ Parse \/ ParsePanics
  \/ RangeTransform \/ DopplerTransform \/ Shift \/ TransformPanics

FrameSpec == FrameInit /\ [][FrameNext]_frameVars

-----------------------------------------------------------------------------
Parsed == datagram # None /\ pc \in {"range", "doppler", "shift", "done"}

Scannable == g.guard < g.doppler - g.guard /\ g.guard < g.range - g.guard

(* A datagram leads to no detection, whatever else is configured, unless   *)
(* the samples are narrower than five bits.  The framer writes those of    *)
(* all the chirps to the first row, which the pool made one chirp wide.  A *)
(* frame of more chirps panics, and one of a single chirp has a matrix of  *)
(* a single Doppler bin, where CFAR has no cell to scan; otherwise no      *)
(* sample was read at all.  Four chirps of four bits, read at sixteen, do  *)
(* fit in the row and leave a matrix with an interior.                     *)
NothingToDetect ==
  (datagram # None /\ pc = "done" /\ Scannable /\ g.bits > 4) =>
    \A row \in DOMAIN IFData : \A k \in DOMAIN IFData[row] : IFData[row][k] = 0

(* What the framer reads is what the radar sent, in every width it reads,  *)
(* up to the last sample, which is lost when the bits of a frame do not    *)
(* fill a byte.  In a width it does not know these are the words it reads, *)
(* not the radar's samples.  The simulator's datagram is twenty bytes      *)
(* short of a header and is never read at sixteen bits, the width it sends.*)
RowsHoldSamples ==
  Parsed =>
    /\ datagram.source = "radar"
    /\ \A k \in DOMAIN datagram.sent :
         g.rx > 0 /\ k < SamplesPerChannel /\ 8 * (datagram.length - g.hdr) >= (k + 1) * Width
           => k \in DOMAIN IFData[0] /\ IFData[0][k] = datagram.sent[k]

-----------------------------------------------------------------------------
(* The transform by its definition.                                        *)
DFT(x, n) ==
  [k \in 0..(n - 1) |-> SumFunction([j \in 0..(n - 1) |-> x[j] * Twiddle(n, (j * k) % n)]) % P]

SpectrumOfRow(row) ==
  LET y == DFT(RangeInput(row), g.range) IN [k \in 0..(g.range - 1) |-> Magnitude(y[k])]

SpectrumOfBin(ch, r) ==
  LET x == [chirp \in 0..(g.doppler - 1) |->
              IF chirp < NumChirps
                THEN (SpectrumOfRow(ch * NumChirps + chirp)[r] * Window(g.doppler, chirp)) % P
                ELSE 0]
      y == DFT(x, g.doppler)
  IN  [k \in 0..(g.doppler - 1) |-> Magnitude(y[k])]

(* The matrix is the transform over the chirps of the rows' spectra, a row *)
(* of it for each frequency and channel, and with the shift on both axes   *)
(* are rotated by half: passes, strides, bit reversal, exchanges and flat  *)
(* indexes agree with the double sum that defines them.                    *)
TransformIsReference ==
  pc = "done" =>
    \A p \in DOMAIN RDMatrix :
      LET rotated == g.shift /\ g.range > 1 /\ g.doppler > 1 /\ p < g.doppler * g.range
          row == p \div g.range
          r == IF rotated THEN (p + g.range \div 2) % g.range ELSE p % g.range
          d == IF rotated THEN (row + g.doppler \div 2) % g.doppler ELSE row
      IN  RDMatrix[p] = SpectrumOfBin(d % NumChannels, r)[d \div NumChannels]
=============================================================================
