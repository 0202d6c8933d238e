# A TLA+ model of the oil tank radar gateway

The gateway receives radar datagrams over UDP, cuts them into frames, transforms
each frame, turns the result into a level measurement and stores it in
TimescaleDB. It is a chain of goroutine pools joined by bounded channels, and its
hard part is the chain: what is shed where, what is counted, who owns a buffer,
and how main takes everything down while data is still moving. These modules
model that chain; TLC checks them on small instances, and TLAPS proves for all instances both refinements and every
invariant the runs check, of the chain and of what its stages do.

## The system

| part | code | state | operations |
|---|---|---|---|
| UDP listener | `internal/udp` | sockets, counters, context | Start: a socket and a worker at a time, rolled back on an error; a worker per socket: read, copy to a pooled frame, offer to `udpCh`; Close |
| framer | `internal/framer` | frame number, counters | workers: unpack and number a datagram, offer to `framerCh`; Close |
| FFT processor | `internal/fft/processor.go` | counters, shared peak buffer | workers: transform, offer to `fftCh`; `DetectPeaks`, called by the demultiplexer; Close |
| demultiplexer | `internal/pipeline/demux.go` | gate (load, flag, condition variable), counters | workers: pass the gate, peaks, ranging, store, offer to `measurementCh`; monitor; Close |
| sink | `internal/pipeline/demux.go` | counters | one goroutine: receive, store if valid; Close |
| storage | `internal/tsdb` | queue, batch, counters | `WriteMeasurement` by its callers; `batchWriter`: take, flush; Close |
| pools, reference counts | `pkg/pool`, `pkg/model` | `sync.Pool`s, counts | Get, Put, Ref, Unref |
| main | `cmd/gateway` | step it is at, watchdog | start in order, wait for a signal, close in order |
| signal processing | `internal/fft/robust.go`, `fft_go.go` | none but the peak buffer | coherence mask, CFAR, subpixel solver, multipath suppression |
| ranging, thermal | `internal/ranging`, `internal/thermal` | wave buffer, ring temperatures, last correction | `Calculate`, `ComputeDeformation`, updates |

The components interact through four channels made by main (`udpCh`, `framerCh`,
`fftCh` of 1000, `measurementCh` of 100), through the storage's own `batchCh`, through
pooled objects passed along with the channels, and through main, which cancels each
component's context, waits for its goroutines and only then closes the channel they
send on. Every send is a `select` with a `default`: a stage sheds rather than blocks.
Only the storage's flush (a connection from the pool, a copy) and the demultiplexer's gate block.

What makes each part correct:

- *demultiplexer*: the load equals the frames inside; the gate follows the two marks;
  nobody sleeps at it without somebody who will wake him; the counters account for
  every frame; Close returns.
- *storage*: an accepted measurement is written once, in order, or counted as failed;
  the counters never claim what did not happen; what waits is still referenced.
- *listener, framer, processor, sink*: every datagram received is accounted for at every
  stage; a frame number names one frame; a frame only moves forward.
- *pools*: one owner per object; nobody reads a recycled object.
- *main*: no send on a closed channel; shutdown ends by itself; a failed start leaves no goroutine behind.
- *framer and transform*: the samples read are the samples sent; the matrix is the transform by its definition;
  no index leaves a buffer.
- *peak detection and suppression*: a frame is measured by its own peaks; a lone echo is found; the mask adds no
  peak of its own; only weak harmonics go; the refined index stays in the matrix.
- *ranging*: the counters account for every call; the wave buffer holds the latest samples.
- *thermal corrector*: a result comes from one state of the temperature table and is never seen half
  published; the exchange of locks strands nobody.

## The modules

`Demux`, `Storage`, `BufferPool`, `Frames`, `Detection`, `PeakBuffer`, `Ranging` and `Thermal` are components with an
environment of their own. `Frames` is what `ParseFrame` of `Framer` and `TransformFrame` of `Processor` do inside, the
last four what `ProcessFrame` of `Demux` does. `Detection` extends `Multipath`, one of its stages.
`Listener`, `Framer`, `Processor` and `Sink` hold a component's actions; `Gateway` instantiates
them together with `Demux` and `Storage`, joins their channels and adds main.
`Journal` and `FrameFlow` are abstract specifications, implemented by `Storage` and
`Gateway`. `MC*` give TLC its constants; `*Proofs` hold theorems. Definitions marked
`mutant` are variants with a plausible bug; `PROJECT.json` says which property detects
which.

**Demux.** A worker's place (`dpc`) follows `Demux.worker` line by line: `select` (the receive),
`gate`/`asleep` (`WaitIfPaused`, a loop around `cond.Wait`), `inc`, `process`, `release`
(`Increment`, `processFrame`, `Decrement`), `count`, `tally` (the two sections on `d.mu`), `store`
and `send`. A critical section is one action. `Decrement` wakes all sleepers, who test the
flag again. A `select` with several ready cases may take any of them, which is why `DemuxStop`
and `DemuxReceive` are both enabled after a cancel; the `default` case only when no other is
ready. A frame is its number; the peaks and the ranging reduce to whether the measurement
is valid. `DetectPeaks` and `Calculate` return no error, so the worker's error branch has no action.

**Storage.** `batchCh` and `batch` are sequences of items; an item carries the serial number
of its acceptance (history). A flush is `acquire`, `copy` or a failure, and the counting of it.
`WriteErrors` is incremented without a lock by the callers, so each increment is a read
(`seen`) and a write; a caller's increment and `batchWriter`'s can overwrite each other. The
database is external: a connection may be refused (and is, once the context is cancelled), a
copy applies all rows or none, and a failed answer may follow an applied copy. An error of
`Acquire` returns before the `Unref` calls, an error of the copy does not: `CountFailure` keeps the
difference.

**Listener, Framer, Processor, Sink.** One action per step between two points where another
goroutine can interfere: the receive, the work with its counters, and the three cases of the
send. A datagram is what the framer will make of it: `frame`, `invalid` (too short, wrong
magic), or `incomplete`. `llost`, `flost` and `plost` are history: what the code gives up without counting.
The listener's `Start` binds one socket per worker (`unborn` until then) to the address alone, of which the model keeps
what becomes of it: `host` does not resolve, `host:port` can be bound once, `host:0` any number of times; the system may
refuse any bind. The socket options for Windows are never reached, since `runtimeIsWindows` always answers false.

**Gateway.** `at` is main's position in `Plan`, the concatenation of `Startup` and `Shutdown`. A
`Close` is its cancel, its wait and, for the listener, the closing of the sockets, each a step, so that
goroutines interleave with them. `storage.Start` may fail, and then main's pointer is nil: the last
three steps are skipped. A failed start of the listener or the transform ends the
process (after a failed bind, once the workers already running have ended), as does the watchdog at any moment after the signal. `WriteMeasurement` is one joint step of its
caller and the storage (two when a refusal is counted).

**BufferPool.** Objects with a content and a reference count, in the pool, a producer's
hand, the channel or a consumer's hands. It stands for the UDP frames, the raw frames and
the FFT results, which are handled alike: Get, fill, send or Put; receive, Unref, one last
read. The code calls Unref without Ref on these objects, so the count goes from 0 to -1, Unref
does not clear anything, and consumed objects are left to the garbage collector.
Its map names the UDP frame's code.

**FrameFlow** gives a numbered frame a stage and lets it move forward or leave, and leave only
from a worker's hand or from the last channel. **Journal** is a bounded queue that is
emptied from the front, a batch at a time, each batch whole into the log or nowhere.

**PeakBuffer.** `DetectPeaks` and the end of `Calculate`, as the demultiplexer's workers run them against the one
`p.peakBuf`. The slice header is a worker's own (`n`), the array (`buf`) is shared until an append outgrows it. The
accesses race, so every word is a step of its own: the two halves of a peak (`det`, `sub`) carry the
number of the frame they come from. Which cells are peaks, which the suppressor keeps and which is selected is open.
`met` is history: the frames whose calls overlapped, directly or through others.

**Frames.** One datagram from the framer to the range-Doppler matrix. All of it happens in one goroutine on objects it
owns, so a loop is one step; `pc` tells how far the frame came, and `panic` is an index out of range, which ends the
process (nothing recovers). Extents come from four places: the framer's configuration, the transform's, the sizes `initBufferPool`
gives the pool, and the datagram, cut to `MaxPacketSize`. A configuration is a file (`File`, 0 where a number is not set) after
`SetDefaults`, which main applies before anything is built: an unset width becomes 16 bits, an unset guard two cells, and only these
reach the framer and CFAR. Any other width than 12, 14 and 16 is taken as it is: sizes and offsets go by it, the samples are read at
16 bits (`WidthOf`). The samples are unpacked from bytes as the code does, against a radar that packs them without gaps (external). The transform is computed in the integers modulo `P`, where
roots of unity (`Twiddle`) stand for the twiddles: `TransformAssumption` says what the algorithm uses of them, and modulo `P` they are
exact. TLC takes 17 for `P`, which has the roots for up to 16 points. An even function stands for the magnitude; `Hann` is any table of
integers. `Sizes` contains the half of each of its members but 1: they are powers of two, as `Init` of the transform demands.

**Detection.** `DetectPeaks` on one frame, a stage per action: cleaning and mask, CFAR, suppression, solver. Amplitudes are
multiples of 20 so that the mask's factor is exact; phases are quarter turns, and the mask's comparison of a root with a
threshold is made on squares; of the solver the model keeps which of its methods runs and the cells its result can round to.

**Multipath.** The suppressor: one action per turn of its middle loop, exact in integers.

**Ranging.** `Calculate` with one action per critical section, and an exit for each status. Distances are micrometres,
converted and compensated as the code does. `returned`, `waves` and `counted` are history.

**Thermal.** The table of wall temperatures in quarter degrees, with the feeds' checks and the
spread of the bulk update; a computation reads it in two passes (`strain`, `volume`); the result is published in
two halves. `sync.RWMutex` is external: a waiting writer holds back new readers, and its `Unlock` lets all of them in.
The shipped gateway starts no feed, so there the table stays at the design temperature.

## The runs

| run | instance | shows |
|---|---|---|
| `Demux` | 3 workers, marks 2/1, 3 frames | `LoadIsInside`, `GateMatchesLoad`, `SleepersHaveWaker`, `StatsAccountForFrames`, `WorkersComeBack` |
| `Storage` | 2 callers, one measurement passed up to six times, batch 2, queue 4 | `AcceptedAccounted`, `RowsAtMostOnceInOrder`, `CountersHonest`, `PendingIsReferenced`, `ImplementsJournal`, `CloseLosesPending`, `AcceptedSettles` |
| `GatewayFlow` | 2 framer and 2 demux workers, marks 1/0, channels of 1, 2 datagrams of every kind, storage down | `FramesAccounted`, `FrameInOnePlace`, `ImplementsFrameFlow`, `ShutdownEnds` |
| `GatewayStore` | 2 listener workers on every form of address, one worker of each other kind, 1 datagram, storage up or down | `NoSendOnClosed`, `CopiesBounded`, `ShutdownEnds`, `StartRollsBack` |
| `GatewayNoPersistence` | storage down | violates `WithoutPersistence` (below) |
| `GatewayAsShipped` | 2 listener workers, the address of `configs/gateway.yaml` | violates `ListenerStartsAsConfigured` (below) |
| `BufferPool` | 2 producers, 2 consumers, 4 objects, channel of 2 | `OneOwner`, `ReadsWhatWasSent`, `PoolIsClean` |
| `PeakBuffer` | 2 workers, capacity 2, up to 3 peaks, 3 frames | `UndisturbedIsOwn`, `MixesOnlyOverlapping` |
| `Frames` | 0 to 4 chirps of 0 to 4 samples, 0 to 2 channels, widths of 4, 5, 12, 14 bits and unset, guard of 1 and unset, transforms of 1 to 8 points, two window types, shift on and off | `NothingToDetect`, `RowsHoldSamples`, `TransformIsReference` |
| `Detection` | matrices of 5 by 6 with two spikes, with phases and without; all lists of up to 3 peaks, 8 bins, 4 strengths | `MaskSparesMagnitudes`, `MaskAddsOnlyOutside`, `LoneEchoIsFound`, `IndexInside`, `DiscardsJustified`, `SurvivorsAreSettled` |
| `Thermal` | 2 workers, a feed, a client, a ring of 2 sensors, 2 updates | `ResultsAreWhole`, `NeverPublishesStale`, `ComputationsEnd` |
| `Ranging` | 3 workers, 3 calls, wave buffer of 2; the shipped radar (250 GHz, range from 0.5 m) and one whose range ends on a bin | `OutcomesAccounted`, `WaveHoldsLatest`, `ExtremesOfValid` |

*Bounds.* Counters are bounded only by the environment: `MaxFrames`, `MaxDatagrams`,
`MaxReadErrors`, `MaxCalls`, `MaxItems`; inputs by `Datagrams`, `Frames`, `Matrices`, `PhaseFields`, `PeakLists`. The interesting cases need few of each. Three workers and a
high mark of 2 let one worker pass the gate before it closes and overtake the mark by one, or
put the third to sleep. One datagram is stored twice, which is what `CopiesBounded` needs; the traffic of several frames is in `GatewayFlow`. Six calls against a queue of
four and a batch of two fill the queue, refuse, flush by size and by time, and leave a remainder for Close. Three frames let
one worker's two calls overlap the other's one, which passes a word on between calls that never met; a capacity of two is outgrown by three peaks. The
temperatures are the design's, the highest that is accepted (from which the spread leaves the limits) and one
beyond. Three samples go round a wave buffer of two; the second radar's range ends at a bin to the micrometre, so that the compensation moves it out. Five by six cells with a guard of one leave CFAR twelve cells, the solver's iteration two
and its interpolation ten more; two spikes let one hide the other from CFAR, and one on the border shows in the averages
only; three peaks make the chain of two discards that `DiscardsJustified` is about. Sizes up to four points run every
branch of the transform with every stride, and eight points a third pass; four samples of 12 or 14 bits visit every bit
offset. In `Frames` a pooled frame has 4 by 4 samples where the program has 128 by 256, and a datagram at most 96 bytes. Channels of one
make every `default` case reachable with two datagrams. Workers of one component are symmetric; symmetry is
used only in runs without liveness.

*Deadlock* is not checked: every instance ends, by its bounds or because the process exits. That
nobody is stuck before is what the liveness properties say.

*Fairness.* Weak fairness of each goroutine's next step: the Go scheduler is fair, a mutex and a
ready channel are eventually served, and in Go a `select` that stays ready is taken. It is
stated per goroutine, not per case of its `select`. A listener blocked in a read is
owed nothing until its socket is closed. The corrector's write lock is strongly fair: the mutex
inside `RWMutex` is handed to a waiter after a millisecond, so it cannot be overtaken for ever. The storage's fairness assumes that the database answers or reports an
error; it does not assume success. The ticker fires. Nothing is assumed of the
network, of the signal or of the watchdog, so `ShutdownEnds` holds without the watchdog's help.

*Notable results.* `InertBelowHighWater` (proved, not run): the load counts workers, not queued frames, so the
backpressure gate is inert as shipped. `CloseLosesPending`: `Close` cancels the context that the final
flush uses to acquire a connection, so the flush made on the way out always fails; what is
pending at Close is counted in `WriteErrors` or forgotten with `batchCh`. `CopiesBounded`: a
valid measurement is stored twice (by the demultiplexer and by the sink), an invalid one once, without a flag in its row.
`PoolIsClean`: pooled objects are only those that were shed.
`NothingToDetect`, for widths above four bits: the framer writes the samples of all chirps of a channel to `IFData[ch]`, a row of the pooled frame that
is one chirp wide. At a width the framer knows, a complete frame of more than one chirp therefore panics; one of a single chirp leaves
the transform a single Doppler row (the pool has `chirps` rows for it), on which CFAR has no cell to scan, as no guard is
less than one; and with the shipped sizes no datagram is complete at all, since a frame takes 65600 bytes and a datagram at most 9000. At an
unknown width fewer samples are read than are asked for, a quarter of them at four bits: four chirps of four bits fill
one row exactly, pass, and leave an interior, which is why the property begins above four bits, where they do not. The simulator's
datagrams are twenty bytes short of the header the framer expects and never get that far at 16 bits.
`MaskSparesMagnitudes`: `processFrame` fills `RangeDoppler` with magnitudes, so every phase is zero, the phases score as perfectly coherent, and
the mask never acts. `MaskAddsOnlyOutside`: where it does act, neighbours of a masked bin may appear that CFAR would not have seen
without it. `TransformIsReference` also states where the shift puts a bin: it rotates the range axis by half as well, and
nothing turns it back before the bin becomes a distance; the Doppler transform is taken of magnitudes, without phases; chirps beyond
`doppler_fft_size` (64 of the shipped 128) are left out; with several channels the rows that `DetectPeaks` reads mix channels. `MixesOnlyOverlapping`: with more than one worker, a
measurement may carry another frame's peak, or words of two frames; the property bounds which.
The configured bandwidth of 250 GHz puts the last of 256 bins at 15 cm, below the smallest valid distance of 50 cm; at 250 MHz
it would be 153 m.

*Findings.* `GatewayNoPersistence`. When `storage.Start` fails, main logs "continuing without
persistence" and sets its own variable to nil, but the demultiplexer and the sink hold
the pointer they were built with: measurements are still queued, in a channel without reader, and once it is
full each further one is an error. `GatewayAsShipped`. `configs/gateway.yaml` gives the address
`0.0.0.0`, the port 9000 and four workers. `Start` resolves the address without the port, which is an error, and main ends
the process. With the port in the address the first worker binds it and the second cannot: several workers come up only with port 0.
Not a run, but seen on the way: `TestMultipathSuppressor_HarmonicRejection` comments that the peak at one and a half times the
primary's bin is suppressed, while the suppressor looks at whole orders only; and on Linux the package `internal/udp` does not compile,
because `listener_linux.go` defines `createSocket` and `extractTimestamp` again.

## The proofs

For every value of the constants that satisfies the named assumptions (`DemuxAssumption`, `StorageAssumption`, `PoolAssumption`,
`FramesAssumption`, `MultipathAssumption`, `DetectionAssumption`, `ThermalAssumption`, `RangingAssumption`, `PeakAssumption`, and `GatewayAssumption`, which asks
only that the sets of workers are finite and `MaxDatagrams` is a number). `FramesAssumption` says of a datagram that it comes
from a radar that sends samples of the width the framer reads (at a width it does not know these are any bytes, seen as 16-bit words), or from
the simulator with the layout it writes, and of a file that its numbers are not negative. `MultipathAssumption` asks for a null depth of at most one (0.2 unless set):
the code does not reject a larger one, and nothing is said of it here. `DetectionAssumption` says that guard, training cells and threshold
are not 0, as `setDefaults` sees to, that amplitudes are
multiples of 20 (so that the mask's factor is exact) and phases whole quarter turns, of any matrix of any size. `TransformAssumption`
(of `Frames`) asks for a table of twiddles that multiply by adding exponents modulo `P`, with 1 at the beginning and -1 in the middle, and of
which the smaller tables are a selection: `exp(-2 pi i k / n)` has these properties, and modulo 257 so has a power of 3 for the
program's sizes of 256 and 64 points:

- `GatewayProofs`: `Types`, `FramesAccounted`, `FrameInOnePlace`, `NoSendOnClosed`, `ImplementsFrameFlow`, `CopiesBounded`, each of the whole
  composition. What crosses the components is counted: `Among(f, X)` is how many workers, or positions of a queue, hold a member of `X`. A step
  of one worker moves one thing, and `AmongChange` says what that does to a count; every sum of the properties is built of such counts.
  - `FramesAccounted` is then a balance (`Balanced`), inductive with the types, which also tie a worker's hands to its place: something
    is in them exactly where it works on it. A step takes a unit from one term and gives it to another.
  - `FrameInOnePlace` is inductive as `Located`: it also says that only numbers that were given are anywhere, so that the framer's next number is
    nowhere yet. Without it a fresh number could meet an old frame.
  - `NoSendOnClosed` is an induction over main's plan. The invariant (`Progress`) says that main is past the wait for a component only
    when its workers have ended, and that a channel is closed only when main is past the closing of it; `PlanOrder` says that each close stands behind the
    waits for its senders in `Plan`, and a worker that has ended stays so (`EndedStaysEnded`).
  - `ImplementsFrameFlow` uses `Located`: since a frame is in one place, `StageOf` is that place's stage (`StageIsPlace`), and
    each step moves at most one frame (`FrameMoves`), to a later stage or out, or starts the next number.
  - `CopiesBounded` needs to know where a frame still is: while it is ahead of the demultiplexer's `WriteMeasurement` there is no copy (`Fresh`), while
    it waits for the sink there is at most one, of its own validity (`Passed`), and afterwards at most two, or one if it is invalid. `Located` makes
    the place unique (`SolePlace`). The storage's writer only moves copies between queue, batch and table, or drops them (`WriterMakesNoCopy`).
- `DemuxProofs`: `TypeOK`, `LoadIsInside`, `GateMatchesLoad`, `SleepersHaveWaker`, `InertBelowHighWater`, `StatsAccountForFrames`.
  The first three are proved as one inductive invariant: that the load is the number of workers inside is
  what keeps `load - 1` a natural number in `Decrement`, and the marks' order
  is what keeps an open gate below the high mark. `SleepersHaveWaker` follows: a worker sleeps only while
  the gate is closed, a closed gate has a load above the low mark, so the set of workers inside is not
  empty; reopening sends all sleepers away. `InertBelowHighWater` is a cardinality
  argument: the workers inside are a subset of all workers. The step lemmas treat one action each; adding or
  removing one worker of `Inside` is a lemma about cardinality. `StatsAccountForFrames` is inductive once the types are
  known: a worker's step takes one unit from one term of a sum and gives it to another (`GoInto`, `GoOutOf`, `GoWithin`).
- `StorageProofs`: `TypeOK`, `AcceptedAccounted`, `PendingInOrder`, `RowsAtMostOnceInOrder`,
  `CountersHonest`, `PendingIsReferenced`, `CloseLosesPending`, `ImplementsJournal`. The invariant adds: the writer never waits in its `select` with a full batch (so that the
  batch stays within `BatchSize`); the serial of every item of the batch and of the channel is known from `accepted` and
  the two lengths; every row is older than everything pending, except between an applied copy whose answer
  was lost and the clearing of its batch (this is what makes the next copy extend the order); and what any
  goroutine last read of `WriteErrors` is within the refusals and failures so far, so that a stale write is too.
  `PendingIsReferenced` needs only the types and the fact that occurrences add up over the batch and the channel (`HoldingOfParts`, by a
  bijection): the references a flush gives back are those of the batch alone.
  `CloseLosesPending`: that the context is cancelled, no copy is under way and an item is not in the table stays so (`LostStaysLost`).
  `ImplementsJournal`: accepting a measurement maps to `Enqueue`, the outcome of a copy (or the connection refused to it)
  to `Settle`, every other step to a stutter; besides the types this needs that no flush has an empty batch (`FlushHasItems`).
- `BufferPoolProofs`: `TypeOK`, `OneOwner`, `ReadsWhatWasSent`, `PoolIsClean`, proved together with `CountsNeverPositive`:
  no count ever exceeds 0, so `Unref` cannot clear an object in use, and an object in a producer's
  hand has count 0, so that what Put returns is clean. `ReadsWhatWasSent` needs `OneOwner`: a
  refilled object would otherwise be somebody else's.
- `FftProofs`, on `Frames`: `NothingToDetect`, `RowsHoldSamples`, `TransformIsReference`.
  - `NothingToDetect` is arithmetic on extents. The copy at the end of `processFrame` fits only a matrix of as many cells as
    the pool's rows and columns have, and a matrix with an interior has at least four bins each way (`SizeAboveTwo`, the sizes being
    powers of two), so there are four chirps of four samples at least. A complete datagram has the bytes for all of them; at five bits
    each, read at 16 at most, that is more than the first row holds (`BytesOverflowRow`), so the framer would have
    panicked (`FirstRowBoundsMatrix`). What is left are frames whose rows are all zero (`UnpackedIsSilent`).
  - `RowsHoldSamples` (inductive with the origin of the datagram, `RowsInv`): every width is even and every sample begins at an even bit, so bytes and
    samples are read as digits to base four. The digits of the bytes from the one a sample begins in are digits of the
    payload (`DigitsFrom`), those of the sample are among them, and shifting, joining and masking the bytes leaves exactly
    these, with the third byte where it is needed (`SampleRead`).
  - `TransformIsReference`, for all sizes: after the pass for size `s` the block in place `q` holds the transform of every `m`-th element
    of the input, `m` being the number of blocks, from the one the reversal of `q` names (`BlocksAre`). A block is an element before the
    first pass (`FirstBlocks`); the sum for a block splits by the parity of its index into the sums for two strides of twice the
    step (`SplitSum`), which the pass before left side by side because the reversal puts the lowest bit first (`BlocksGrow`). So the
    smallest size whose blocks are wrong does not exist (`BlocksOfSize`), and after the last pass there is one block, the transform of the
    input (`TransformIsDFT`). The rest is `TransformInv`: the rows are integers, `profile` holds the spectra of the rows at the flat index
    of chirp, channel and bin (`RangeStep`), the matrix those of its bins (`DopplerStep`), and exchanging halves rotates by half a
    size (`ShiftedSpectrum`).
- `FftProofs`, on `Multipath` and `Detection`: `DiscardsJustified` and `SurvivorsAreSettled`, of the suppressor for any list of peaks and of the whole of
  `DetectPeaks`; `IndexInside`, `MaskAddsOnlyOutside`, `MaskSparesMagnitudes`, `LoneEchoIsFound`.
  - Of the sweep, the invariant says of every pair it
    has compared that no survivor is a weak harmonic of another (`Settled`); it is kept because `valid` only shrinks. A discarded peak is outshone by a
    survivor: if its dominator goes in the same or a later turn, that one's dominator takes its place, because the null depth is at most
    one (`DominatesTransitive`).
  - `DetectInv` carries the sweep's invariant through the stages and adds what the stages hand on: the copy of the matrix is the cleaned one with the
    masked bins attenuated, and a masked bin has earned it (`MatrixMasked`); the list handed to the suppressor is that of CFAR on this copy, and the
    final index is one the solver may reach from the strongest survivor (`PeaksFollow`). `PeaksOfTyped` says of the
    sorted list that it is a list of peaks, in the matrix.
  - `MaskAddsOnlyOutside`: in a masked bin the cell shrinks to a twentieth while its surroundings shrink at most to a twentieth
    (`BackgroundShrinks`), so CFAR cannot pass it for the first time.
  - `MaskSparesMagnitudes` assumes that the mask's threshold does not exceed the weight of the coherence (35 and 60 as shipped): with all phases zero
    the resultant of the steps is their number, and the score is at least the weight.
  - `LoneEchoIsFound` assumes a matrix wider than the guard window in one direction (with neither, CFAR has no surroundings to compare with).
    The echo is then the only cell that CFAR can pass, the suppressor keeps a list of one, and
    the gradient of the surface vanishes at it, so the solver stays.
  - Sums are the folds of the library, recursive over a set. What is needed of them (a term taken out, a bound, a monotone sum, a sum of one
    term, a split by parity, congruent terms) is proved from the smallest set for which it fails (`SmallestSet`), which is an induction
    without an operator as a parameter. The two recursive functions of the transform, the reversal and the passes, are shown to
    exist the same way (`ReversalExists`, `PassExists`): without that nothing is known of their values.
- `PeakBufferProofs`: `MixesOnlyOverlapping` and `UndisturbedIsOwn`, for any workers, capacity and number of peaks. The first rests on `Chain`: all
  calls at work at one time have seen the same frames, so what one of them writes into the shared array is something each of the others may
  find there; `Sound` says that a worker's slice and its local copy hold nothing else, and `Shape` that the slice stays in its array.
  Every step but `EnterDetect` is a `Deed`: it writes only such words and leaves the others' slices alone, and one lemma (`DeedKeeps`) does the rest.
  For the second, a worker that met nobody is the only one at work (`Meets`), and its own steps put its own frame in both words (`Alone`).
- `ThermalProofs`: `ResultsAreWhole` and `NeverPublishesStale`, for any workers, feeders and readers. The invariant has three
  parts. `LockInv` ties the lock's state to the places: the two passes of a computation run inside the read lock, and a
  writer in its second half meets no reader. `WholeInv` says that a result is whole once it is applied, and the published one
  too, except while a writer is between its two assignments. `FreshInv` orders the versions: the table's when a computation
  began is not newer than the one it computed from, because versions only grow and the table cannot change under the read lock.
- `RangingProofs`: `WaveHoldsLatest`, `ExtremesOfValid` and `OutcomesAccounted`, each from the types. The wave buffer is modular
  arithmetic: distances of at most one turn reach every slot once. The extremes need that they are attained (`ExtremeInv`
  says that both belong to the distances counted, which a radar with a positive minimum keeps apart from the initial 0). The counters
  are a balance, and a failed audit must leave a worker that has not audited its correction: that slack is what
  `CountInv` adds.

Only model-checked: the liveness properties (`WorkersComeBack`, `AcceptedSettles`, `ShutdownEnds`, `StartRollsBack`, `ComputationsEnd`), because
liveness under fairness is out of the prover's reach.

## Not modelled

Floating-point arithmetic and its rounding (the value of the solver's offset, the scores and confidences, the values of the windows, the deformations), SQL and schema,
configuration parsing, logging, the HTTP endpoints, kernel timestamps, the signal the simulator makes up (a
separate program; the layout of its datagrams is in `Frames`) and the C transform (its build constraint contains `ignore`). Known
simplifications: a goroutine's latency and byte counters are left out; `n <= 0` reads are a step without
effect; the retry sleep after a failed read is not timed; a pooled object whose size was changed is not put back, which
here is the same as the collector taking it.

## Plan

Done: the pipeline (listener to sink) with the listener's start, the storage's write side, main, the pools, the
framer's geometry, the transform, peak detection with its peak buffer, the suppressor, the
ranging calculator, the thermal corrector. What remains unmodelled is listed above with its reason.

Left: lemmas that the proofs of the counts share.
