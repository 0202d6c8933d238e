------------------------------ MODULE Gateway ------------------------------
(***************************************************************************)
(* The gateway process: main starts the components in order, waits for a   *)
(* signal, and takes them down in the order of the data flow while data is *)
(* still moving.  The components are the instances below; they share the   *)
(* four channels, the set of cancelled contexts and the set of closed      *)
(* channels.  A demux worker or the sink inside WriteMeasurement steps     *)
(* together with the storage.                                              *)
(***************************************************************************)
EXTENDS Integers, Sequences, FiniteSets

CONSTANTS
  ListenerWorkers, FramerWorkers, FftWorkers, DemuxWorkers,
  Kinds,                                   \* kinds of datagram
  ListenAddrs, BindMayFail,                \* the listener's address
  UdpCap, FramerCap, FftCap, MeasCap,      \* channel capacities
  HighWaterMark, LowWaterMark,             \* marks of the demux's gate
  BatchSize,                               \* storage batch
  StorageOutcomes,                         \* can storage.Start succeed, fail
  MaxDatagrams, MaxReadErrors              \* bounds on the network

ASSUME GatewayAssumption ==
  /\ IsFiniteSet(ListenerWorkers) /\ IsFiniteSet(FramerWorkers)
  /\ IsFiniteSet(FftWorkers) /\ IsFiniteSet(DemuxWorkers)
  /\ MaxDatagrams \in Nat

VARIABLES
  udpCh, framerCh, fftCh, measCh,          \* the channels main makes
  lpc, lheld, lstats, llost, listenAddr, conns, offered,
  fpc, fpacket, fframe, frameNum, fstats, flost,
  ppc, pframe, pstats, plost,
  dpc, dheld, dvalid, load, paused, dstats, mpc,
  kpc, kheld, kstats,
  batchCh, batch, spc, safter, refs, wpc, seen, writeErrors, written, rows,
  accepted, failed, refused,
  at,           \* the step of Plan main is at
  storageUp,    \* storage.Start succeeded: main's pointer is not nil
  exited,       \* "no", "clean", or "forced" by a fatal error or the watchdog
  cancelled, closed

Sinker == "sink"
StoredMeasurements == [frame : 1..MaxDatagrams, valid : BOOLEAN]

L == INSTANCE Listener
F == INSTANCE Framer
P == INSTANCE Processor
D == INSTANCE Demux WITH MaxFrames <- MaxDatagrams
K == INSTANCE Sink
S == INSTANCE Storage WITH
       Callers <- DemuxWorkers \cup {Sinker}, Measurements <- StoredMeasurements,
       MaxCalls <- 2, calls <- <<>>

sockets   == <<listenAddr, conns>>
flags     == <<cancelled, closed>>
mainVars  == <<at, storageUp, exited, sockets, flags>>
listeners == <<lpc, lheld, lstats, llost, offered>>
framers   == <<fpc, fpacket, fframe, frameNum, fstats, flost>>
ffts      == <<ppc, pframe, pstats, plost>>
demuxes   == <<dpc, dheld, dvalid, load, paused, dstats>>
sinks     == <<kpc, kheld, kstats>>
stores    == <<batchCh, batch, spc, safter, refs, wpc, seen, writeErrors, written,
               rows, accepted, failed, refused>>
vars      == <<udpCh, framerCh, fftCh, measCh, listeners, framers, ffts, demuxes,
               mpc, sinks, stores, mainVars>>

-----------------------------------------------------------------------------
(* What main does, one call after the other.  The wait of a component's    *)
(* Close is a step of its own: main blocks there.                          *)
Step(op, who) == [op |-> op, who |-> who]

Startup == <<
  Step("start", "storage"), Step("start", "listener"), Step("start", "framer"),
  Step("start", "fft"), Step("start", "demux"), Step("start", "sink"),
  Step("signal", "main") >>

ShutdownStorageFirst == <<  \* mutant: the storage goes before its callers
  Step("cancel", "storage"), Step("close", "batchCh"), Step("wait", "storage"),
  Step("cancel", "listener"), Step("sockets", "listener"), Step("wait", "listener"),
  Step("close", "udpCh"),
  Step("cancel", "framer"), Step("wait", "framer"), Step("close", "framerCh"),
  Step("cancel", "fft"), Step("wait", "fft"), Step("close", "fftCh"),
  Step("cancel", "demux"), Step("wait", "demux"), Step("close", "measCh"),
  Step("cancel", "sink"), Step("wait", "sink") >>

Shutdown == <<
  Step("cancel", "listener"), Step("sockets", "listener"), Step("wait", "listener"),
  Step("close", "udpCh"),
  Step("cancel", "framer"), Step("wait", "framer"), Step("close", "framerCh"),
  Step("cancel", "fft"), Step("wait", "fft"), Step("close", "fftCh"),
  Step("cancel", "demux"), Step("wait", "demux"), Step("close", "measCh"),
  Step("cancel", "sink"), Step("wait", "sink"),
  Step("cancel", "storage"), Step("close", "batchCh"), Step("wait", "storage") >>

Plan == Startup \o Shutdown
Signalled == Len(Startup) + 1

IsAt(op, who) == exited = "no" /\ at <= Len(Plan) /\ Plan[at] = Step(op, who)
Advance == at' = at + 1

(* A component's goroutines exist once main has passed its Start.          *)
StartOf == [c \in {"storage", "listener", "framer", "fft", "demux", "sink"} |->
              CHOOSE i \in 1..Len(Startup) : Startup[i] = Step("start", c)]
Running(c) == exited = "no" /\ at > StartOf[c]

Exited(c) ==
  CASE c = "listener" -> L!ListenerExited
    [] c = "framer" -> F!FramerExited
    [] c = "fft" -> P!ProcessorExited
    [] c = "demux" -> D!DemuxExited
    [] c = "sink" -> K!SinkExited
    [] c = "storage" -> spc = "exit"

-----------------------------------------------------------------------------
(* Worker steps of the components, each with the rest of the state.        *)
ListenerStep(w) ==
  /\ exited = "no"
  /\ L!ListenerWork(w)
  /\ UNCHANGED <<framerCh, fftCh, measCh, framers, ffts, demuxes, mpc, sinks,
                 stores, mainVars>>

FramerStep(w) ==
  /\ Running("framer")
  /\ F!FramerWork(w)
  /\ UNCHANGED <<fftCh, measCh, listeners, ffts, demuxes, mpc, sinks,
                 stores, mainVars>>

FftStep(w) ==
  /\ Running("fft")
  /\ P!ProcessorWork(w)
  /\ UNCHANGED <<udpCh, measCh, listeners, framers, demuxes, mpc, sinks,
                 stores, mainVars>>

DemuxStep(w) ==
  /\ Running("demux")
  /\ D!DemuxWork(w)
  /\ UNCHANGED <<udpCh, framerCh, listeners, framers, ffts, mpc, sinks,
                 stores, mainVars>>

MonitorStep ==
  /\ Running("demux")
  /\ D!MonitorStop
  /\ UNCHANGED <<udpCh, framerCh, fftCh, measCh, listeners, framers, ffts, demuxes,
                 sinks, stores, mainVars>>

(* A caller is inside WriteMeasurement from the moment it is about to      *)
(* store; the call returns by Accept, by the cancelled context, or after   *)
(* the refusal has been counted.                                           *)
Returns(c, m) ==
  S!Accept(c, m) \/ S!RefuseCancelled(c, m) \/ S!CountRefusal(c)

DemuxStore(w) ==
  /\ Running("demux")
  /\ dpc[w] = "store"
  /\ \/ Returns(w, D!Held(w)) /\ D!DemuxStored(w)
     \/ S!RefuseFull(w, D!Held(w)) /\ UNCHANGED <<fftCh, measCh, demuxes>>
  /\ UNCHANGED <<udpCh, framerCh, listeners, framers, ffts, mpc, sinks, mainVars>>

SinkStep ==
  /\ Running("sink")
  /\ K!SinkReceive \/ K!SinkStop
  /\ UNCHANGED <<udpCh, framerCh, fftCh, listeners, framers, ffts, demuxes, mpc,
                 stores, mainVars>>

SinkStore ==
  /\ Running("sink")
  /\ kpc = "store"
  /\ \/ Returns(Sinker, kheld) /\ K!SinkStored
     \/ S!RefuseFull(Sinker, kheld) /\ UNCHANGED <<measCh, sinks>>
  /\ UNCHANGED <<udpCh, framerCh, fftCh, listeners, framers, ffts, demuxes, mpc, mainVars>>

(* batchWriter exists only if storage.Start reached its end.               *)
StorageStep ==
  /\ Running("storage")
  /\ storageUp
  /\ S!BatchWriter
  /\ UNCHANGED <<udpCh, framerCh, fftCh, measCh, listeners, framers, ffts, demuxes,
                 mpc, sinks, mainVars>>

-----------------------------------------------------------------------------
(* Steps of main.                                                          *)
components == <<udpCh, framerCh, fftCh, measCh, listeners, framers, ffts, demuxes,
                mpc, sinks, stores>>

(* storage.Start may fail: main drops its own pointer and goes on; the     *)
(* demultiplexer and the sink keep the one they were built with.           *)
StartStorage ==
  /\ IsAt("start", "storage")
  /\ \E up \in StorageOutcomes : storageUp' = up
  /\ Advance
  /\ UNCHANGED <<components, exited, sockets, flags>>

StartComponent ==
  /\ \E c \in {"listener", "framer", "fft", "demux", "sink"} : IsAt("start", c)
  /\ IsAt("start", "listener") => L!Bound /\ "listener" \notin cancelled
  /\ Advance
  /\ UNCHANGED <<components, storageUp, exited, sockets, flags>>

(* The listener's Start: the workers of the sockets already bound run      *)
(* while it binds the next.  Any error ends the process; an error of a     *)
(* bind first takes down what is running, as Close does.                   *)
StartingListener == IsAt("start", "listener") /\ "listener" \notin cancelled
RollingBack == IsAt("start", "listener") /\ "listener" \in cancelled

ListenerBind ==
  /\ StartingListener
  /\ \E w \in ListenerWorkers : L!BindSocket(w)
  /\ UNCHANGED <<framerCh, fftCh, measCh, framers, ffts, demuxes, mpc, sinks, stores,
                 at, storageUp, exited, listenAddr, flags>>

ListenerUnresolved ==
  /\ StartingListener
  /\ ~L!Resolves
  /\ exited' = "forced"
  /\ UNCHANGED <<components, at, storageUp, sockets, flags>>

ListenerBindFails ==
  /\ StartingListener
  /\ L!BindRefused
  /\ cancelled' = cancelled \cup {"listener"}
  /\ UNCHANGED <<components, at, storageUp, exited, sockets, closed>>

RollbackSockets ==
  /\ RollingBack /\ "conns" \notin closed
  /\ L!CloseConns
  /\ closed' = closed \cup {"conns"}
  /\ UNCHANGED <<components, at, storageUp, exited, listenAddr, cancelled>>

RollbackEnds ==
  /\ RollingBack /\ "conns" \in closed
  /\ L!ListenerExited
  /\ exited' = "forced"
  /\ UNCHANGED <<components, at, storageUp, sockets, flags>>

(* The transform's tables can fail to come up.                             *)
StartFails ==
  /\ IsAt("start", "fft")
  /\ exited' = "forced"
  /\ UNCHANGED <<components, at, storageUp, sockets, flags>>

Signal ==
  /\ IsAt("signal", "main")
  /\ Advance
  /\ UNCHANGED <<components, storageUp, exited, sockets, flags>>

Skipped(who) == who \in {"storage", "batchCh"} /\ ~storageUp

CancelContext ==
  \E c \in {"listener", "framer", "fft", "demux", "sink", "storage"} :
    /\ IsAt("cancel", c)
    /\ cancelled' = IF Skipped(c) THEN cancelled ELSE cancelled \cup {c}
    /\ Advance
    /\ UNCHANGED <<components, storageUp, exited, sockets, closed>>

CloseSockets ==
  /\ IsAt("sockets", "listener")
  /\ L!CloseConns
  /\ Advance
  /\ UNCHANGED <<components, storageUp, exited, listenAddr, flags>>

Wait ==
  \E c \in {"listener", "framer", "fft", "demux", "sink", "storage"} :
    /\ IsAt("wait", c)
    /\ Exited(c) \/ Skipped(c)
    /\ Advance
    /\ UNCHANGED <<components, storageUp, exited, sockets, flags>>

CloseChannel ==
  \E ch \in {"udpCh", "framerCh", "fftCh", "measCh", "batchCh"} :
    /\ IsAt("close", ch)
    /\ closed' = IF Skipped(ch) THEN closed ELSE closed \cup {ch}
    /\ Advance
    /\ UNCHANGED <<components, storageUp, exited, sockets, cancelled>>

Return ==
  /\ exited = "no"
  /\ at > Len(Plan)
  /\ exited' = "clean"
  /\ UNCHANGED <<components, at, storageUp, sockets, flags>>

(* ShutdownTimeout has passed since the signal: the watchdog exits.        *)
Watchdog ==
  /\ exited = "no"
  /\ at >= Signalled
  /\ exited' = "forced"
  /\ UNCHANGED <<components, at, storageUp, sockets, flags>>

MainStep ==
  \/ StartStorage \/ StartComponent
  \/ ListenerBind \/ ListenerUnresolved \/ ListenerBindFails
  \/ RollbackSockets \/ RollbackEnds
  \/ CancelContext \/ CloseSockets \/ Wait \/ CloseChannel \/ Return

Init ==
  /\ L!ListenerInit
  /\ F!FramerInit
  /\ P!ProcessorInit
  /\ D!DemuxInit
  /\ K!SinkInit
  /\ S!StorageInit
  /\ at = 1
  /\ storageUp = FALSE
  /\ exited = "no"
  /\ cancelled = {}
  /\ closed = {}

Next ==
  \/ \E w \in ListenerWorkers : ListenerStep(w)
  \/ \E w \in FramerWorkers : FramerStep(w)
  \/ \E w \in FftWorkers : FftStep(w)
  \/ \E w \in DemuxWorkers : DemuxStep(w) \/ DemuxStore(w)
  \/ MonitorStep
  \/ SinkStep \/ SinkStore
  \/ StorageStep
  \/ MainStep \/ StartFails \/ Signal \/ Watchdog

(* The scheduler runs every goroutine that can take a step; a blocked read *)
(* is not owed a datagram, but a closed socket does end it; the signal and *)
(* the watchdog are owed to nobody.                                        *)
Fairness ==
  /\ \A w \in ListenerWorkers : 
       WF_vars(ListenerStep(w) /\ (lpc[w] = "read" => w \notin conns))
  /\ \A w \in FramerWorkers : WF_vars(FramerStep(w))
  /\ \A w \in FftWorkers : WF_vars(FftStep(w))
  /\ \A w \in DemuxWorkers : WF_vars(DemuxStep(w) \/ DemuxStore(w))
  /\ WF_vars(MonitorStep)
  /\ WF_vars(SinkStep \/ SinkStore)
  /\ WF_vars(StorageStep)
  /\ WF_vars(MainStep)

Spec == Init /\ [][Next]_vars /\ Fairness

-----------------------------------------------------------------------------
(* Nobody can send on a closed channel, which would panic: when main has   *)
(* closed one, every goroutine that sends on it has ended.  For the        *)
(* storage's own channel the senders are the demux workers and the sink.   *)
NoSendOnClosed ==
  /\ "udpCh" \in closed => L!ListenerExited
  /\ "framerCh" \in closed => F!FramerExited
  /\ "fftCh" \in closed => P!ProcessorExited
  /\ "measCh" \in closed => D!DemuxExited
  /\ "batchCh" \in closed => D!DemuxExited /\ K!SinkExited

Where(pc, place) == Cardinality({w \in DOMAIN pc : pc[w] = place})

(* Conservation across the components, at every moment and in particular   *)
(* when the Close methods log the counters: what a stage has received is   *)
(* what it counted as dropped or bad, what it gave up uncounted, what it   *)
(* holds, what waits in the next channel, and what the next stage took.    *)
FramesAccounted ==
  /\ lstats.PacketsReceived =
       lstats.PacketsDropped + llost + Where(lpc, "send") + Len(udpCh)
       + Where(fpc, "parse") + fstats.Errors + fstats.FramesParsed
  /\ fstats.FramesParsed =
       flost + Where(fpc, "send") + Len(framerCh)
       + Where(ppc, "process") + pstats.FramesProcessed
  /\ pstats.FramesProcessed =
       pstats.DroppedFrames + plost + Where(ppc, "send") + Len(fftCh)
       + Cardinality(D!At({"gate", "asleep", "inc", "process", "release", "count"}))
       + dstats.FramesProcessed
  /\ dstats.Measurements >=
       Cardinality(D!At({"store", "send"})) + Len(measCh) + kstats.MeasurementsReceived

Occurrences(q, n) == Cardinality({i \in DOMAIN q : q[i] = n})

PlacesOf(n) ==
  Where(fframe, n) + Occurrences(framerCh, n) + Where(pframe, n)
  + Occurrences(fftCh, n) + Where(dheld, n)
  + Cardinality({i \in DOMAIN measCh : measCh[i].frame = n})
  + (IF kheld.frame = n THEN 1 ELSE 0)

(* A frame number names one frame: two framer workers never give the same  *)
(* number, and no frame is in two hands or channels at once.               *)
FrameInOnePlace ==
  \A n \in 1..MaxDatagrams : PlacesOf(n) <= (IF n <= frameNum THEN 1 ELSE 0)

(* The demultiplexer hands every measurement to the storage and the sink   *)
(* hands the valid ones again: the table and the queue together hold at    *)
(* most two copies of a valid measurement and one of an invalid one, and   *)
(* the second copy is the sink's.                                          *)
CopiesBounded ==
  \A m \in StoredMeasurements :
    Cardinality({i \in DOMAIN rows : rows[i].m = m}) + S!Holding(S!Pending, m)
      <= (IF m.valid THEN 2 ELSE 1)
         + (IF spc = "failCopy" THEN S!Holding(batch, m) ELSE 0)

(* The pipeline implements the frame flow.                                 *)
StageOf(n) ==
  CASE \E w \in FramerWorkers : fframe[w] = n -> 1
    [] \E i \in DOMAIN framerCh : framerCh[i] = n -> 2
    [] \E w \in FftWorkers : pframe[w] = n -> 3
    [] \E i \in DOMAIN fftCh : fftCh[i] = n -> 4
    [] \E w \in DemuxWorkers : dheld[w] = n -> 5
    [] \E i \in DOMAIN measCh : measCh[i].frame = n -> 6
    [] kheld.frame = n -> 7
    [] OTHER -> IF n <= frameNum THEN 8 ELSE 0

Flow == INSTANCE FrameFlow WITH
          Frames <- 1..MaxDatagrams,
          stage <- [n \in 1..MaxDatagrams |-> StageOf(n)]

ImplementsFrameFlow == Flow!FlowSpec

(* Shutdown ends without the watchdog: after the signal main comes to its  *)
(* end, whatever the pipeline holds, with workers asleep at the gate, the  *)
(* storage down, or the database refusing.                                 *)
ShutdownEnds == (at >= Signalled) ~> (exited # "no")

(* A listener that cannot bind all its sockets is taken down before its    *)
(* Start reports the error: the workers that were already running, at      *)
(* whatever point of their loop, come to their end, and with them the      *)
(* wait, and no socket stays open.                                         *)
StartRollsBack ==
  RollingBack ~> (exited = "forced" /\ L!ListenerExited /\ conns = {})

(* What configs/gateway.yaml says: the gateway listens on port 9000 of     *)
(* 0.0.0.0 with four workers.  Start never fails when nobody else holds    *)
(* the port.                                                               *)
ListenerStartsAsConfigured ==
  ~(at = StartOf["listener"] /\ (exited = "forced" \/ "listener" \in cancelled))

(* What the log says when storage.Start fails, "continuing without         *)
(* persistence": no measurement is queued for the storage.                 *)
WithoutPersistence ==
  (at > StartOf["storage"] /\ ~storageUp) => batchCh = <<>>
=============================================================================
