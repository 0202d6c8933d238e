------------------------------- MODULE Demux -------------------------------
(***************************************************************************)
(* The pipeline demultiplexer: a pool of workers that take FFT results     *)
(* from a channel, turn each into one level measurement, hand it to the    *)
(* storage and then to the measurement channel.  A BackpressureController  *)
(* (a mutex, a condition variable, a load counter and a flag) stands       *)
(* between the receive and the processing of a frame.                      *)
(*                                                                         *)
(* Channels are bounded sequences.  A frame is its frame number; the peaks *)
(* and the ranging arithmetic are abstracted to whether the measurement is *)
(* valid.  Worker steps change only the first eight variables; the flags   *)
(* of the channels and of the contexts belong to main, which the           *)
(* environment actions at the end stand for.                               *)
(***************************************************************************)
EXTENDS Integers, Sequences, FiniteSets

CONSTANTS
  DemuxWorkers,    \* goroutines started by Start (cfg.FFT.Workers, or 4)
  HighWaterMark,   \* load at which the gate closes; 1000 in NewDemux
  LowWaterMark,    \* load at which it opens again; 500 in NewDemux
  FftCap,          \* capacity of fftCh
  MeasCap,         \* capacity of measurementCh
  MaxFrames        \* bound: frames the environment offers

ASSUME DemuxAssumption ==
  /\ IsFiniteSet(DemuxWorkers)
  /\ HighWaterMark \in Nat
  /\ LowWaterMark \in Nat
  /\ LowWaterMark < HighWaterMark
  /\ FftCap \in Nat \ {0}
  /\ MeasCap \in Nat \ {0}
  /\ MaxFrames \in Nat

VARIABLES
  fftCh,       \* FFT results waiting for a worker: a sequence of frames
  measCh,      \* measurements waiting for the sink
  dpc,         \* where each worker is
  dheld,       \* the frame each worker works on, 0 for none
  dvalid,      \* whether the measurement a worker holds is valid
  load,        \* BackpressureController.currentLoad
  paused,      \* BackpressureController.paused
  dstats,      \* Demux.stats
  mpc,         \* where the monitor goroutine is
  cancelled,   \* the components whose context has been cancelled
  closed,      \* the channels that have been closed
  offered      \* frames offered so far (environment)

demuxVars == <<fftCh, measCh, dpc, dheld, dvalid, load, paused, dstats>>
flagVars  == <<cancelled, closed>>
vars      == <<demuxVars, mpc, flagVars, offered>>

Measurement == [frame : Nat, valid : BOOLEAN]
DemuxStats == [FramesProcessed : Nat, Measurements : Nat, ValidMeasurements : Nat]

(* "gate" is about to test paused under the lock, "asleep" waits on the    *)
(* condition variable, "inc" has passed the gate and not yet counted       *)
(* itself, "process" and "release" are counted in the load.                *)
DemuxPlaces == {"select", "gate", "asleep", "inc", "process", "release",
                "count", "tally", "store", "send", "exit"}

Go(w, from, to) == dpc[w] = from /\ dpc' = [dpc EXCEPT ![w] = to]

-----------------------------------------------------------------------------
(* The select at the head of the loop: the context, or the next frame.  A  *)
(* closed channel still delivers what it holds, then reports its end.      *)
DemuxReceive(w) ==
  /\ fftCh # <<>>
  /\ Go(w, "select", "gate")
  /\ dheld' = [dheld EXCEPT ![w] = Head(fftCh)]
  /\ fftCh' = Tail(fftCh)
  /\ UNCHANGED <<measCh, dvalid, load, paused, dstats>>

DemuxStop(w) ==
  /\ \/ "demux" \in cancelled
     \/ fftCh = <<>> /\ "fftCh" \in closed
  /\ Go(w, "select", "exit")
  /\ UNCHANGED <<fftCh, measCh, dheld, dvalid, load, paused, dstats>>

(* WaitIfPaused: the loop around cond.Wait.  The context is not looked at. *)
PassGate(w) ==
  /\ ~paused
  /\ Go(w, "gate", "inc")
  /\ UNCHANGED <<fftCh, measCh, dheld, dvalid, load, paused, dstats>>

SleepAtGate(w) ==
  /\ paused
  /\ Go(w, "gate", "asleep")
  /\ UNCHANGED <<fftCh, measCh, dheld, dvalid, load, paused, dstats>>

IncrementPastMark(w) ==  \* mutant: > for >=
  /\ Go(w, "inc", "process")
  /\ load' = load + 1
  /\ paused' = (paused \/ load' > HighWaterMark)
  /\ UNCHANGED <<fftCh, measCh, dheld, dvalid, dstats>>

Increment(w) ==
  /\ Go(w, "inc", "process")
  /\ load' = load + 1
  /\ paused' = (paused \/ load' >= HighWaterMark)
  /\ UNCHANGED <<fftCh, measCh, dheld, dvalid, dstats>>

(* DetectPeaks and Calculate never return an error here; the measurement   *)
(* they make is valid or not.  The result is then released by its holder.  *)
ProcessFrameKeepsLoad(w) ==  \* mutant: a path that leaves before Decrement
  /\ Go(w, "process", "count")
  /\ \E v \in BOOLEAN : dvalid' = [dvalid EXCEPT ![w] = v]
  /\ UNCHANGED <<fftCh, measCh, dheld, load, paused, dstats>>

ProcessFrame(w) ==
  /\ Go(w, "process", "release")
  /\ \E v \in BOOLEAN : dvalid' = [dvalid EXCEPT ![w] = v]
  /\ UNCHANGED <<fftCh, measCh, dheld, load, paused, dstats>>

(* Decrement: reopening the gate broadcasts, which sends every sleeper     *)
(* back to test the flag again.                                            *)
DecrementSilent(w) ==  \* mutant: the flag is cleared and nobody is woken
  /\ Go(w, "release", "count")
  /\ load' = load - 1
  /\ paused' = (paused /\ load - 1 > LowWaterMark)
  /\ UNCHANGED <<fftCh, measCh, dheld, dvalid, dstats>>

Decrement(w) ==
  LET reopens == paused /\ load - 1 <= LowWaterMark
  IN  /\ dpc[w] = "release"
      /\ load' = load - 1
      /\ paused' = (paused /\ ~reopens)
      /\ dpc' = [v \in DemuxWorkers |->
                   CASE v = w -> "count"
                     [] v # w /\ reopens /\ dpc[v] = "asleep" -> "gate"
                     [] OTHER -> dpc[v]]
      /\ UNCHANGED <<fftCh, measCh, dheld, dvalid, dstats>>

(* The two critical sections on d.mu that count the frame and then its     *)
(* measurement.                                                            *)
CountFrame(w) ==
  /\ Go(w, "count", "tally")
  /\ dstats' = [dstats EXCEPT !.FramesProcessed = @ + 1]
  /\ UNCHANGED <<fftCh, measCh, dheld, dvalid, load, paused>>

CountMeasurementIfValid(w) ==  \* mutant: both counters under the test
  /\ Go(w, "tally", "store")
  /\ dstats' = IF dvalid[w]
                 THEN [dstats EXCEPT !.Measurements = @ + 1, !.ValidMeasurements = @ + 1]
                 ELSE dstats
  /\ UNCHANGED <<fftCh, measCh, dheld, dvalid, load, paused>>

CountMeasurement(w) ==
  /\ Go(w, "tally", "store")
  /\ dstats' = [dstats EXCEPT
                  !.Measurements = @ + 1,
                  !.ValidMeasurements = IF dvalid[w] THEN @ + 1 ELSE @]
  /\ UNCHANGED <<fftCh, measCh, dheld, dvalid, load, paused>>

(* WriteMeasurement has returned; whatever it returned is only logged.     *)
DemuxStored(w) ==
  /\ Go(w, "store", "send")
  /\ UNCHANGED <<fftCh, measCh, dheld, dvalid, load, paused, dstats>>

Held(w) == [frame |-> dheld[w], valid |-> dvalid[w]]

LetGo(w) ==
  /\ dheld' = [dheld EXCEPT ![w] = 0]
  /\ dvalid' = [dvalid EXCEPT ![w] = FALSE]

(* The three cases of the final select: the send, the context, and the     *)
(* default that skips the measurement when neither of them is ready.       *)
DemuxSend(w) ==
  /\ Len(measCh) < MeasCap
  /\ Go(w, "send", "select")
  /\ measCh' = Append(measCh, Held(w))
  /\ LetGo(w)
  /\ UNCHANGED <<fftCh, load, paused, dstats>>

DemuxAbandon(w) ==
  /\ "demux" \in cancelled
  /\ Go(w, "send", "exit")
  /\ LetGo(w)
  /\ UNCHANGED <<fftCh, measCh, load, paused, dstats>>

DemuxSkip(w) ==
  /\ Len(measCh) >= MeasCap
  /\ "demux" \notin cancelled
  /\ Go(w, "send", "select")
  /\ LetGo(w)
  /\ UNCHANGED <<fftCh, measCh, load, paused, dstats>>

DemuxWork(w) ==
  \/ DemuxReceive(w) \/ DemuxStop(w)
  \/ PassGate(w) \/ SleepAtGate(w) \/ Increment(w)
  \/ ProcessFrame(w) \/ Decrement(w)
  \/ CountFrame(w) \/ CountMeasurement(w)
  \/ DemuxSend(w) \/ DemuxAbandon(w) \/ DemuxSkip(w)

(* The monitor only reads between its start and its end.                   *)
MonitorStop ==
  /\ mpc = "select"
  /\ "demux" \in cancelled
  /\ mpc' = "exit"

DemuxExited == mpc = "exit" /\ \A w \in DemuxWorkers : dpc[w] = "exit"

-----------------------------------------------------------------------------
(* The environment: the FFT processor, the sink and main.                  *)
Offer ==
  /\ offered < MaxFrames
  /\ "fftCh" \notin closed
  /\ Len(fftCh) < FftCap
  /\ fftCh' = Append(fftCh, offered + 1)
  /\ offered' = offered + 1
  /\ UNCHANGED <<measCh, dpc, dheld, dvalid, load, paused, dstats, mpc, flagVars>>

TakeMeasurement ==
  /\ measCh # <<>>
  /\ measCh' = Tail(measCh)
  /\ UNCHANGED <<fftCh, dpc, dheld, dvalid, load, paused, dstats, mpc, flagVars, offered>>

CloseInput ==
  /\ "fftCh" \notin closed
  /\ closed' = closed \cup {"fftCh"}
  /\ UNCHANGED <<demuxVars, mpc, cancelled, offered>>

CancelDemux ==
  /\ "fftCh" \in closed
  /\ "demux" \notin cancelled
  /\ cancelled' = cancelled \cup {"demux"}
  /\ UNCHANGED <<demuxVars, mpc, closed, offered>>

DemuxInit ==
  /\ fftCh = <<>>
  /\ measCh = <<>>
  /\ dpc = [w \in DemuxWorkers |-> "select"]
  /\ dheld = [w \in DemuxWorkers |-> 0]
  /\ dvalid = [w \in DemuxWorkers |-> FALSE]
  /\ load = 0
  /\ paused = FALSE
  /\ dstats = [FramesProcessed |-> 0, Measurements |-> 0, ValidMeasurements |-> 0]
  /\ mpc = "select"

Init ==
  /\ DemuxInit
  /\ cancelled = {}
  /\ closed = {}
  /\ offered = 0

WorkerStep(w) ==
  /\ DemuxWork(w) \/ DemuxStored(w)
  /\ UNCHANGED <<mpc, flagVars, offered>>

MonitorStep == MonitorStop /\ UNCHANGED <<demuxVars, flagVars, offered>>

Next ==
  \/ \E w \in DemuxWorkers : WorkerStep(w)
  \/ MonitorStep
  \/ Offer \/ TakeMeasurement \/ CloseInput \/ CancelDemux

(* Every goroutine that can take a step eventually does.  Nothing is asked *)
(* of the environment.                                                     *)
Fairness ==
  /\ \A w \in DemuxWorkers : WF_vars(WorkerStep(w))
  /\ WF_vars(MonitorStep)

Spec == Init /\ [][Next]_vars /\ Fairness

-----------------------------------------------------------------------------
TypeOK ==
  /\ fftCh \in Seq(Nat)
  /\ measCh \in Seq(Measurement)
  /\ dpc \in [DemuxWorkers -> DemuxPlaces]
  /\ dheld \in [DemuxWorkers -> Nat]
  /\ dvalid \in [DemuxWorkers -> BOOLEAN]
  /\ load \in Nat
  /\ paused \in BOOLEAN
  /\ dstats \in DemuxStats
  /\ mpc \in {"select", "exit"}
  /\ cancelled \subseteq {"demux"}
  /\ closed \subseteq {"fftCh"}
  /\ offered \in Nat
  /\ Len(fftCh) <= FftCap
  /\ Len(measCh) <= MeasCap

At(places) == {w \in DemuxWorkers : dpc[w] \in places}

(* Workers counted in the load: past Increment and before Decrement.       *)
Inside == At({"process", "release"})

(* currentLoad is exactly the number of workers between Increment and      *)
(* Decrement, so every path out of the gate gives back what it took and    *)
(* the load is never negative.                                             *)
LoadIsInside == load = Cardinality(Inside)

(* The hysteresis of the two marks: a closed gate has more than the low    *)
(* mark of frames inside, an open one fewer than the high mark.            *)
GateMatchesLoad ==
  IF paused THEN load > LowWaterMark ELSE load < HighWaterMark

(* No lost wakeup: a worker asleep on the condition variable finds the     *)
(* gate closed and somebody inside whose Decrement will broadcast.  It     *)
(* could fail because WaitIfPaused and Increment are two critical sections *)
(* and because Broadcast is sent on one edge only.                         *)
SleepersHaveWaker ==
  At({"asleep"}) # {} => paused /\ Inside # {}

(* With fewer workers than the high mark the gate never closes: a worker   *)
(* is counted at most once.  NewDemux fixes the mark at 1000 and Start     *)
(* runs cfg.FFT.Workers goroutines (4 unless set), so the shipped gateway  *)
(* never applies this backpressure; its only shedding is the default       *)
(* branches.                                                               *)
InertBelowHighWater ==
  Cardinality(DemuxWorkers) < HighWaterMark => ~paused /\ At({"asleep"}) = {}

(* A snapshot of the counters, taken under d.mu by GetStats at any moment, *)
(* accounts for every frame taken from the channel: counted, or still in   *)
(* a worker's hands before the first counter; and a counted frame lacks    *)
(* its measurement only while its worker is between the two sections.      *)
StatsAccountForFrames ==
  /\ dstats.FramesProcessed + Len(fftCh) +
       Cardinality(At({"gate", "asleep", "inc", "process", "release", "count"}))
     = offered
  /\ dstats.FramesProcessed = dstats.Measurements + Cardinality(At({"tally"}))
  /\ dstats.ValidMeasurements <= dstats.Measurements

(* Every frame a worker has taken leaves it: no worker stays at the gate   *)
(* (or anywhere between the receive and the send) for ever, whether main   *)
(* is shutting down or not.  WaitIfPaused does not watch the context, so   *)
(* shutdown rests on this.                                                 *)
WorkersComeBack ==
  \A w \in DemuxWorkers :
    dpc[w] \notin {"select", "exit"} ~> dpc[w] \in {"select", "exit"}
=============================================================================
