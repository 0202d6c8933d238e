-------------------------------- MODULE Sink --------------------------------
(***************************************************************************)
(* The measurement sink: one goroutine that takes measurements from        *)
(* measurementCh and hands the valid ones to the storage, after the        *)
(* demultiplexer has already handed every measurement to it.               *)
(***************************************************************************)
EXTENDS Integers, Sequences, FiniteSets

VARIABLES
  measCh,  \* measurements from the demultiplexer
  kpc,     \* where the goroutine is
  kheld,   \* the measurement it holds
  kstats,  \* MeasurementSink.stats
  cancelled, closed

sinkVars == <<measCh, kpc, kheld, kstats>>

NoMeasurement == [frame |-> 0, valid |-> FALSE]
SinkPlaces == {"select", "store", "exit"}

SinkReceiveAll ==  \* mutant: the test of Valid is gone
  /\ kpc = "select"
  /\ measCh # <<>>
  /\ measCh' = Tail(measCh)
  /\ kstats' = [kstats EXCEPT !.MeasurementsReceived = @ + 1]
  /\ kpc' = "store"
  /\ kheld' = Head(measCh)

(* Receive and count; an invalid measurement is only logged.  The storage  *)
(* pointer the sink was built with is never nil.                           *)
SinkReceive ==
  /\ kpc = "select"
  /\ measCh # <<>>
  /\ measCh' = Tail(measCh)
  /\ kstats' = [kstats EXCEPT !.MeasurementsReceived = @ + 1]
  /\ IF Head(measCh).valid
       THEN kpc' = "store" /\ kheld' = Head(measCh)
       ELSE UNCHANGED <<kpc, kheld>>

SinkStop ==
  /\ kpc = "select"
  /\ \/ "sink" \in cancelled
     \/ measCh = <<>> /\ "measCh" \in closed
  /\ kpc' = "exit"
  /\ UNCHANGED <<measCh, kheld, kstats>>

(* WriteMeasurement has returned; its error is logged and the measurement  *)
(* counts as stored all the same.                                          *)
SinkStored ==
  /\ kpc = "store"
  /\ kpc' = "select"
  /\ kheld' = NoMeasurement
  /\ kstats' = [kstats EXCEPT !.MeasurementsStored = @ + 1]
  /\ UNCHANGED measCh

SinkExited == kpc = "exit"

(* measCh belongs to the demultiplexer's initial state.                    *)
SinkInit ==
  /\ kpc = "select"
  /\ kheld = NoMeasurement
  /\ kstats = [MeasurementsReceived |-> 0, MeasurementsStored |-> 0]
=============================================================================
