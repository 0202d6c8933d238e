------------------------------ MODULE Ranging ------------------------------
(***************************************************************************)
(* The ranging calculator: every demultiplexer worker calls Calculate on   *)
(* the one calculator, which counts the call, selects a peak, compensates  *)
(* its distance, corrects and audits the volume, and feeds the counters    *)
(* and the wave buffer, each in a critical section of its own.             *)
(*                                                                         *)
(* Distances are micrometres.  The score of a peak is abstracted: any peak *)
(* in range may be the one selected.  The SNR test, the result of the      *)
(* audit and the volume are open choices; the temperature is read without  *)
(* a lock, as the code does.                                               *)
(***************************************************************************)
EXTENDS Integers, Sequences, FiniteSets, FiniteSetsExt

CONSTANTS
  RangingWorkers,
  Radars,            \* settings of the radar: its bandwidth in MHz, its range
  WaveBufferSize,    \* 100
  Bins,              \* bound: the range bins peaks are found at
  Temps,             \* bound: temperatures reported, in degrees
  MaxCalls           \* bound: calls of Calculate

ASSUME RangingAssumption ==
  /\ IsFiniteSet(RangingWorkers)
  /\ Radars \subseteq [BandwidthMHz : Nat \ {0}, MinDistance : Nat, MaxDistance : Nat]
  /\ WaveBufferSize \in Nat \ {0}
  /\ Bins \subseteq Nat /\ IsFiniteSet(Bins)
  /\ Temps \subseteq Int
  /\ MaxCalls \in Nat

VARIABLES
  config,    \* the radar, and the flags TempCompEnabled,
             \* EnableThermalDeformation and EnableVolumeAudit; never changed
  cpc,       \* where each worker is in Calculate
  dist,      \* the distance a worker has computed
  lastTemp,
  waveBuf, waveIdx,
  rstats,    \* the counters, MinDistance and MaxDistance
  calls,     \* calls so far
  returned,  \* history: measurements returned, by status
  waves,     \* history: the samples added to the wave buffer, in order
  counted    \* history: the distances counted as valid

vars == <<config, cpc, dist, lastTemp, waveBuf, waveIdx, rstats,
          calls, returned, waves, counted>>

Statuses == {"no_peaks", "no_valid_peaks", "low_snr", "out_of_range", "valid"}
Configs == [radar : Radars, tempComp : BOOLEAN, thermal : BOOLEAN, audit : BOOLEAN]
Slots == 0..(WaveBufferSize - 1)

At(places) == {w \in RangingWorkers : cpc[w] \in places}
Go(w, from, to) == cpc[w] = from /\ cpc' = [cpc EXCEPT ![w] = to]
Return(status) == returned' = [returned EXCEPT ![status] = @ + 1]

(* RangeBinToDistance, interpolated or not: c / (2 * bandwidth) per bin.   *)
Distance(bin) == bin * (149896229 \div config.radar.BandwidthMHz)

(* applyTemperatureCompensation; the order of the divisions stays within   *)
(* 32 bits and loses less than 2 micrometres.                              *)
Compensated(d) ==
  IF config.tempComp
    THEN d + ((d \div 1000) * (lastTemp - 20)) \div 1000
    ELSE d

InRange(d) == config.radar.MinDistance <= d /\ d <= config.radar.MaxDistance

-----------------------------------------------------------------------------
Enter(w) ==
  /\ calls < MaxCalls
  /\ Go(w, "idle", "peaks")
  /\ calls' = calls + 1
  /\ rstats' = [rstats EXCEPT !.Measurements = @ + 1]
  /\ UNCHANGED <<config, dist, lastTemp, waveBuf, waveIdx, returned, waves, counted>>

Fail(w, status) ==
  /\ Go(w, "peaks", "idle")
  /\ Return(status)
  /\ rstats' = [rstats EXCEPT !.Errors = @ + 1]
  /\ UNCHANGED <<config, dist, lastTemp, waveBuf, waveIdx, calls, waves, counted>>

NoPeaks(w) == Fail(w, "no_peaks")

(* selectValidPeak finds none in range.                                    *)
NoValidPeaks(w) ==
  /\ \E b \in Bins : ~InRange(Distance(b))
  /\ Fail(w, "no_valid_peaks")

(* The outcomes that no counter records.  (A third, nan_distance, would    *)
(* need a distance that selectValidPeak has already refused.)              *)
Reject(w, b, status) ==
  /\ InRange(Distance(b))
  /\ Go(w, "peaks", "idle")
  /\ Return(status)
  /\ UNCHANGED <<config, dist, lastTemp, waveBuf, waveIdx, rstats, calls, waves, counted>>

LowSNRCounted(w) ==  \* mutant: the low SNR is counted as an error
  \E b \in Bins : InRange(Distance(b)) /\ Fail(w, "low_snr")

LowSNR(w) == \E b \in Bins : Reject(w, b, "low_snr")

OutOfRange(w) ==
  \E b \in Bins : ~InRange(Compensated(Distance(b))) /\ Reject(w, b, "out_of_range")

Accept(w) ==
  /\ Go(w, "peaks", "thermal")
  /\ \E b \in Bins :
       /\ InRange(Distance(b))
       /\ InRange(Compensated(Distance(b)))
       /\ dist' = [dist EXCEPT ![w] = Compensated(Distance(b))]
  /\ UNCHANGED <<config, lastTemp, waveBuf, waveIdx, rstats, calls, returned, waves, counted>>

(* CorrectVolume has returned; a correction that was applied is counted.   *)
CountCorrection(w) ==
  /\ Go(w, "thermal", "audit")
  /\ rstats' = IF config.thermal
                 THEN [rstats EXCEPT !.ThermalCorrections = @ + 1]
                 ELSE rstats
  /\ UNCHANGED <<config, dist, lastTemp, waveBuf, waveIdx, calls, returned, waves, counted>>

(* AuditVolume compares the expansion with the tolerance: it passes when   *)
(* nothing was applied.                                                    *)
Audit(w) ==
  /\ Go(w, "audit", "count")
  /\ \/ rstats' = rstats
     \/ /\ config.audit /\ config.thermal
        /\ rstats' = [rstats EXCEPT !.VolumeAuditFailures = @ + 1]
  /\ UNCHANGED <<config, dist, lastTemp, waveBuf, waveIdx, calls, returned, waves, counted>>

(* The counters of a valid measurement; 0 stands for no minimum yet.       *)
CountValidFromZero(w) ==  \* mutant: the empty minimum is not told apart
  /\ Go(w, "count", "wave")
  /\ rstats' = [rstats EXCEPT
                  !.ValidMeasurements = @ + 1,
                  !.MinDistance = IF dist[w] < @ THEN dist[w] ELSE @,
                  !.MaxDistance = IF dist[w] > @ THEN dist[w] ELSE @]
  /\ counted' = counted \cup {dist[w]}
  /\ UNCHANGED <<config, dist, lastTemp, waveBuf, waveIdx, calls, returned, waves>>

CountValid(w) ==
  /\ Go(w, "count", "wave")
  /\ rstats' = [rstats EXCEPT
                  !.ValidMeasurements = @ + 1,
                  !.MinDistance = IF @ = 0 \/ dist[w] < @ THEN dist[w] ELSE @,
                  !.MaxDistance = IF dist[w] > @ THEN dist[w] ELSE @]
  /\ counted' = counted \cup {dist[w]}
  /\ UNCHANGED <<config, dist, lastTemp, waveBuf, waveIdx, calls, returned, waves>>

AddWaveSampleLate(w) ==  \* mutant: the index moves before the store
  /\ Go(w, "wave", "idle")
  /\ waveIdx' = (waveIdx + 1) % WaveBufferSize
  /\ waveBuf' = [waveBuf EXCEPT ![waveIdx'] = dist[w]]
  /\ waves' = Append(waves, dist[w])
  /\ Return("valid")
  /\ dist' = [dist EXCEPT ![w] = 0]
  /\ UNCHANGED <<config, lastTemp, rstats, calls, counted>>

AddWaveSample(w) ==
  /\ Go(w, "wave", "idle")
  /\ waveBuf' = [waveBuf EXCEPT ![waveIdx] = dist[w]]
  /\ waveIdx' = (waveIdx + 1) % WaveBufferSize
  /\ waves' = Append(waves, dist[w])
  /\ Return("valid")
  /\ dist' = [dist EXCEPT ![w] = 0]
  /\ UNCHANGED <<config, lastTemp, rstats, calls, counted>>

UpdateTemperature(t) ==
  /\ -60 < t /\ t < 150
  /\ lastTemp' = t
  /\ UNCHANGED <<config, cpc, dist, waveBuf, waveIdx, rstats, calls, returned, waves, counted>>

Init ==
  /\ config \in Configs
  /\ cpc = [w \in RangingWorkers |-> "idle"]
  /\ dist = [w \in RangingWorkers |-> 0]
  /\ lastTemp = 20
  /\ waveBuf = [k \in Slots |-> 0]
  /\ waveIdx = 0
  /\ rstats = [Measurements |-> 0, ValidMeasurements |-> 0, Errors |-> 0,
               ThermalCorrections |-> 0, VolumeAuditFailures |-> 0,
               MinDistance |-> 0, MaxDistance |-> 0]
  /\ calls = 0
  /\ returned = [s \in Statuses |-> 0]
  /\ waves = <<>>
  /\ counted = {}

Calculate(w) ==
  \/ Enter(w) \/ NoPeaks(w) \/ NoValidPeaks(w)
  \/ LowSNR(w) \/ OutOfRange(w) \/ Accept(w)
  \/ CountCorrection(w) \/ Audit(w) \/ CountValid(w) \/ AddWaveSample(w)

Next ==
  \/ \E w \in RangingWorkers : Calculate(w)
  \/ \E t \in Temps : UpdateTemperature(t)

Spec == Init /\ [][Next]_vars

-----------------------------------------------------------------------------
(* The counters account for every call: an error is a call without a usable *)
(* peak; a weak or drifting peak is neither an error nor valid; a correction *)
(* that was applied ends in a valid measurement, also when the audit fails. *)
OutcomesAccounted ==
  /\ rstats.Errors = returned["no_peaks"] + returned["no_valid_peaks"]
  /\ rstats.ValidMeasurements = returned["valid"] + Cardinality(At({"wave"}))
  /\ rstats.Measurements =
       rstats.Errors + rstats.ValidMeasurements
         + returned["low_snr"] + returned["out_of_range"]
         + Cardinality(At({"peaks", "thermal", "audit", "count"}))
  /\ config.thermal =>
       /\ rstats.ThermalCorrections =
            rstats.ValidMeasurements + Cardinality(At({"audit", "count"}))
       /\ rstats.VolumeAuditFailures <= rstats.ThermalCorrections

(* The wave buffer holds the latest samples in the order of their critical *)
(* sections, and nothing else.  With a minimum distance above 0 a slot is  *)
(* then 0 only until it is first written, which is how GetWaveMeasurement  *)
(* tells how many there are.                                               *)
WaveHoldsLatest ==
  \A k \in 1..WaveBufferSize :
    waveBuf[(waveIdx - k) % WaveBufferSize] =
      IF k <= Len(waves) THEN waves[Len(waves) - k + 1] ELSE 0

(* The extremes are those of the distances counted as valid, and are in    *)
(* range after the compensation too, if 0 is not one of them.              *)
ExtremesOfValid ==
  0 < config.radar.MinDistance /\ counted # {} =>
    /\ rstats.MinDistance = Min(counted) /\ InRange(rstats.MinDistance)
    /\ rstats.MaxDistance = Max(counted) /\ InRange(rstats.MaxDistance)
=============================================================================
