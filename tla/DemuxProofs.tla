----------------------------- MODULE DemuxProofs -----------------------------
(***************************************************************************)
(* Proofs about the demultiplexer's backpressure gate, for every set of    *)
(* workers, every pair of marks and every channel capacity.                *)
(*                                                                         *)
(* The inductive invariant adds to the type invariant that the load counts *)
(* the workers inside, that the flag agrees with the two marks, and that   *)
(* a worker sleeps only while the gate is closed.  No lost wakeup and the  *)
(* inertness below the high mark follow from it by counting.               *)
(***************************************************************************)
EXTENDS Demux, FiniteSetTheorems, TLAPS

SleepersPaused == At({"asleep"}) # {} => paused

GateInv ==
  /\ TypeOK
  /\ LoadIsInside
  /\ GateMatchesLoad
  /\ SleepersPaused

-----------------------------------------------------------------------------
(* Facts about the workers inside.                                         *)

(* The workers inside are finitely many, and no more than there are.       *)
LEMMA InsideFinite ==
  /\ IsFiniteSet(Inside)
  /\ Cardinality(Inside) \in Nat
  /\ Cardinality(Inside) <= Cardinality(DemuxWorkers)
<1>1. Inside \subseteq DemuxWorkers
  BY DEF Inside, At
<1>2. QED
  BY <1>1, DemuxAssumption, FS_Subset, FS_CardinalityType

(* A step of one worker between two places of the same side of the gate    *)
(* leaves the set of workers inside as it was.                             *)
LEMMA GoSameSide ==
  ASSUME TypeOK, NEW w \in DemuxWorkers, NEW from, NEW to,
         Go(w, from, to),
         from \in {"process", "release"} <=> to \in {"process", "release"}
  PROVE  Inside' = Inside
BY DEF Go, Inside, At, TypeOK

(* Entering adds the worker, leaving removes it.                           *)
LEMMA EnterInside ==
  ASSUME TypeOK, NEW w \in DemuxWorkers, Go(w, "inc", "process")
  PROVE  /\ Inside' = Inside \cup {w}
         /\ Cardinality(Inside') = Cardinality(Inside) + 1
<1>1. Inside' = Inside \cup {w} /\ w \notin Inside
  BY DEF Go, Inside, At, TypeOK
<1>2. QED
  BY <1>1, InsideFinite, FS_AddElement

LEMMA LeaveInside ==
  ASSUME TypeOK, NEW w \in DemuxWorkers, Decrement(w)
  PROVE  /\ w \in Inside
         /\ Cardinality(Inside') = Cardinality(Inside) - 1
<1>1. w \in Inside /\ Inside' = Inside \ {w}
  BY DEF Decrement, Inside, At, TypeOK
<1>2. QED
  BY <1>1, InsideFinite, FS_RemoveElement

-----------------------------------------------------------------------------
(* A step that leaves the gate's own state and the set of workers inside   *)
(* alone, and lets no worker fall asleep before an open gate, keeps the    *)
(* three facts about the gate.                                             *)
LEMMA QuietStep ==
  ASSUME LoadIsInside, GateMatchesLoad, SleepersPaused,
         UNCHANGED <<load, paused>>, Inside' = Inside,
         paused \/ At({"asleep"})' \subseteq At({"asleep"})
  PROVE  LoadIsInside' /\ GateMatchesLoad' /\ SleepersPaused'
BY DEF LoadIsInside, GateMatchesLoad, SleepersPaused

(* The worker steps that are quiet: all but Increment and Decrement.       *)
LEMMA QuietWork ==
  ASSUME TypeOK, NEW w \in DemuxWorkers,
         WorkerStep(w), ~Increment(w), ~Decrement(w)
  PROVE  /\ UNCHANGED <<load, paused>>
         /\ Inside' = Inside
         /\ paused \/ At({"asleep"})' \subseteq At({"asleep"})
<1>1. PICK from \in DemuxPlaces, to \in DemuxPlaces :
        /\ Go(w, from, to)
        /\ from \in {"process", "release"} <=> to \in {"process", "release"}
        /\ to = "asleep" => paused
        /\ UNCHANGED <<load, paused>>
  <2>1. CASE DemuxReceive(w)
    BY <2>1 DEF DemuxReceive, DemuxPlaces
  <2>2. CASE DemuxStop(w)
    BY <2>2 DEF DemuxStop, DemuxPlaces
  <2>3. CASE PassGate(w)
    BY <2>3 DEF PassGate, DemuxPlaces
  <2>4. CASE SleepAtGate(w)
    BY <2>4 DEF SleepAtGate, DemuxPlaces
  <2>5. CASE ProcessFrame(w)
    BY <2>5 DEF ProcessFrame, DemuxPlaces
  <2>6. CASE CountFrame(w)
    BY <2>6 DEF CountFrame, DemuxPlaces
  <2>7. CASE CountMeasurement(w)
    BY <2>7 DEF CountMeasurement, DemuxPlaces
  <2>8. CASE DemuxStored(w)
    BY <2>8 DEF DemuxStored, DemuxPlaces
  <2>9. CASE DemuxSend(w)
    BY <2>9 DEF DemuxSend, DemuxPlaces
  <2>10. CASE DemuxAbandon(w)
    BY <2>10 DEF DemuxAbandon, DemuxPlaces
  <2>11. CASE DemuxSkip(w)
    BY <2>11 DEF DemuxSkip, DemuxPlaces
  <2>12. QED
    BY <2>1, <2>2, <2>3, <2>4, <2>5, <2>6, <2>7, <2>8, <2>9, <2>10, <2>11
       DEF WorkerStep, DemuxWork
<1>2. Inside' = Inside
  BY <1>1, GoSameSide
<1>3. paused \/ At({"asleep"})' \subseteq At({"asleep"})
  BY <1>1 DEF Go, At, TypeOK
<1>4. QED
  BY <1>1, <1>2, <1>3

-----------------------------------------------------------------------------
(* Counting keeps the counters natural numbers.                            *)
LEMMA StatsUpdate ==
  ASSUME NEW s \in DemuxStats
  PROVE  /\ [s EXCEPT !.FramesProcessed = @ + 1] \in DemuxStats
         /\ \A v : [s EXCEPT
                      !.Measurements = @ + 1,
                      !.ValidMeasurements = IF v THEN @ + 1 ELSE @] \in DemuxStats
<1>1. /\ s.FramesProcessed + 1 \in Nat
      /\ s.Measurements + 1 \in Nat
      /\ \A v : (IF v THEN s.ValidMeasurements + 1 ELSE s.ValidMeasurements) \in Nat
  BY DEF DemuxStats
<1>2. \A a \in Nat : [s EXCEPT !.FramesProcessed = a] \in DemuxStats
  BY DEF DemuxStats
<1>3. \A a, b \in Nat :
        [s EXCEPT !.Measurements = a, !.ValidMeasurements = b] \in DemuxStats
  BY DEF DemuxStats
<1>4. QED
  BY <1>1, <1>2, <1>3, Zenon

(* Type correctness of one step; the load stays a natural number because   *)
(* only a worker inside decrements it.                                     *)
LEMMA TypeStep ==
  ASSUME TypeOK, LoadIsInside, [Next]_vars
  PROVE  TypeOK'
<1> USE DemuxAssumption
<1>1. ASSUME NEW w \in DemuxWorkers, WorkerStep(w)
      PROVE  TypeOK'
  <2> USE DEF TypeOK, WorkerStep, flagVars, Go, DemuxPlaces
  <2>1. CASE DemuxReceive(w)
    BY <1>1, <2>1 DEF DemuxReceive
  <2>2. CASE DemuxStop(w)
    BY <1>1, <2>2 DEF DemuxStop
  <2>3. CASE PassGate(w)
    BY <1>1, <2>3 DEF PassGate
  <2>4. CASE SleepAtGate(w)
    BY <1>1, <2>4 DEF SleepAtGate
  <2>5. CASE Increment(w)
    BY <1>1, <2>5 DEF Increment
  <2>6. CASE ProcessFrame(w)
    BY <1>1, <2>6 DEF ProcessFrame
  <2>7. CASE Decrement(w)
    <3>1. load - 1 \in Nat
      BY <2>7, LeaveInside, InsideFinite, FS_EmptySet DEF LoadIsInside
    <3>2. QED
      BY <1>1, <2>7, <3>1 DEF Decrement
  <2>8. CASE CountFrame(w)
    <3>1. dstats' \in DemuxStats
      BY <2>8, StatsUpdate DEF CountFrame
    <3>2. QED
      BY <1>1, <2>8, <3>1 DEF CountFrame
  <2>9. CASE CountMeasurement(w)
    <3>1. dstats' \in DemuxStats
      BY <2>9, StatsUpdate DEF CountMeasurement
    <3>2. QED
      BY <1>1, <2>9, <3>1 DEF CountMeasurement
  <2>10. CASE DemuxStored(w)
    BY <1>1, <2>10 DEF DemuxStored
  <2>11. CASE DemuxSend(w)
    <3>1. Held(w) \in Measurement
      BY DEF Held, Measurement
    <3>2. QED
      BY <1>1, <2>11, <3>1 DEF DemuxSend, LetGo
  <2>12. CASE DemuxAbandon(w)
    BY <1>1, <2>12 DEF DemuxAbandon, LetGo
  <2>13. CASE DemuxSkip(w)
    BY <1>1, <2>13 DEF DemuxSkip, LetGo
  <2>14. QED
    BY <1>1, <2>1, <2>2, <2>3, <2>4, <2>5, <2>6, <2>7, <2>8, <2>9, <2>10,
       <2>11, <2>12, <2>13 DEF DemuxWork
<1>2. CASE MonitorStep
  BY <1>2 DEF TypeOK, MonitorStep, MonitorStop, demuxVars, flagVars
<1>3. CASE Offer
  BY <1>3 DEF TypeOK, Offer, flagVars
<1>4. CASE TakeMeasurement
  BY <1>4 DEF TypeOK, TakeMeasurement, flagVars
<1>5. CASE CloseInput
  BY <1>5 DEF TypeOK, CloseInput, demuxVars
<1>6. CASE CancelDemux
  BY <1>6 DEF TypeOK, CancelDemux, demuxVars
<1>7. CASE UNCHANGED vars
  BY <1>7 DEF TypeOK, vars, demuxVars, flagVars
<1>8. QED
  BY <1>1, <1>2, <1>3, <1>4, <1>5, <1>6, <1>7 DEF Next

-----------------------------------------------------------------------------
LEMMA GateInit == Init => GateInv
<1> SUFFICES ASSUME Init PROVE GateInv
  OBVIOUS
<1>1. TypeOK
  <2>1. dstats \in DemuxStats
    BY DEF Init, DemuxInit, DemuxStats
  <2>2. /\ fftCh \in Seq(Nat) /\ measCh \in Seq(Measurement)
        /\ Len(fftCh) <= FftCap /\ Len(measCh) <= MeasCap
    BY DemuxAssumption DEF Init, DemuxInit
  <2>3. /\ dpc \in [DemuxWorkers -> DemuxPlaces]
        /\ dheld \in [DemuxWorkers -> Nat]
        /\ dvalid \in [DemuxWorkers -> BOOLEAN]
    BY DEF Init, DemuxInit, DemuxPlaces
  <2>4. QED
    BY <2>1, <2>2, <2>3 DEF Init, DemuxInit, TypeOK
<1>2. Inside = {} /\ At({"asleep"}) = {}
  BY DEF Init, DemuxInit, Inside, At
<1>3. LoadIsInside
  BY <1>2, FS_EmptySet DEF LoadIsInside, Init, DemuxInit
<1>4. GateMatchesLoad
  BY DemuxAssumption DEF GateMatchesLoad, Init, DemuxInit
<1>5. QED
  BY <1>1, <1>2, <1>3, <1>4 DEF GateInv, SleepersPaused

(* The two marks bracket the load across Increment and Decrement.          *)
LEMMA GateStep == GateInv /\ [Next]_vars => GateInv'
<1> SUFFICES ASSUME GateInv, [Next]_vars PROVE GateInv'
  OBVIOUS
<1> USE DEF GateInv
<1>1. TypeOK'
  BY TypeStep
<1>2. ASSUME NEW w \in DemuxWorkers, Increment(w)
      PROVE  LoadIsInside' /\ GateMatchesLoad' /\ SleepersPaused'
  <2>1. LoadIsInside'
    BY <1>2, EnterInside DEF Increment, LoadIsInside
  <2>2. GateMatchesLoad'
    <3>1. load' = load + 1 /\ load \in Nat
      BY <1>2 DEF Increment, TypeOK
    <3>2. CASE load' >= HighWaterMark
      <4>1. paused'
        BY <1>2, <3>1, <3>2 DEF Increment
      <4>2. QED
        BY <3>1, <3>2, <4>1, DemuxAssumption DEF GateMatchesLoad
    <3>3. CASE ~(load' >= HighWaterMark)
      <4>1. paused' <=> paused
        BY <1>2, <3>1, <3>3 DEF Increment
      <4>2. QED
        BY <3>1, <3>3, <4>1, DemuxAssumption DEF GateMatchesLoad
    <3>4. QED
      BY <3>2, <3>3
  <2>3. At({"asleep"})' \subseteq At({"asleep"})
    BY <1>2 DEF Increment, Go, At, TypeOK
  <2>4. SleepersPaused'
    BY <1>2, <2>3 DEF Increment, SleepersPaused
  <2>5. QED
    BY <2>1, <2>2, <2>4
<1>3. ASSUME NEW w \in DemuxWorkers, Decrement(w)
      PROVE  LoadIsInside' /\ GateMatchesLoad' /\ SleepersPaused'
  <2>1. LoadIsInside'
    BY <1>3, LeaveInside, InsideFinite DEF Decrement, LoadIsInside
  <2>2. GateMatchesLoad'
    <3>1. load' = load - 1 /\ load \in Nat
      BY <1>3 DEF Decrement, TypeOK
    <3>2. CASE paused /\ ~(load - 1 <= LowWaterMark)
      <4>1. paused'
        BY <1>3, <3>2 DEF Decrement
      <4>2. QED
        BY <3>1, <3>2, <4>1, DemuxAssumption DEF GateMatchesLoad
    <3>3. CASE paused /\ load - 1 <= LowWaterMark
      <4>1. ~paused'
        BY <1>3, <3>3 DEF Decrement
      <4>2. QED
        BY <3>1, <3>3, <4>1, DemuxAssumption DEF GateMatchesLoad
    <3>4. CASE ~paused
      <4>1. ~paused'
        BY <1>3, <3>4 DEF Decrement
      <4>2. QED
        BY <3>1, <3>4, <4>1, DemuxAssumption DEF GateMatchesLoad
    <3>5. QED
      BY <3>2, <3>3, <3>4
  <2>3. SleepersPaused'
    <3>1. SUFFICES ASSUME ~paused' PROVE At({"asleep"})' = {}
      BY DEF SleepersPaused
    <3>2. CASE paused
      <4>1. load - 1 <= LowWaterMark
        BY <1>3, <3>1, <3>2 DEF Decrement
      <4>2. \A v \in DemuxWorkers : dpc'[v] # "asleep"
        BY <1>3, <3>2, <4>1 DEF Decrement, TypeOK
      <4>3. QED
        BY <4>2 DEF At
    <3>3. CASE ~paused
      <4>1. \A v \in DemuxWorkers : dpc[v] # "asleep"
        BY <3>3 DEF SleepersPaused, At
      <4>2. \A v \in DemuxWorkers : dpc'[v] # "asleep"
        BY <1>3, <4>1 DEF Decrement, TypeOK
      <4>3. QED
        BY <4>2 DEF At
    <3>4. QED
      BY <3>2, <3>3
  <2>4. QED
    BY <2>1, <2>2, <2>3
<1>4. ASSUME NEW w \in DemuxWorkers, WorkerStep(w)
      PROVE  LoadIsInside' /\ GateMatchesLoad' /\ SleepersPaused'
  BY <1>2, <1>3, <1>4, QuietWork, QuietStep
<1>5. ASSUME UNCHANGED <<dpc, load, paused>>
      PROVE  LoadIsInside' /\ GateMatchesLoad' /\ SleepersPaused'
  BY <1>5 DEF LoadIsInside, GateMatchesLoad, SleepersPaused, Inside, At
<1>6. QED
  BY <1>1, <1>4, <1>5
     DEF Next, MonitorStep, Offer, TakeMeasurement, CloseInput, CancelDemux,
         vars, demuxVars

LEMMA GateInvariant == Spec => []GateInv
BY GateInit, GateStep, PTL DEF Spec

-----------------------------------------------------------------------------
(* How the number of workers at given places changes when one worker goes  *)
(* from one place to another.                                              *)
LEMMA AtFinite ==
  ASSUME NEW CONSTANT S
  PROVE  IsFiniteSet(At(S)) /\ Cardinality(At(S)) \in Nat
<1>1. At(S) \subseteq DemuxWorkers
  BY DEF At
<1>. QED
  BY <1>1, DemuxAssumption, FS_Subset, FS_CardinalityType

LEMMA GoInto ==
  ASSUME TypeOK, NEW CONSTANT S, NEW w \in DemuxWorkers, NEW from, NEW to,
         Go(w, from, to), from \notin S, to \in S
  PROVE  Cardinality(At(S)') = Cardinality(At(S)) + 1
<1>1. At(S)' = At(S) \cup {w} /\ w \notin At(S)
  BY DEF Go, At, TypeOK
<1>. QED
  BY <1>1, AtFinite, FS_AddElement

LEMMA GoOutOf ==
  ASSUME TypeOK, NEW CONSTANT S, NEW w \in DemuxWorkers, NEW from, NEW to,
         Go(w, from, to), from \in S, to \notin S
  PROVE  Cardinality(At(S)') = Cardinality(At(S)) - 1
<1>1. At(S)' = At(S) \ {w} /\ w \in At(S)
  BY DEF Go, At, TypeOK
<1>. QED
  BY <1>1, AtFinite, FS_RemoveElement

LEMMA GoWithin ==
  ASSUME TypeOK, NEW CONSTANT S, NEW w \in DemuxWorkers, NEW from, NEW to,
         Go(w, from, to), from \in S <=> to \in S
  PROVE  Cardinality(At(S)') = Cardinality(At(S))
<1>1. At(S)' = At(S)
  BY DEF Go, At, TypeOK
<1>. QED
  BY <1>1

(* The places before the first counter, and the one between the two.       *)
Uncounted == {"gate", "asleep", "inc", "process", "release", "count"}
Tallying == {"tally"}

(* Decrement moves sleepers to the gate, which is as uncounted as sleep.   *)
LEMMA DecrementWithin ==
  ASSUME TypeOK, NEW w \in DemuxWorkers, Decrement(w)
  PROVE  /\ Cardinality(At(Uncounted)') = Cardinality(At(Uncounted))
         /\ Cardinality(At(Tallying)') = Cardinality(At(Tallying))
<1>1. At(Uncounted)' = At(Uncounted)
  BY DEF Decrement, At, TypeOK, Uncounted
<1>2. At(Tallying)' = At(Tallying)
  BY DEF Decrement, At, TypeOK, Tallying
<1>. QED
  BY <1>1, <1>2

(* The counters account for every frame offered, at every moment GetStats  *)
(* may take its snapshot, for every number of workers.                     *)
LEMMA StatsStep ==
  ASSUME TypeOK, StatsAccountForFrames, [Next]_vars
  PROVE  StatsAccountForFrames'
<1> DEFINE U == Cardinality(At(Uncounted))
           T == Cardinality(At(Tallying))
           F == dstats.FramesProcessed
           M == dstats.Measurements
           V == dstats.ValidMeasurements
           L == Len(fftCh)
           Balance == F + L + U = offered /\ F = M + T /\ V <= M
<1>1. StatsAccountForFrames <=> Balance
  BY DEF StatsAccountForFrames, Uncounted, Tallying
<1>2. StatsAccountForFrames' <=> Balance'
  BY DEF StatsAccountForFrames, Uncounted, Tallying
<1>3. U \in Nat /\ T \in Nat
  BY AtFinite
<1>4. F \in Nat /\ M \in Nat /\ V \in Nat /\ L \in Nat /\ offered \in Nat
  BY DEF TypeOK, DemuxStats
<1>5. ASSUME NEW w \in DemuxWorkers, WorkerStep(w)
      PROVE  Balance'
  <2>. USE <1>1, <1>3, <1>4
  <2>1. offered' = offered
    BY <1>5 DEF WorkerStep
  <2>2. CASE DemuxReceive(w)
    <3>1. Go(w, "select", "gate") /\ UNCHANGED dstats
      BY <2>2 DEF DemuxReceive
    <3>2. L' = L - 1
      BY <2>2 DEF DemuxReceive, TypeOK
    <3>3. U' = U + 1
      BY <3>1, GoInto DEF Uncounted
    <3>4. T' = T
      BY <3>1, GoWithin DEF Tallying
    <3>. HIDE DEF U, T, L
    <3>. QED
      BY <2>1, <3>1, <3>2, <3>3, <3>4
  <2>3. CASE CountFrame(w)
    <3>1. Go(w, "count", "tally") /\ UNCHANGED fftCh
      BY <2>3 DEF CountFrame
    <3>2. F' = F + 1 /\ M' = M /\ V' = V
      BY <2>3 DEF CountFrame, TypeOK, DemuxStats
    <3>3. U' = U - 1
      BY <3>1, GoOutOf DEF Uncounted
    <3>4. T' = T + 1
      BY <3>1, GoInto DEF Tallying
    <3>. HIDE DEF U, T, F, M, V
    <3>. QED
      BY <2>1, <3>1, <3>2, <3>3, <3>4
  <2>4. CASE CountMeasurement(w)
    <3>1. Go(w, "tally", "store") /\ UNCHANGED fftCh
      BY <2>4 DEF CountMeasurement
    <3>2. F' = F /\ M' = M + 1 /\ V' = (IF dvalid[w] THEN V + 1 ELSE V)
      BY <2>4 DEF CountMeasurement, TypeOK, DemuxStats
    <3>3. U' = U
      BY <3>1, GoWithin DEF Uncounted
    <3>4. T' = T - 1
      BY <3>1, GoOutOf DEF Tallying
    <3>5. V' <= V + 1
      BY <3>2
    <3>. HIDE DEF U, T, F, M, V
    <3>. QED
      BY <2>1, <3>1, <3>2, <3>3, <3>4, <3>5
  <2>5. CASE Decrement(w)
    <3>1. UNCHANGED <<fftCh, dstats>>
      BY <2>5 DEF Decrement
    <3>2. U' = U /\ T' = T
      BY <2>5, DecrementWithin
    <3>. QED
      BY <2>1, <3>1, <3>2
  <2>6. CASE ~(DemuxReceive(w) \/ CountFrame(w) \/ CountMeasurement(w) \/ Decrement(w))
    <3>1. PICK from \in DemuxPlaces, to \in DemuxPlaces :
            /\ Go(w, from, to)
            /\ from \in Uncounted <=> to \in Uncounted
            /\ from \in Tallying <=> to \in Tallying
            /\ UNCHANGED <<fftCh, dstats>>
      <4>. USE DEF DemuxPlaces, Uncounted, Tallying
      <4>1. CASE DemuxStop(w)
        BY <4>1 DEF DemuxStop
      <4>2. CASE PassGate(w)
        BY <4>2 DEF PassGate
      <4>3. CASE SleepAtGate(w)
        BY <4>3 DEF SleepAtGate
      <4>4. CASE Increment(w)
        BY <4>4 DEF Increment
      <4>5. CASE ProcessFrame(w)
        BY <4>5 DEF ProcessFrame
      <4>6. CASE DemuxStored(w)
        BY <4>6 DEF DemuxStored
      <4>7. CASE DemuxSend(w)
        BY <4>7 DEF DemuxSend
      <4>8. CASE DemuxAbandon(w)
        BY <4>8 DEF DemuxAbandon
      <4>9. CASE DemuxSkip(w)
        BY <4>9 DEF DemuxSkip
      <4>. QED
        BY <1>5, <2>6, <4>1, <4>2, <4>3, <4>4, <4>5, <4>6, <4>7, <4>8, <4>9
           DEF WorkerStep, DemuxWork
    <3>2. U' = U /\ T' = T
      BY <3>1, GoWithin
    <3>. QED
      BY <2>1, <3>1, <3>2
  <2>. QED
    BY <2>2, <2>3, <2>4, <2>5, <2>6
<1>6. CASE Offer
  <2>1. L' = L + 1 /\ offered' = offered + 1
    BY <1>6 DEF Offer, TypeOK
  <2>2. U' = U /\ T' = T /\ UNCHANGED dstats
    BY <1>6 DEF Offer, At
  <2>. HIDE DEF U, T, L
  <2>. QED
    BY <1>1, <1>2, <1>3, <1>4, <2>1, <2>2
<1>7. CASE UNCHANGED <<dpc, dstats, fftCh, offered>>
  BY <1>7 DEF StatsAccountForFrames, At
<1>. QED
  BY <1>2, <1>5, <1>6, <1>7
     DEF Next, MonitorStep, TakeMeasurement, CloseInput, CancelDemux, vars, demuxVars

-----------------------------------------------------------------------------
(* Type correctness: in particular the load is never negative and neither  *)
(* channel ever holds more than its capacity.                              *)
THEOREM DemuxTypeCorrect == Spec => []TypeOK
BY GateInvariant, PTL DEF GateInv

(* currentLoad counts the workers between Increment and Decrement.         *)
THEOREM DemuxLoadIsInside == Spec => []LoadIsInside
BY GateInvariant, PTL DEF GateInv

(* The flag and the load agree with the two marks.                         *)
THEOREM DemuxGateMatchesLoad == Spec => []GateMatchesLoad
BY GateInvariant, PTL DEF GateInv

(* No lost wakeup, whatever the marks: a closed gate has more than         *)
(* LowWaterMark >= 0 workers inside, so at least one will come out.        *)
THEOREM DemuxNoLostWakeup == Spec => []SleepersHaveWaker
<1>1. GateInv => SleepersHaveWaker
  <2> SUFFICES ASSUME GateInv, At({"asleep"}) # {}
               PROVE  paused /\ Inside # {}
    BY DEF SleepersHaveWaker
  <2>1. paused
    BY DEF GateInv, SleepersPaused
  <2>2. Cardinality(Inside) > 0
    BY <2>1, DemuxAssumption, InsideFinite
       DEF GateInv, GateMatchesLoad, LoadIsInside
  <2>3. QED
    BY <2>1, <2>2, FS_EmptySet
<1>2. QED
  BY <1>1, GateInvariant, PTL

(* The gate is inert when there are fewer workers than the high mark.      *)
(* The invariant alone does not say it (a closed gate only needs more      *)
(* workers inside than the low mark), so the flag is carried along: with   *)
(* fewer workers than the high mark no Increment can set it.               *)
THEOREM DemuxInertBelowHighWater == Spec => []InertBelowHighWater
<1> DEFINE Open == Cardinality(DemuxWorkers) < HighWaterMark => ~paused
<1>1. Init => Open
  BY DEF Init, DemuxInit
<1>2. GateInv /\ GateInv' /\ Open /\ [Next]_vars => Open'
  <2> SUFFICES ASSUME GateInv, GateInv', ~paused, [Next]_vars,
                      Cardinality(DemuxWorkers) < HighWaterMark
               PROVE  ~paused'
    OBVIOUS
  <2>1. ASSUME NEW w \in DemuxWorkers, Increment(w)
        PROVE  ~paused'
    <3>1. load' <= Cardinality(DemuxWorkers)
      <4>1. Inside' \subseteq DemuxWorkers
        BY DEF Inside, At
      <4>2. Cardinality(Inside') <= Cardinality(DemuxWorkers)
        BY <4>1, DemuxAssumption, FS_Subset
      <4>3. QED
        BY <4>2 DEF GateInv, LoadIsInside
    <3>2. Cardinality(DemuxWorkers) \in Nat
      BY DemuxAssumption, FS_CardinalityType
    <3>3. QED
      BY <2>1, <3>1, <3>2, DemuxAssumption DEF Increment, GateInv, TypeOK
  <2>2. ASSUME NEW w \in DemuxWorkers, WorkerStep(w), ~Increment(w)
        PROVE  ~paused'
    BY <2>2, QuietWork DEF GateInv, Decrement
  <2>3. ASSUME UNCHANGED paused
        PROVE  ~paused'
    BY <2>3
  <2>4. QED
    BY <2>1, <2>2, <2>3
       DEF Next, MonitorStep, Offer, TakeMeasurement, CloseInput, CancelDemux,
           vars, demuxVars
<1>3. GateInv /\ Open => InertBelowHighWater
  BY DEF InertBelowHighWater, GateInv, SleepersPaused
<1>4. QED
  BY <1>1, <1>2, <1>3, GateInvariant, PTL DEF Spec

(* The counters account for every frame offered, whenever GetStats reads   *)
(* them: the invariant is inductive once the types are known, because each *)
(* step of a worker moves one unit between two of its terms.               *)
THEOREM DemuxStatsAccount == Spec => []StatsAccountForFrames
<1>1. Init => StatsAccountForFrames
  <2>. SUFFICES ASSUME Init PROVE StatsAccountForFrames
    OBVIOUS
  <2>1. At({"gate", "asleep", "inc", "process", "release", "count"}) = {} /\ At({"tally"}) = {}
    BY DEF Init, DemuxInit, At
  <2>2. /\ Cardinality(At({"gate", "asleep", "inc", "process", "release", "count"})) = 0
        /\ Cardinality(At({"tally"})) = 0
    BY <2>1, FS_EmptySet, Zenon
  <2>3. dstats.FramesProcessed = 0 /\ dstats.Measurements = 0
        /\ dstats.ValidMeasurements = 0 /\ Len(fftCh) = 0 /\ offered = 0
    BY DEF Init, DemuxInit
  <2>. QED
    BY <2>2, <2>3 DEF StatsAccountForFrames
<1>2. GateInv /\ StatsAccountForFrames /\ [Next]_vars => StatsAccountForFrames'
  BY StatsStep DEF GateInv
<1>. QED
  BY <1>1, <1>2, GateInvariant, PTL DEF Spec
=============================================================================
