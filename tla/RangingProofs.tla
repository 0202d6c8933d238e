---------------------------- MODULE RangingProofs ----------------------------
(***************************************************************************)
(* Proofs about the ranging calculator's counters, extremes and wave       *)
(* buffer, for any number of workers, radars, buffer size and distances.   *)
(*                                                                         *)
(* Three inductive invariants over the same types: the counters (with the  *)
(* volume audit's, which must leave room for the workers about to audit);  *)
(* the extremes (with the range of what the workers carry); and the wave   *)
(* buffer, which needs modular arithmetic within one turn only.            *)
(***************************************************************************)
EXTENDS Ranging, FiniteSetTheorems, TLAPS

Places == {"idle", "peaks", "thermal", "audit", "count", "wave"}
RStats == [Measurements : Nat, ValidMeasurements : Nat, Errors : Nat,
           ThermalCorrections : Nat, VolumeAuditFailures : Nat,
           MinDistance : Int, MaxDistance : Int]

Types ==
  /\ config \in Configs
  /\ cpc \in [RangingWorkers -> Places]
  /\ dist \in [RangingWorkers -> Int]
  /\ lastTemp \in Int
  /\ waveBuf \in [Slots -> Int]
  /\ waveIdx \in Slots
  /\ rstats \in RStats
  /\ calls \in Nat
  /\ returned \in [Statuses -> Nat]
  /\ waves \in Seq(Int)
  /\ counted \subseteq Int

Unsettled == {"peaks", "thermal", "audit", "count"}
Corrected == {"audit", "count"}
Auditing == {"audit"}
Waving == {"wave"}

-----------------------------------------------------------------------------
LEMMA AtFinite ==
  ASSUME NEW CONSTANT S
  PROVE  IsFiniteSet(At(S)) /\ Cardinality(At(S)) \in Nat
<1>1. At(S) \subseteq RangingWorkers
  BY DEF At
<1>. QED
  BY <1>1, RangingAssumption, FS_Subset, FS_CardinalityType

(* A step of one worker changes the number of workers at given places by   *)
(* its arrival and its departure.                                          *)
LEMMA GoCounts ==
  ASSUME cpc \in [RangingWorkers -> Places], NEW CONSTANT S, NEW w \in RangingWorkers,
         NEW from, NEW to, Go(w, from, to)
  PROVE  Cardinality(At(S)') =
           Cardinality(At(S)) + (IF to \in S THEN 1 ELSE 0) - (IF from \in S THEN 1 ELSE 0)
<1>. USE AtFinite
<1>1. CASE from \notin S /\ to \in S
  <2>1. At(S)' = At(S) \cup {w} /\ w \notin At(S)
    BY <1>1 DEF Go, At
  <2>2. Cardinality(At(S)') = Cardinality(At(S)) + 1
    BY <2>1, FS_AddElement, Zenon
  <2>. QED
    BY <1>1, <2>2
<1>2. CASE from \in S /\ to \notin S
  <2>1. At(S)' = At(S) \ {w} /\ w \in At(S)
    BY <1>2 DEF Go, At
  <2>2. Cardinality(At(S)') = Cardinality(At(S)) - 1
    BY <2>1, FS_RemoveElement, Zenon
  <2>. QED
    BY <1>2, <2>2
<1>3. CASE from \in S <=> to \in S
  <2>1. At(S)' = At(S)
    BY <1>3 DEF Go, At
  <2>. QED
    BY <1>3, <2>1
<1>. QED
  BY <1>1, <1>2, <1>3

(* The distances are integers.                                             *)
LEMMA DistanceIsInt ==
  ASSUME config \in Configs, lastTemp \in Int, NEW b \in Bins
  PROVE  Distance(b) \in Int /\ Compensated(Distance(b)) \in Int
<1>1. b \in Nat /\ config.radar.BandwidthMHz \in Nat \ {0}
  BY RangingAssumption DEF Configs
<1>2. 149896229 \div config.radar.BandwidthMHz \in Int
  BY <1>1
<1>3. Distance(b) \in Int
  BY <1>1, <1>2 DEF Distance
<1>4. \A d \in Int : d + ((d \div 1000) * (lastTemp - 20)) \div 1000 \in Int
  OBVIOUS
<1>. QED
  BY <1>3, <1>4 DEF Compensated

(* One turn of the wave buffer.                                            *)
LEMMA OneTurn ==
  ASSUME NEW N \in Nat \ {0}
  PROVE  /\ \A x \in 0..(N - 1) : x % N = x
         /\ \A x \in (-N)..(-1) : x % N = x + N
         /\ N % N = 0
<1>1. ASSUME NEW x \in 0..(N - 1) PROVE x % N = x
  OBVIOUS
<1>2. ASSUME NEW x \in (-N)..(-1) PROVE x % N = x + N
  OBVIOUS
<1>3. N % N = 0
  OBVIOUS
<1>. QED
  BY <1>1, <1>2, <1>3

-----------------------------------------------------------------------------
LEMMA TypesInit == Init => Types
<1>. SUFFICES ASSUME Init PROVE Types
  OBVIOUS
<1>1. rstats \in RStats
  BY DEF Init, RStats
<1>2. waveIdx \in Slots
  BY RangingAssumption DEF Init, Slots
<1>. QED
  BY <1>1, <1>2 DEF Init, Types, Places

(* Changing the counters and the extremes keeps their types.               *)
LEMMA StatsTypes ==
  ASSUME NEW s \in RStats, NEW a \in Int
  PROVE  /\ [s EXCEPT !.Measurements = @ + 1] \in RStats
         /\ [s EXCEPT !.Errors = @ + 1] \in RStats
         /\ [s EXCEPT !.ThermalCorrections = @ + 1] \in RStats
         /\ [s EXCEPT !.VolumeAuditFailures = @ + 1] \in RStats
         /\ [s EXCEPT !.ValidMeasurements = @ + 1,
                      !.MinDistance = IF @ = 0 \/ a < @ THEN a ELSE @,
                      !.MaxDistance = IF a > @ THEN a ELSE @] \in RStats
<1>1. /\ s.Measurements + 1 \in Nat /\ s.Errors + 1 \in Nat
      /\ s.ThermalCorrections + 1 \in Nat /\ s.VolumeAuditFailures + 1 \in Nat
      /\ s.ValidMeasurements + 1 \in Nat
      /\ (IF s.MinDistance = 0 \/ a < s.MinDistance THEN a ELSE s.MinDistance) \in Int
      /\ (IF a > s.MaxDistance THEN a ELSE s.MaxDistance) \in Int
  BY DEF RStats
<1>2. \A n \in Nat, x, y \in Int :
        /\ [s EXCEPT !.Measurements = n] \in RStats
        /\ [s EXCEPT !.Errors = n] \in RStats
        /\ [s EXCEPT !.ThermalCorrections = n] \in RStats
        /\ [s EXCEPT !.VolumeAuditFailures = n] \in RStats
        /\ [s EXCEPT !.ValidMeasurements = n, !.MinDistance = x, !.MaxDistance = y] \in RStats
  BY DEF RStats
<1>. QED
  BY <1>1, <1>2, Zenon

LEMMA TypesStep ==
  ASSUME Types, [Next]_vars
  PROVE  Types'
<1>. USE DEF Types
<1>1. ASSUME NEW w \in RangingWorkers, NEW from, NEW to, Go(w, from, to), to \in Places
      PROVE  cpc' \in [RangingWorkers -> Places]
  BY <1>1 DEF Go
<1>2. ASSUME NEW s \in Statuses, Return(s)
      PROVE  returned' \in [Statuses -> Nat]
  BY <1>2 DEF Return
<1>3. ASSUME NEW w \in RangingWorkers, Enter(w) PROVE Types'
  <2>1. rstats' \in RStats
    BY <1>3, StatsTypes DEF Enter
  <2>. QED
    BY <1>1, <1>3, <2>1 DEF Enter, Places
<1>4. ASSUME NEW w \in RangingWorkers, NEW s \in Statuses, Fail(w, s) PROVE Types'
  BY <1>1, <1>2, <1>4, StatsTypes DEF Fail, Places
<1>5. ASSUME NEW w \in RangingWorkers, NEW b \in Bins, NEW s \in Statuses, Reject(w, b, s)
      PROVE  Types'
  BY <1>1, <1>2, <1>5 DEF Reject, Places
<1>6. ASSUME NEW w \in RangingWorkers, Accept(w) PROVE Types'
  <2>1. dist' \in [RangingWorkers -> Int]
    BY <1>6, DistanceIsInt DEF Accept
  <2>. QED
    BY <1>1, <1>6, <2>1 DEF Accept, Places
<1>7. ASSUME NEW w \in RangingWorkers, CountCorrection(w) PROVE Types'
  BY <1>1, <1>7, StatsTypes DEF CountCorrection, Places
<1>8. ASSUME NEW w \in RangingWorkers, Audit(w) PROVE Types'
  BY <1>1, <1>8, StatsTypes DEF Audit, Places
<1>9. ASSUME NEW w \in RangingWorkers, CountValid(w) PROVE Types'
  <2>1. dist[w] \in Int
    OBVIOUS
  <2>2. rstats' \in RStats
    BY <1>9, <2>1, StatsTypes DEF CountValid
  <2>. QED
    BY <1>1, <1>9, <2>1, <2>2 DEF CountValid, Places
<1>10. ASSUME NEW w \in RangingWorkers, AddWaveSample(w) PROVE Types'
  <2>1. dist[w] \in Int /\ "valid" \in Statuses
    BY DEF Statuses
  <2>2. waveIdx' \in Slots
    <3>1. waveIdx + 1 \in 0..(WaveBufferSize - 1) \/ waveIdx + 1 = WaveBufferSize
      BY RangingAssumption DEF Slots
    <3>. QED
      BY <1>10, <3>1, OneTurn, RangingAssumption DEF AddWaveSample, Slots
  <2>3. cpc' \in [RangingWorkers -> Places] /\ returned' \in [Statuses -> Nat]
    BY <1>1, <1>2, <1>10, <2>1 DEF AddWaveSample, Places
  <2>4. /\ waves' \in Seq(Int) /\ waveBuf' \in [Slots -> Int]
        /\ dist' \in [RangingWorkers -> Int]
    BY <1>10, <2>1 DEF AddWaveSample
  <2>. QED
    BY <1>10, <2>2, <2>3, <2>4 DEF AddWaveSample
<1>11. ASSUME NEW t \in Temps, UpdateTemperature(t) PROVE Types'
  BY <1>11, RangingAssumption DEF UpdateTemperature
<1>12. ASSUME UNCHANGED vars PROVE Types'
  BY <1>12 DEF vars
<1>. QED
  BY <1>3, <1>4, <1>5, <1>6, <1>7, <1>8, <1>9, <1>10, <1>11, <1>12
     DEF Next, Calculate, NoPeaks, NoValidPeaks, LowSNR, OutOfRange, Statuses

LEMMA RangingTypes == Spec => []Types
BY TypesInit, TypesStep, PTL DEF Spec

-----------------------------------------------------------------------------
(* The wave buffer.  A sample goes into the slot that was written longest  *)
(* ago; every other slot becomes one sample older.                         *)
THEOREM RangingWaveLatest == Spec => []WaveHoldsLatest
<1>1. Init => WaveHoldsLatest
  <2>. SUFFICES ASSUME Init, NEW k \in 1..WaveBufferSize
                PROVE  waveBuf[(waveIdx - k) % WaveBufferSize] = 0 /\ Len(waves) = 0
    BY DEF WaveHoldsLatest, Init
  <2>1. (0 - k) % WaveBufferSize = (0 - k) + WaveBufferSize
    BY OneTurn, RangingAssumption
  <2>2. (waveIdx - k) % WaveBufferSize \in Slots
    BY <2>1, RangingAssumption DEF Init, Slots
  <2>. QED
    BY <2>2 DEF Init
<1>2. Types /\ WaveHoldsLatest /\ [Next]_vars => WaveHoldsLatest'
  <2>. SUFFICES ASSUME Types, WaveHoldsLatest, [Next]_vars PROVE WaveHoldsLatest'
    OBVIOUS
  <2>1. ASSUME NEW w \in RangingWorkers, AddWaveSample(w) PROVE WaveHoldsLatest'
    <3>. DEFINE N == WaveBufferSize
                x == dist[w]
    <3>1. /\ N \in Nat \ {0} /\ waveIdx \in 0..(N - 1)
          /\ waveBuf \in [0..(N - 1) -> Int] /\ x \in Int /\ waves \in Seq(Int)
      BY RangingAssumption DEF Types, Slots
    <3>2. /\ waveBuf' = [waveBuf EXCEPT ![waveIdx] = x]
          /\ waveIdx' = (waveIdx + 1) % N /\ waves' = Append(waves, x)
      BY <2>1 DEF AddWaveSample
    <3>. HIDE DEF N, x
    <3>3. waveIdx' = IF waveIdx = N - 1 THEN 0 ELSE waveIdx + 1
      <4>1. CASE waveIdx = N - 1
        <5>1. waveIdx + 1 = N
          BY <3>1, <4>1
        <5>. QED
          BY <3>1, <3>2, <4>1, <5>1, OneTurn
      <4>2. CASE waveIdx # N - 1
        <5>1. waveIdx + 1 \in 0..(N - 1)
          BY <3>1, <4>2
        <5>. QED
          BY <3>1, <3>2, <4>2, <5>1, OneTurn
      <4>. QED
        BY <4>1, <4>2
    <3>4. \A i \in 0..(N - 1), k \in 1..N : (i - k) % N = IF i >= k THEN i - k ELSE i - k + N
      <4>1. \A i \in 0..(N - 1), k \in 1..N : i >= k => i - k \in 0..(N - 1)
        BY <3>1
      <4>2. \A i \in 0..(N - 1), k \in 1..N : ~(i >= k) => i - k \in (-N)..(-1)
        BY <3>1
      <4>. QED
        BY <3>1, <4>1, <4>2, OneTurn
    <3>5. /\ Len(waves') = Len(waves) + 1 /\ Len(waves) \in Nat
          /\ waves'[Len(waves) + 1] = x
          /\ \A i \in 1..Len(waves) : waves'[i] = waves[i]
      BY <3>1, <3>2
    <3>6. SUFFICES ASSUME NEW k \in 1..N
                   PROVE  waveBuf'[(waveIdx' - k) % N] =
                            IF k <= Len(waves') THEN waves'[Len(waves') - k + 1] ELSE 0
      BY DEF WaveHoldsLatest, N
    <3>7. CASE k = 1
      <4>1. (waveIdx' - k) % N = waveIdx
        <5>1. waveIdx' \in 0..(N - 1)
          BY <3>1, <3>3
        <5>2. (waveIdx' - k) % N = IF waveIdx' >= k THEN waveIdx' - k ELSE waveIdx' - k + N
          BY <3>4, <5>1
        <5>. QED
          BY <3>1, <3>3, <3>7, <5>1, <5>2
      <4>2. waveBuf'[waveIdx] = x
        BY <3>1, <3>2
      <4>3. k <= Len(waves') /\ Len(waves') - k + 1 = Len(waves) + 1
        BY <3>5, <3>7
      <4>. QED
        BY <3>5, <4>1, <4>2, <4>3
    <3>8. CASE k > 1
      <4>1. k - 1 \in 1..N
        BY <3>1, <3>8
      <4>2. /\ (waveIdx' - k) % N = (waveIdx - (k - 1)) % N
            /\ (waveIdx - (k - 1)) % N \in 0..(N - 1)
            /\ (waveIdx - (k - 1)) % N # waveIdx
        <5>1. waveIdx' \in 0..(N - 1)
          BY <3>1, <3>3
        <5>2. (waveIdx' - k) % N = IF waveIdx' >= k THEN waveIdx' - k ELSE waveIdx' - k + N
          BY <3>4, <5>1
        <5>3. (waveIdx - (k - 1)) % N =
                IF waveIdx >= k - 1 THEN waveIdx - (k - 1) ELSE waveIdx - (k - 1) + N
          BY <3>1, <3>4, <4>1
        <5>. QED
          BY <3>1, <3>3, <3>8, <5>1, <5>2, <5>3
      <4>3. waveBuf'[(waveIdx - (k - 1)) % N] = waveBuf[(waveIdx - (k - 1)) % N]
        BY <3>1, <3>2, <4>2
      <4>4. waveBuf[(waveIdx - (k - 1)) % N] =
              IF k - 1 <= Len(waves) THEN waves[Len(waves) - (k - 1) + 1] ELSE 0
        BY <4>1 DEF WaveHoldsLatest, N
      <4>5. /\ k - 1 <= Len(waves) <=> k <= Len(waves')
            /\ k - 1 <= Len(waves) =>
                 /\ Len(waves) - (k - 1) + 1 = Len(waves') - k + 1
                 /\ Len(waves) - (k - 1) + 1 \in 1..Len(waves)
        BY <3>1, <3>5, <3>8
      <4>. QED
        BY <3>5, <4>2, <4>3, <4>4, <4>5
    <3>. QED
      BY <3>1, <3>7, <3>8
  <2>2. ASSUME UNCHANGED <<waveBuf, waveIdx, waves>> PROVE WaveHoldsLatest'
    BY <2>2 DEF WaveHoldsLatest
  <2>. QED
    BY <2>1, <2>2
       DEF Next, Calculate, Enter, NoPeaks, NoValidPeaks, Fail, LowSNR, OutOfRange, Reject,
           Accept, CountCorrection, Audit, CountValid, UpdateTemperature, vars
<1>. QED
  BY <1>1, <1>2, RangingTypes, PTL DEF Spec

-----------------------------------------------------------------------------
(* The extremes.  What a worker carries past the range checks is in range; *)
(* the extremes are attained, and bound every distance counted.            *)
ExtremeInv ==
  /\ \A w \in RangingWorkers :
       cpc[w] \in {"thermal", "audit", "count"} => InRange(dist[w])
  /\ \A d \in counted : InRange(d)
  /\ counted = {} => rstats.MinDistance = 0 /\ rstats.MaxDistance = 0
  /\ 0 < config.radar.MinDistance /\ counted # {} =>
       /\ rstats.MinDistance \in counted /\ \A d \in counted : rstats.MinDistance <= d
       /\ rstats.MaxDistance \in counted /\ \A d \in counted : d <= rstats.MaxDistance

(* A bound of a set of integers that is one of them is its extreme.        *)
LEMMA BoundIsExtreme ==
  ASSUME NEW S \in SUBSET Int, NEW a \in S
  PROVE  /\ (\A d \in S : a <= d) => a = Min(S)
         /\ (\A d \in S : d <= a) => a = Max(S)
<1>1. ASSUME \A d \in S : a <= d PROVE a = Min(S)
  <2>1. Min(S) \in S /\ \A d \in S : Min(S) <= d
    <3>1. \E x \in S : \A d \in S : x <= d
      BY <1>1
    <3>. QED
      BY <3>1, Zenon DEF Min
  <2>2. a <= Min(S) /\ Min(S) <= a /\ a \in Int /\ Min(S) \in Int
    BY <1>1, <2>1
  <2>. QED
    BY <2>2
<1>2. ASSUME \A d \in S : d <= a PROVE a = Max(S)
  <2>1. Max(S) \in S /\ \A d \in S : Max(S) >= d
    <3>1. \E x \in S : \A d \in S : x >= d
      BY <1>2
    <3>. QED
      BY <3>1, Zenon DEF Max
  <2>2. a <= Max(S) /\ Max(S) <= a /\ a \in Int /\ Max(S) \in Int
    BY <1>2, <2>1
  <2>. QED
    BY <2>2
<1>. QED
  BY <1>1, <1>2

LEMMA ExtremeStep ==
  ASSUME Types, ExtremeInv, [Next]_vars
  PROVE  ExtremeInv'
<1>. DEFINE Carries == \A w \in RangingWorkers :
                         cpc[w] \in {"thermal", "audit", "count"} => InRange(dist[w])
            Lo == rstats.MinDistance
            Hi == rstats.MaxDistance
<1>1. config' = config
  BY DEF Next, Calculate, Enter, NoPeaks, NoValidPeaks, Fail, LowSNR, OutOfRange, Reject,
         Accept, CountCorrection, Audit, CountValid, AddWaveSample, UpdateTemperature, vars
<1>2. \A d : InRange(d)' <=> InRange(d)
  BY <1>1 DEF InRange
<1>3. ASSUME Carries', UNCHANGED counted, Lo' = Lo, Hi' = Hi
      PROVE  ExtremeInv'
  BY <1>1, <1>2, <1>3 DEF ExtremeInv
<1>4. ASSUME NEW w \in RangingWorkers, NEW from, NEW to, Go(w, from, to),
             UNCHANGED <<config, dist>>,
             to \in {"thermal", "audit", "count"} => from \in {"thermal", "audit", "count"}
      PROVE  Carries'
  BY <1>4 DEF ExtremeInv, Go, Types, InRange
<1>5. ASSUME NEW w \in RangingWorkers,
             Enter(w) \/ (\E s \in Statuses : Fail(w, s)) \/ CountCorrection(w) \/ Audit(w)
      PROVE  ExtremeInv'
  <2>1. Carries' /\ UNCHANGED counted
    BY <1>4, <1>5 DEF Enter, Fail, CountCorrection, Audit
  <2>2. Lo' = Lo /\ Hi' = Hi
    BY <1>5 DEF Enter, Fail, CountCorrection, Audit, Types, RStats
  <2>. QED
    BY <1>3, <2>1, <2>2
<1>6. ASSUME NEW w \in RangingWorkers, NEW b \in Bins, NEW s \in Statuses, Reject(w, b, s)
      PROVE  ExtremeInv'
  <2>1. Carries' /\ UNCHANGED counted /\ Lo' = Lo /\ Hi' = Hi
    BY <1>4, <1>6 DEF Reject
  <2>. QED
    BY <1>3, <2>1
<1>7. ASSUME NEW w \in RangingWorkers, Accept(w) PROVE ExtremeInv'
  <2>1. PICK b \in Bins : InRange(Compensated(Distance(b)))
                          /\ dist' = [dist EXCEPT ![w] = Compensated(Distance(b))]
    BY <1>7 DEF Accept
  <2>. DEFINE d == Compensated(Distance(b))
  <2>2. InRange(d) /\ dist' = [dist EXCEPT ![w] = d]
    BY <2>1
  <2>. HIDE DEF d
  <2>3. Carries'
    BY <1>2, <1>7, <2>2 DEF Accept, Go, ExtremeInv, Types, InRange
  <2>. QED
    BY <1>3, <1>7, <2>3 DEF Accept
<1>8. ASSUME NEW w \in RangingWorkers, CountValid(w) PROVE ExtremeInv'
  <2>. DEFINE x == dist[w]
  <2>1. Carries'
    BY <1>4, <1>8 DEF CountValid
  <2>2. InRange(x) /\ x \in Int
    BY <1>8 DEF CountValid, Go, ExtremeInv, Types
  <2>3. counted' = counted \cup {x}
    BY <1>8 DEF CountValid
  <2>4. /\ Lo' = IF Lo = 0 \/ x < Lo THEN x ELSE Lo
        /\ Hi' = IF x > Hi THEN x ELSE Hi
    BY <1>8 DEF CountValid, Types, RStats
  <2>5. Lo \in Int /\ Hi \in Int /\ counted \subseteq Int
    BY DEF Types, RStats
  <2>6. \A d \in counted' : InRange(d)
    BY <2>2, <2>3 DEF ExtremeInv
  <2>7. ASSUME 0 < config.radar.MinDistance
        PROVE  /\ Lo' \in counted' /\ \A d \in counted' : Lo' <= d
               /\ Hi' \in counted' /\ \A d \in counted' : d <= Hi'
    <3>1. config.radar.MinDistance \in Nat
      BY RangingAssumption DEF Types, Configs
    <3>2. \A d \in counted' : 0 < d /\ d \in Int
      <4>1. \A d \in counted' : d \in Int
        BY <2>2, <2>3, <2>5
      <4>2. \A d \in counted' : config.radar.MinDistance <= d
        BY <2>6 DEF InRange
      <4>3. \A d \in Int : config.radar.MinDistance <= d => 0 < d
        BY <2>7, <3>1
      <4>. QED
        BY <4>1, <4>2, <4>3
    <3>3. CASE counted = {}
      <4>1. Lo = 0 /\ Hi = 0 /\ counted' = {x}
        BY <2>3, <3>3 DEF ExtremeInv
      <4>. HIDE DEF x, Lo, Hi
      <4>. QED
        BY <2>2, <2>4, <3>2, <4>1
    <3>4. CASE counted # {}
      <4>1. /\ Lo \in counted /\ \A d \in counted : Lo <= d
            /\ Hi \in counted /\ \A d \in counted : d <= Hi
        BY <2>7, <3>4 DEF ExtremeInv
      <4>. HIDE DEF x, Lo, Hi
      <4>. QED
        BY <2>2, <2>3, <2>4, <2>5, <3>2, <4>1
    <3>. QED
      BY <3>3, <3>4
  <2>. HIDE DEF x
  <2>. QED
    BY <1>1, <1>2, <2>1, <2>3, <2>6, <2>7 DEF ExtremeInv
<1>9. ASSUME NEW w \in RangingWorkers, AddWaveSample(w) PROVE ExtremeInv'
  <2>1. Carries'
    BY <1>2, <1>9 DEF AddWaveSample, Go, ExtremeInv, Types, InRange
  <2>. QED
    BY <1>3, <1>9, <2>1 DEF AddWaveSample
<1>10. ASSUME UNCHANGED <<config, cpc, dist, rstats, counted>> PROVE ExtremeInv'
  BY <1>10 DEF ExtremeInv, InRange
<1>. QED
  BY <1>5, <1>6, <1>7, <1>8, <1>9, <1>10
     DEF Next, Calculate, NoPeaks, NoValidPeaks, LowSNR, OutOfRange, Statuses,
         UpdateTemperature, vars

(* The extremes are those of the distances counted as valid, whatever      *)
(* interleaving counted them, for a radar whose range does not begin at 0. *)
THEOREM RangingExtremes == Spec => []ExtremesOfValid
<1>1. Init => ExtremeInv
  BY DEF Init, ExtremeInv
<1>2. Types /\ ExtremeInv => ExtremesOfValid
  <2>. SUFFICES ASSUME Types, ExtremeInv, 0 < config.radar.MinDistance, counted # {}
       PROVE  /\ rstats.MinDistance = Min(counted) /\ InRange(rstats.MinDistance)
              /\ rstats.MaxDistance = Max(counted) /\ InRange(rstats.MaxDistance)
    BY DEF ExtremesOfValid
  <2>1. /\ rstats.MinDistance \in counted /\ \A d \in counted : rstats.MinDistance <= d
        /\ rstats.MaxDistance \in counted /\ \A d \in counted : d <= rstats.MaxDistance
        /\ \A d \in counted : InRange(d)
    BY DEF ExtremeInv
  <2>2. counted \in SUBSET Int
    BY DEF Types
  <2>. QED
    BY <2>1, <2>2, BoundIsExtreme
<1>3. Types /\ ExtremeInv /\ [Next]_vars => ExtremeInv'
  BY ExtremeStep
<1>. QED
  BY <1>1, <1>2, <1>3, RangingTypes, PTL DEF Spec

-----------------------------------------------------------------------------
(* The counters.  A failed audit must leave the correction it belongs to   *)
(* to each worker that has not audited yet.                                *)
CountInv ==
  /\ rstats.Errors = returned["no_peaks"] + returned["no_valid_peaks"]
  /\ rstats.ValidMeasurements = returned["valid"] + Cardinality(At(Waving))
  /\ rstats.Measurements =
       rstats.Errors + rstats.ValidMeasurements
         + returned["low_snr"] + returned["out_of_range"] + Cardinality(At(Unsettled))
  /\ config.thermal =>
       /\ rstats.ThermalCorrections =
            rstats.ValidMeasurements + Cardinality(At(Corrected))
       /\ rstats.VolumeAuditFailures + Cardinality(At(Auditing)) <= rstats.ThermalCorrections

LEMMA ReturnCounts ==
  ASSUME Types, NEW s \in Statuses, Return(s)
  PROVE  \A t \in Statuses : returned'[t] = IF t = s THEN returned[t] + 1 ELSE returned[t]
<1>1. returned \in [Statuses -> Nat]
  BY DEF Types
<1>2. returned' = [returned EXCEPT ![s] = returned[s] + 1]
  BY DEF Return
<1>. QED
  BY <1>1, <1>2

LEMMA CountStep ==
  ASSUME Types, CountInv, [Next]_vars
  PROVE  CountInv'
<1>. DEFINE N == rstats.Measurements
            E == rstats.Errors
            V == rstats.ValidMeasurements
            T == rstats.ThermalCorrections
            A == rstats.VolumeAuditFailures
            np == returned["no_peaks"]
            nv == returned["no_valid_peaks"]
            ls == returned["low_snr"]
            oor == returned["out_of_range"]
            va == returned["valid"]
            U == Cardinality(At(Unsettled))
            C == Cardinality(At(Corrected))
            G == Cardinality(At(Auditing))
            W == Cardinality(At(Waving))
            Balance == /\ E = np + nv
                       /\ V = va + W
                       /\ N = E + V + ls + oor + U
                       /\ config.thermal => T = V + C /\ A + G <= T
<1>1. CountInv <=> Balance
  BY DEF CountInv
<1>2. CountInv' <=> Balance'
  BY DEF CountInv
<1>3. /\ N \in Nat /\ E \in Nat /\ V \in Nat /\ T \in Nat /\ A \in Nat
      /\ np \in Nat /\ nv \in Nat /\ ls \in Nat /\ oor \in Nat /\ va \in Nat
      /\ U \in Nat /\ C \in Nat /\ G \in Nat /\ W \in Nat
  BY AtFinite DEF Types, RStats, Statuses
<1>4. config' = config
  BY DEF Next, Calculate, Enter, NoPeaks, NoValidPeaks, Fail, LowSNR, OutOfRange, Reject,
         Accept, CountCorrection, Audit, CountValid, AddWaveSample, UpdateTemperature, vars
<1>5. ASSUME NEW w \in RangingWorkers, NEW from, NEW to, Go(w, from, to)
      PROVE  /\ U' = U + (IF to \in Unsettled THEN 1 ELSE 0) - (IF from \in Unsettled THEN 1 ELSE 0)
             /\ C' = C + (IF to \in Corrected THEN 1 ELSE 0) - (IF from \in Corrected THEN 1 ELSE 0)
             /\ G' = G + (IF to \in Auditing THEN 1 ELSE 0) - (IF from \in Auditing THEN 1 ELSE 0)
             /\ W' = W + (IF to \in Waving THEN 1 ELSE 0) - (IF from \in Waving THEN 1 ELSE 0)
  <2>1. cpc \in [RangingWorkers -> Places]
    BY DEF Types
  <2>. QED
    BY <1>5, <2>1, GoCounts
<1>. USE <1>1, <1>2, <1>3, <1>4
<1>6. ASSUME NEW w \in RangingWorkers, Enter(w) PROVE Balance'
  <2>1. U' = U + 1 /\ C' = C /\ G' = G /\ W' = W
    BY <1>5, <1>6 DEF Enter, Unsettled, Corrected, Auditing, Waving
  <2>2. N' = N + 1 /\ E' = E /\ V' = V /\ T' = T /\ A' = A /\ UNCHANGED returned
    BY <1>6 DEF Enter, Types, RStats
  <2>. HIDE DEF N, E, V, T, A, U, C, G, W
  <2>. QED
    BY <2>1, <2>2
<1>7. ASSUME NEW w \in RangingWorkers, NEW s \in {"no_peaks", "no_valid_peaks"}, Fail(w, s)
      PROVE  Balance'
  <2>1. U' = U - 1 /\ C' = C /\ G' = G /\ W' = W
    BY <1>5, <1>7 DEF Fail, Unsettled, Corrected, Auditing, Waving
  <2>2. N' = N /\ E' = E + 1 /\ V' = V /\ T' = T /\ A' = A
    BY <1>7 DEF Fail, Types, RStats
  <2>3. /\ ls' = ls /\ oor' = oor /\ va' = va
        /\ \/ np' = np + 1 /\ nv' = nv
           \/ np' = np /\ nv' = nv + 1
    <3>1. Return(s) /\ s \in Statuses
      BY <1>7 DEF Fail, Statuses
    <3>2. \A t \in Statuses : returned'[t] = IF t = s THEN returned[t] + 1 ELSE returned[t]
      BY <3>1, ReturnCounts
    <3>. QED
      BY <1>7, <3>2 DEF Statuses
  <2>. HIDE DEF N, E, V, T, A, U, C, G, W, np, nv, ls, oor, va
  <2>. QED
    BY <2>1, <2>2, <2>3
<1>8. ASSUME NEW w \in RangingWorkers, NEW b \in Bins, NEW s \in {"low_snr", "out_of_range"},
             Reject(w, b, s)
      PROVE  Balance'
  <2>1. U' = U - 1 /\ C' = C /\ G' = G /\ W' = W
    BY <1>5, <1>8 DEF Reject, Unsettled, Corrected, Auditing, Waving
  <2>2. N' = N /\ E' = E /\ V' = V /\ T' = T /\ A' = A
    BY <1>8 DEF Reject
  <2>3. /\ np' = np /\ nv' = nv /\ va' = va
        /\ \/ ls' = ls + 1 /\ oor' = oor
           \/ ls' = ls /\ oor' = oor + 1
    <3>1. Return(s) /\ s \in Statuses
      BY <1>8 DEF Reject, Statuses
    <3>2. \A t \in Statuses : returned'[t] = IF t = s THEN returned[t] + 1 ELSE returned[t]
      BY <3>1, ReturnCounts
    <3>. QED
      BY <1>8, <3>2 DEF Statuses
  <2>. HIDE DEF N, E, V, T, A, U, C, G, W, np, nv, ls, oor, va
  <2>. QED
    BY <2>1, <2>2, <2>3
<1>9. ASSUME NEW w \in RangingWorkers, Accept(w) PROVE Balance'
  <2>1. U' = U /\ C' = C /\ G' = G /\ W' = W
    BY <1>5, <1>9 DEF Accept, Unsettled, Corrected, Auditing, Waving
  <2>2. UNCHANGED <<rstats, returned>>
    BY <1>9 DEF Accept
  <2>. QED
    BY <2>1, <2>2
<1>10. ASSUME NEW w \in RangingWorkers, CountCorrection(w) PROVE Balance'
  <2>1. U' = U /\ C' = C + 1 /\ G' = G + 1 /\ W' = W
    BY <1>5, <1>10 DEF CountCorrection, Unsettled, Corrected, Auditing, Waving
  <2>2. /\ N' = N /\ E' = E /\ V' = V /\ A' = A /\ UNCHANGED returned
        /\ config.thermal => T' = T + 1
    BY <1>10 DEF CountCorrection, Types, RStats
  <2>. HIDE DEF N, E, V, T, A, U, C, G, W
  <2>. QED
    BY <2>1, <2>2
<1>11. ASSUME NEW w \in RangingWorkers, Audit(w) PROVE Balance'
  <2>1. U' = U /\ C' = C /\ G' = G - 1 /\ W' = W
    BY <1>5, <1>11 DEF Audit, Unsettled, Corrected, Auditing, Waving
  <2>2. /\ N' = N /\ E' = E /\ V' = V /\ T' = T /\ UNCHANGED returned
        /\ A' = A \/ A' = A + 1
    BY <1>11 DEF Audit, Types, RStats
  <2>. HIDE DEF N, E, V, T, A, U, C, G, W
  <2>. QED
    BY <2>1, <2>2
<1>12. ASSUME NEW w \in RangingWorkers, CountValid(w) PROVE Balance'
  <2>1. U' = U - 1 /\ C' = C - 1 /\ G' = G /\ W' = W + 1
    BY <1>5, <1>12 DEF CountValid, Unsettled, Corrected, Auditing, Waving
  <2>2. /\ N' = N /\ E' = E /\ V' = V + 1 /\ T' = T /\ A' = A 
        /\ np' = np /\ nv' = nv /\ ls' = ls /\ oor' = oor /\ va' = va
    BY <1>12 DEF CountValid, Types, RStats
  <2>. HIDE DEF N, E, V, T, A, U, C, G, W, np, nv, ls, oor, va
  <2>. QED
    BY <2>1, <2>2
<1>13. ASSUME NEW w \in RangingWorkers, AddWaveSample(w) PROVE Balance'
  <2>1. U' = U /\ C' = C /\ G' = G /\ W' = W - 1
    <3>1. Go(w, "wave", "idle")
      BY <1>13 DEF AddWaveSample
    <3>2. /\ U' = U + (IF "idle" \in Unsettled THEN 1 ELSE 0) - (IF "wave" \in Unsettled THEN 1 ELSE 0)
          /\ C' = C + (IF "idle" \in Corrected THEN 1 ELSE 0) - (IF "wave" \in Corrected THEN 1 ELSE 0)
          /\ G' = G + (IF "idle" \in Auditing THEN 1 ELSE 0) - (IF "wave" \in Auditing THEN 1 ELSE 0)
          /\ W' = W + (IF "idle" \in Waving THEN 1 ELSE 0) - (IF "wave" \in Waving THEN 1 ELSE 0)
      <4>. HIDE DEF U, C, G, W
      <4>. QED
        BY <1>5, <3>1
    <3>3. /\ "idle" \notin Unsettled \cup Corrected \cup Auditing \cup Waving
          /\ "wave" \notin Unsettled \cup Corrected \cup Auditing /\ "wave" \in Waving
      BY DEF Unsettled, Corrected, Auditing, Waving
    <3>. HIDE DEF U, C, G, W
    <3>. QED
      BY <3>2, <3>3
  <2>2. N' = N /\ E' = E /\ V' = V /\ T' = T /\ A' = A
    BY <1>13 DEF AddWaveSample
  <2>3. /\ va' = va + 1
        /\ np' = np /\ nv' = nv /\ ls' = ls /\ oor' = oor
    <3>1. Return("valid")
      BY <1>13 DEF AddWaveSample
    <3>. QED
      BY <3>1, ReturnCounts DEF Statuses
  <2>. HIDE DEF N, E, V, T, A, U, C, G, W, np, nv, ls, oor, va
  <2>. QED
    BY <2>1, <2>2, <2>3
<1>14. ASSUME UNCHANGED <<config, cpc, rstats, returned>> PROVE Balance'
  BY <1>14 DEF At
<1>. QED
  BY <1>6, <1>7, <1>8, <1>9, <1>10, <1>11, <1>12, <1>13, <1>14
     DEF Next, Calculate, NoPeaks, NoValidPeaks, LowSNR, OutOfRange,
         UpdateTemperature, vars

(* The counters account for every call of Calculate by every worker, at    *)
(* any moment GetStats may read them.                                      *)
THEOREM RangingOutcomes == Spec => []OutcomesAccounted
<1>1. Init => CountInv
  <2>. SUFFICES ASSUME Init PROVE CountInv
    OBVIOUS
  <2>1. At(Unsettled) = {} /\ At(Corrected) = {} /\ At(Auditing) = {} /\ At(Waving) = {}
    BY DEF Init, At, Unsettled, Corrected, Auditing, Waving
  <2>2. /\ Cardinality(At(Unsettled)) = 0 /\ Cardinality(At(Corrected)) = 0
        /\ Cardinality(At(Auditing)) = 0 /\ Cardinality(At(Waving)) = 0
    BY <2>1, FS_EmptySet, Zenon
  <2>3. /\ rstats.Measurements = 0 /\ rstats.ValidMeasurements = 0 /\ rstats.Errors = 0
        /\ rstats.ThermalCorrections = 0 /\ rstats.VolumeAuditFailures = 0
        /\ \A s \in Statuses : returned[s] = 0
    BY DEF Init
  <2>. QED
    BY <2>2, <2>3 DEF CountInv, Statuses
<1>2. Types /\ CountInv => OutcomesAccounted
  <2>. SUFFICES ASSUME Types, CountInv PROVE OutcomesAccounted
    OBVIOUS
  <2>1. rstats.VolumeAuditFailures \in Nat /\ rstats.ThermalCorrections \in Nat
        /\ Cardinality(At(Auditing)) \in Nat
    BY AtFinite DEF Types, RStats
  <2>. QED
    BY <2>1 DEF CountInv, OutcomesAccounted, Unsettled, Corrected, Waving
<1>3. Types /\ CountInv /\ [Next]_vars => CountInv'
  BY CountStep
<1>. QED
  BY <1>1, <1>2, <1>3, RangingTypes, PTL DEF Spec
=============================================================================
