---------------------------- MODULE ThermalProofs ----------------------------
(***************************************************************************)
(* Proofs about the thermal corrector's lock and its results, for any      *)
(* workers, feeders and clients, any table and any number of updates.      *)
(*                                                                         *)
(* The inductive invariant has three parts: who may hold, wait for or have *)
(* announced the lock at which place (LockInv); that a result is whole     *)
(* once it is applied, and that the published one is whole whenever a      *)
(* reader can be inside (WholeInv); and that versions only grow on the way *)
(* from the table through a computation to what is published (FreshInv).   *)
(***************************************************************************)
EXTENDS Thermal, TLAPS

Places == {"idle", "average", "integrate", "release", "lock", "publish",
           "publishRest", "relock", "return", "update", "last"}

IsResult(i) ==
  /\ i = [applied |-> i.applied, strain |-> i.strain, volume |-> i.volume, of |-> i.of]
  /\ i.applied \in BOOLEAN
  /\ i.of \in Nat

Shapes ==
  /\ tpc \in [Procs -> Places]
  /\ info = [w \in Workers |-> info[w]] /\ \A w \in Workers : IsResult(info[w])
  /\ got = [c \in Clients |-> got[c]]
  /\ IsResult(lastCorrection)
  /\ version \in Nat
  /\ seen \in [Workers -> Nat]

(* A reader or a waiter is at a place where it has called RLock; the two   *)
(* passes run with the lock held; a writer past Lock is the one announced, *)
(* and its second half of the publication meets no reader.                 *)
LockInv ==
  /\ readers \cap queued = {}
  /\ \A p \in readers :
       p \in Procs /\ tpc[p] \in {"average", "integrate", "release", "return", "last"}
  /\ \A p \in queued : p \in Procs /\ tpc[p] \in {"average", "return", "last"}
  /\ \A p \in Procs : tpc[p] \in {"integrate", "release"} => p \in readers
  /\ \A p \in Procs : tpc[p] \in {"publish", "publishRest", "update"} => writer = p
  /\ \A p \in Procs : tpc[p] = "publishRest" => readers = {}

Table == [r \in Rings |-> RingTemp(r)]

WholeInv ==
  /\ \A w \in Workers :
       /\ info[w].applied => Whole(info[w])
       /\ tpc[w] \in {"average", "integrate"} => ~info[w].applied
       /\ tpc[w] = "integrate" => info[w].strain = Table
       /\ tpc[w] \in {"release", "lock", "publish", "publishRest"} => info[w].applied
       /\ tpc[w] = "publishRest" => lastCorrection.strain = info[w].strain
  /\ (\A w \in Workers : tpc[w] # "publishRest") => Whole(lastCorrection)
  /\ \A c \in Clients : Whole(got[c])

FreshInv ==
  /\ lastCorrection.of <= version
  /\ \A w \in Workers :
       /\ seen[w] <= version /\ info[w].of <= version
       /\ tpc[w] \in {"integrate", "release", "lock", "publish"} => seen[w] <= info[w].of

ThermalInv == Shapes /\ LockInv /\ WholeInv /\ FreshInv

-----------------------------------------------------------------------------
LEMMA Disjoint == NoOne \notin Procs /\ Workers \subseteq Procs
                  /\ Feeders \subseteq Procs /\ Clients \subseteq Procs
BY ThermalAssumption DEF Procs

LEMMA ThermalInit == Init => ThermalInv
<1>. SUFFICES ASSUME Init PROVE ThermalInv
  OBVIOUS
<1>. USE Disjoint DEF Init
<1>1. IsResult(NoInfo) /\ NoInfo.of = 0 /\ ~NoInfo.applied /\ Whole(NoInfo)
  BY DEF NoInfo, IsResult, Whole
<1>2. Shapes
  BY <1>1 DEF Shapes, Places
<1>3. LockInv
  BY DEF LockInv
<1>4. WholeInv
  BY <1>1 DEF WholeInv
<1>5. FreshInv
  BY <1>1 DEF FreshInv
<1>. QED
  BY <1>2, <1>3, <1>4, <1>5 DEF ThermalInv

-----------------------------------------------------------------------------
(* The lock.                                                               *)
LEMMA RLockKeeps ==
  ASSUME tpc \in [Procs -> Places], LockInv, NEW p \in Procs, NEW from, NEW to, Go(p, from, to),
         RLock(p), from \in {"idle", "relock"}, to \in {"average", "return", "last"}
  PROVE  LockInv'
BY Disjoint DEF LockInv, Go, At, RLock

LEMMA RUnlockKeeps ==
  ASSUME tpc \in [Procs -> Places], LockInv, NEW p \in Procs, NEW from, NEW to, Go(p, from, to),
         RUnlock(p), p \in readers, to \in {"idle", "lock"}
  PROVE  LockInv'
BY Disjoint DEF LockInv, Go, At, RUnlock

LEMMA LockKeeps ==
  ASSUME tpc \in [Procs -> Places], LockInv, NEW p \in Procs, NEW from, NEW to, Go(p, from, to),
         LockAnnounced(p), from \in {"idle", "lock"}, to \in {"publish", "update"}
  PROVE  LockInv'
<1>1. /\ p \notin readers /\ p \notin queued /\ UNCHANGED <<readers, queued>>
      /\ writer' = p /\ tpc' = [tpc EXCEPT ![p] = to]
  BY DEF LockInv, Go, At, LockAnnounced
<1>2. \A q \in Procs : tpc[q] \notin {"publish", "publishRest", "update"}
  BY Disjoint DEF LockInv, LockAnnounced
<1>. QED
  BY <1>1, <1>2 DEF LockInv

LEMMA UnlockKeeps ==
  ASSUME tpc \in [Procs -> Places], LockInv, NEW p \in Procs, NEW from, NEW to, Go(p, from, to),
         Unlock, writer = p, readers = {}, from \in {"publishRest", "update"},
         to \in {"relock", "idle"}
  PROVE  LockInv'
<1>1. /\ p \notin queued /\ readers' = queued /\ queued' = {}
      /\ tpc' = [tpc EXCEPT ![p] = to]
  BY DEF LockInv, Go, At, Unlock
<1>2. \A q \in Procs : tpc[q] \notin {"integrate", "release"}
                       /\ (q # p => tpc[q] \notin {"publish", "publishRest", "update"})
  BY DEF LockInv
<1>. QED
  BY <1>1, <1>2 DEF LockInv

LEMMA HoldKeeps ==
  ASSUME tpc \in [Procs -> Places], LockInv, NEW p \in Procs, NEW from, NEW to, Go(p, from, to),
         UNCHANGED lockVars,
         \/ p \in readers /\ to \in {"integrate", "release"}
         \/ from = "publish" /\ HasLock(p) /\ to = "publishRest"
  PROVE  LockInv'
<1>1. tpc' = [tpc EXCEPT ![p] = to] /\ UNCHANGED <<readers, queued, writer>>
  BY DEF Go, lockVars
<1>2. p \notin queued
  BY DEF LockInv, Go, At
<1>3. CASE p \in readers /\ to \in {"integrate", "release"}
  BY <1>1, <1>2, <1>3 DEF LockInv
<1>4. CASE HasLock(p) /\ to = "publishRest"
  BY <1>1, <1>2, <1>4 DEF LockInv, HasLock
<1>. QED
  BY <1>3, <1>4

-----------------------------------------------------------------------------
(* The steps of a computation.  The rings' temperatures are those of the   *)
(* table, which only Update changes.                                       *)
LEMMA SameTable ==
  ASSUME UNCHANGED wallTempBuf
  PROVE  Table' = Table
BY DEF Table, RingTemp

(* What a worker's step does to its own result leaves the others' alone.   *)
LEMMA OwnResult ==
  ASSUME Shapes, NEW w \in Workers, NEW i, IsResult(i), info' = [info EXCEPT ![w] = i]
  PROVE  /\ info'[w] = i /\ \A v \in Workers : v # w => info'[v] = info[v]
         /\ info' = [v \in Workers |-> info'[v]]
         /\ \A v \in Workers : IsResult(info'[v])
BY DEF Shapes

(* Updating the fields of a result replaces them.                          *)
LEMMA UpdateVolume ==
  \A r, x : IsResult(r) =>
    [r EXCEPT !.volume = x] =
      [applied |-> r.applied, strain |-> r.strain, volume |-> x, of |-> r.of]
BY DEF IsResult

LEMMA UpdateStrain ==
  \A r, x : IsResult(r) =>
    [r EXCEPT !.strain = x] =
      [applied |-> r.applied, strain |-> x, volume |-> r.volume, of |-> r.of]
BY DEF IsResult

LEMMA UpdateFirst ==
  \A r, x, y : IsResult(r) =>
    [r EXCEPT !.strain = x, !.of = y] =
      [applied |-> r.applied, strain |-> x, volume |-> r.volume, of |-> y]
<1>. TAKE r, x, y
<1>. HAVE IsResult(r)
<1>. DEFINE j == [r EXCEPT !.strain = x]
<1>1. j = [applied |-> r.applied, strain |-> x, volume |-> r.volume, of |-> r.of]
  BY UpdateStrain
<1>2. [j EXCEPT !.of = y] =
        [applied |-> r.applied, strain |-> x, volume |-> r.volume, of |-> y]
  <2>. HIDE DEF j
  <2>. QED
    BY <1>1
<1>. QED
  BY <1>2, Zenon

LEMMA UpdateSecond ==
  \A r, x, y : IsResult(r) =>
    [r EXCEPT !.volume = x, !.applied = y] =
      [applied |-> y, strain |-> r.strain, volume |-> x, of |-> r.of]
<1>. TAKE r, x, y
<1>. HAVE IsResult(r)
<1>. DEFINE j == [r EXCEPT !.volume = x]
<1>1. j = [applied |-> r.applied, strain |-> r.strain, volume |-> x, of |-> r.of]
  BY UpdateVolume
<1>2. [j EXCEPT !.applied = y] =
        [applied |-> y, strain |-> r.strain, volume |-> x, of |-> r.of]
  <2>. HIDE DEF j
  <2>. QED
    BY <1>1
<1>. QED
  BY <1>2, Zenon

LEMMA BeginKeeps ==
  ASSUME ThermalInv, NEW w \in Workers, Begin(w)
  PROVE  ThermalInv'
<1>. USE Disjoint DEF ThermalInv
<1>1. IsResult(NoInfo) /\ NoInfo.of = 0 /\ ~NoInfo.applied /\ Whole(NoInfo)
  BY DEF NoInfo, IsResult, Whole
<1>2. /\ info'[w] = NoInfo /\ \A v \in Workers : v # w => info'[v] = info[v]
      /\ info' = [v \in Workers |-> info'[v]]
      /\ \A v \in Workers : IsResult(info'[v])
  BY <1>1, OwnResult DEF Begin
<1>3. /\ Go(w, "idle", "average") /\ RLock(w)
      /\ tpc[w] = "idle" /\ tpc' = [tpc EXCEPT ![w] = "average"]
      /\ seen' = [seen EXCEPT ![w] = version]
      /\ UNCHANGED <<wallTempBuf, lastCorrection, got, version>>
  BY DEF Begin, Go, At
<1>4. Shapes'
  BY <1>2, <1>3 DEF Shapes, Places, IsResult
<1>5. LockInv'
  BY <1>3, RLockKeeps DEF Shapes
<1>6. WholeInv'
  BY <1>1, <1>2, <1>3, SameTable DEF WholeInv, Shapes
<1>7. FreshInv'
  BY <1>1, <1>2, <1>3 DEF FreshInv, Shapes
<1>. QED
  BY <1>4, <1>5, <1>6, <1>7

(* Steps that change no result: only the lock and the worker's place.      *)
LEMMA PlaceKeeps ==
  ASSUME ThermalInv, NEW p \in Procs, NEW from, NEW to, Go(p, from, to), LockInv',
         UNCHANGED <<wallTempBuf, lastCorrection, info, got, version, seen>>,
         <<from, to>> \in {<<"average", "idle">>, <<"release", "lock">>, <<"lock", "publish">>,
                           <<"relock", "return">>, <<"return", "idle">>,
                           <<"idle", "update">>, <<"idle", "last">>}
  PROVE  ThermalInv'
<1>. USE DEF ThermalInv
<1>1. tpc[p] = from /\ tpc' = [tpc EXCEPT ![p] = to]
  BY DEF Go, At
<1>2. Shapes'
  BY <1>1 DEF Shapes, Places, IsResult
<1>3. \A w \in Workers :
        /\ tpc'[w] \in {"average", "integrate", "release", "publishRest"} => tpc'[w] = tpc[w]
        /\ tpc'[w] = "lock" => tpc[w] \in {"release", "lock"}
        /\ tpc'[w] = "publish" => tpc[w] \in {"lock", "publish"}
        /\ tpc[w] = "publishRest" => tpc'[w] = "publishRest"
  BY <1>1, Disjoint DEF Shapes
<1>4. WholeInv'
  BY <1>3, SameTable DEF WholeInv, Whole
<1>5. FreshInv'
  BY <1>3 DEF FreshInv
<1>. QED
  BY <1>2, <1>4, <1>5

LEMMA AverageKeeps ==
  ASSUME ThermalInv, NEW w \in Workers, Average(w)
  PROVE  ThermalInv'
<1>. USE Disjoint DEF ThermalInv
<1>. DEFINE i == [applied |-> info[w].applied, strain |-> Table,
                  volume |-> info[w].volume, of |-> version]
<1>1. IsResult(i) /\ info' = [info EXCEPT ![w] = i]
  <2>1. IsResult(info[w]) /\ version \in Nat /\ info = [v \in Workers |-> info[v]]
    BY DEF Shapes
  <2>2. [info[w] EXCEPT !.strain = Table, !.of = version] = i
    BY <2>1, UpdateFirst, Zenon
  <2>3. info' = [info EXCEPT ![w] = [info[w] EXCEPT !.strain = Table, !.of = version]]
    <3>1. info' = [info EXCEPT ![w].strain = Table, ![w].of = version]
      BY DEF Average, Table
    <3>. HIDE DEF Table
    <3>. QED
      BY <2>1, <3>1
  <2>4. IsResult(i)
    BY <2>1 DEF IsResult
  <2>. QED
    BY <2>2, <2>3, <2>4
<1>2. /\ info'[w] = i /\ \A v \in Workers : v # w => info'[v] = info[v]
      /\ info' = [v \in Workers |-> info'[v]]
      /\ \A v \in Workers : IsResult(info'[v])
  BY <1>1, OwnResult
<1>3. /\ Go(w, "average", "integrate") /\ w \in readers /\ UNCHANGED lockVars
      /\ tpc[w] = "average" /\ tpc' = [tpc EXCEPT ![w] = "integrate"]
      /\ UNCHANGED <<wallTempBuf, lastCorrection, got, version, seen>>
  BY DEF Average, Go, At
<1>4. Shapes'
  BY <1>2, <1>3 DEF Shapes, Places, IsResult
<1>5. LockInv'
  BY <1>3, HoldKeeps DEF Shapes
<1>6. WholeInv'
  BY <1>2, <1>3, SameTable DEF WholeInv, Shapes
<1>7. FreshInv'
  BY <1>2, <1>3 DEF FreshInv, Shapes
<1>. QED
  BY <1>4, <1>5, <1>6, <1>7

LEMMA IntegrateKeeps ==
  ASSUME ThermalInv, NEW w \in Workers, Integrate(w)
  PROVE  ThermalInv'
<1>. USE Disjoint DEF ThermalInv
<1>. DEFINE i == [applied |-> TRUE, strain |-> info[w].strain,
                  volume |-> Table, of |-> info[w].of]
<1>1. IsResult(i) /\ info' = [info EXCEPT ![w] = i]
  <2>1. IsResult(info[w]) /\ info = [v \in Workers |-> info[v]]
    BY DEF Shapes
  <2>2. [info[w] EXCEPT !.volume = Table, !.applied = TRUE] = i
    BY <2>1, UpdateSecond, Zenon
  <2>3. info' = [info EXCEPT ![w] = [info[w] EXCEPT !.volume = Table, !.applied = TRUE]]
    <3>1. info' = [info EXCEPT ![w].volume = Table, ![w].applied = TRUE]
      BY DEF Integrate, Table
    <3>. HIDE DEF Table
    <3>. QED
      BY <2>1, <3>1
  <2>4. IsResult(i)
    BY <2>1 DEF IsResult
  <2>. QED
    BY <2>2, <2>3, <2>4
<1>2. /\ info'[w] = i /\ \A v \in Workers : v # w => info'[v] = info[v]
      /\ info' = [v \in Workers |-> info'[v]]
      /\ \A v \in Workers : IsResult(info'[v])
  BY <1>1, OwnResult
<1>3. /\ Go(w, "integrate", "release") /\ UNCHANGED lockVars
      /\ tpc[w] = "integrate" /\ tpc' = [tpc EXCEPT ![w] = "release"]
      /\ UNCHANGED <<wallTempBuf, lastCorrection, got, version, seen>>
  BY DEF Integrate, Go, At
<1>4. Shapes'
  BY <1>2, <1>3 DEF Shapes, Places, IsResult
<1>5. w \in readers
  BY <1>3 DEF LockInv
<1>6. LockInv'
  BY <1>3, <1>5, HoldKeeps DEF Shapes
<1>7. WholeInv'
  BY <1>2, <1>3, SameTable DEF WholeInv, Whole, Shapes
<1>8. FreshInv'
  BY <1>2, <1>3 DEF FreshInv, Shapes
<1>. QED
  BY <1>4, <1>6, <1>7, <1>8

(* The halves of the publication: a reader sees neither of them alone.     *)
LEMMA PublishKeeps ==
  ASSUME ThermalInv, NEW w \in Workers, Publish(w)
  PROVE  ThermalInv'
<1>. USE Disjoint DEF ThermalInv
<1>1. /\ Go(w, "publish", "publishRest") /\ HasLock(w) /\ UNCHANGED lockVars
      /\ tpc[w] = "publish" /\ tpc' = [tpc EXCEPT ![w] = "publishRest"]
      /\ UNCHANGED <<wallTempBuf, info, got, version, seen>>
  BY DEF Publish, Go, At
<1>2. lastCorrection' = [applied |-> info[w].applied, strain |-> info[w].strain,
                         volume |-> lastCorrection.volume, of |-> info[w].of]
  <2>1. IsResult(info[w])
    BY DEF Shapes
  <2>2. lastCorrection' = [info[w] EXCEPT !.volume = lastCorrection.volume]
    BY DEF Publish
  <2>. QED
    BY <2>1, <2>2, UpdateVolume, Zenon
<1>3. Shapes'
  BY <1>1, <1>2 DEF Shapes, Places, IsResult
<1>4. LockInv'
  BY <1>1, HoldKeeps DEF Shapes
<1>5. \A v \in Workers : v # w => tpc[v] \notin {"publish", "publishRest"}
  BY <1>1 DEF LockInv, HasLock
<1>6. WholeInv'
  BY <1>1, <1>2, <1>5, SameTable DEF WholeInv, Whole, Shapes
<1>7. FreshInv'
  BY <1>1, <1>2 DEF FreshInv, Shapes
<1>. QED
  BY <1>3, <1>4, <1>6, <1>7

LEMMA PublishRestKeeps ==
  ASSUME ThermalInv, NEW w \in Workers, PublishRest(w)
  PROVE  ThermalInv'
<1>. USE Disjoint DEF ThermalInv
<1>1. /\ Go(w, "publishRest", "relock") /\ Unlock
      /\ tpc[w] = "publishRest" /\ tpc' = [tpc EXCEPT ![w] = "relock"]
      /\ UNCHANGED <<wallTempBuf, info, got, version, seen>>
  BY DEF PublishRest, Go, At
<1>2. lastCorrection' =
        [applied |-> lastCorrection.applied, strain |-> lastCorrection.strain,
         volume |-> info[w].volume, of |-> lastCorrection.of]
  <2>1. IsResult(lastCorrection)
    BY DEF Shapes
  <2>2. lastCorrection' = [lastCorrection EXCEPT !.volume = info[w].volume]
    BY DEF PublishRest
  <2>. QED
    BY <2>1, <2>2, UpdateVolume, Zenon
<1>3. Shapes'
  BY <1>1, <1>2 DEF Shapes, Places, IsResult
<1>4. writer = w /\ readers = {}
  BY <1>1 DEF LockInv
<1>5. LockInv'
  BY <1>1, <1>4, UnlockKeeps DEF Shapes
<1>6. Whole(lastCorrection)'
  <2>1. Whole(info[w]) /\ lastCorrection.strain = info[w].strain
    BY <1>1 DEF WholeInv
  <2>. QED
    BY <1>2, <2>1 DEF Whole
<1>7. WholeInv'
  BY <1>1, <1>4, <1>6, SameTable DEF WholeInv, Shapes, LockInv
<1>8. FreshInv'
  BY <1>1, <1>2 DEF FreshInv, Shapes
<1>. QED
  BY <1>3, <1>5, <1>7, <1>8

(* An update meets no reader, so that no computation is between its passes. *)
LEMMA UpdateKeeps ==
  ASSUME ThermalInv, NEW f \in Feeders, Update(f)
  PROVE  ThermalInv'
<1>. USE Disjoint DEF ThermalInv
<1>1. /\ Go(f, "update", "idle") /\ Unlock /\ writer = f /\ readers = {}
      /\ tpc[f] = "update" /\ tpc' = [tpc EXCEPT ![f] = "idle"]
      /\ version' = version + 1
      /\ UNCHANGED <<lastCorrection, info, got, seen>>
  BY DEF Update, Go, At, HasLock
<1>2. Shapes'
  BY <1>1 DEF Shapes, Places, IsResult
<1>3. LockInv'
  BY <1>1, UnlockKeeps DEF Shapes
<1>4. \A w \in Workers : tpc[w] # "integrate"
  BY <1>1 DEF LockInv
<1>5. \A w \in Workers :
        /\ tpc'[w] # "integrate"
        /\ tpc'[w] \in {"average", "release", "lock", "publish", "publishRest"} => tpc'[w] = tpc[w]
        /\ tpc[w] = "publishRest" => tpc'[w] = "publishRest"
  BY <1>1, <1>4 DEF Shapes
<1>6. WholeInv'
  BY <1>1, <1>5 DEF WholeInv, Whole
<1>7. \A w \in Workers : seen[w] \in Nat /\ info[w].of \in Nat
      /\ lastCorrection.of \in Nat /\ version \in Nat
  BY DEF Shapes, IsResult
<1>8. FreshInv'
  BY <1>1, <1>5, <1>7 DEF FreshInv, Shapes, IsResult
<1>. QED
  BY <1>2, <1>3, <1>6, <1>8

LEMMA LastKeeps ==
  ASSUME ThermalInv, NEW c \in Clients, Last(c)
  PROVE  ThermalInv'
<1>. USE Disjoint DEF ThermalInv
<1>1. /\ Go(c, "last", "idle") /\ RUnlock(c) /\ c \in readers
      /\ tpc[c] = "last" /\ tpc' = [tpc EXCEPT ![c] = "idle"]
      /\ got' = [got EXCEPT ![c] = lastCorrection]
      /\ UNCHANGED <<wallTempBuf, lastCorrection, info, version, seen>>
  BY DEF Last, Go, At
<1>2. Shapes'
  BY <1>1 DEF Shapes, Places, IsResult
<1>3. LockInv'
  BY <1>1, RUnlockKeeps DEF Shapes
<1>4. Whole(lastCorrection)
  BY <1>1 DEF LockInv, WholeInv
<1>5. \A d \in Clients : Whole(got'[d])
  BY <1>1, <1>4 DEF WholeInv, Shapes
<1>6. \A w \in Workers : tpc'[w] \notin {"idle", "last"} => tpc'[w] = tpc[w]
  BY <1>1 DEF Shapes
<1>7. WholeInv'
  BY <1>1, <1>4, <1>5, <1>6, SameTable DEF WholeInv, Whole
<1>8. FreshInv'
  BY <1>1, <1>6 DEF FreshInv
<1>. QED
  BY <1>2, <1>3, <1>7, <1>8

-----------------------------------------------------------------------------
LEMMA ThermalStep == ThermalInv /\ [Next]_vars => ThermalInv'
<1>. SUFFICES ASSUME ThermalInv, [Next]_vars PROVE ThermalInv'
  OBVIOUS
<1>. USE Disjoint
<1>0. tpc \in [Procs -> Places] /\ LockInv
  BY DEF ThermalInv, Shapes
<1>1. ASSUME NEW w \in Workers, Disabled(w) PROVE ThermalInv'
  <2>1. Go(w, "average", "idle") /\ RUnlock(w) /\ w \in readers
    BY <1>1 DEF Disabled
  <2>2. LockInv'
    BY <1>0, <2>1, RUnlockKeeps
  <2>. QED
    BY <1>1, <2>1, <2>2, PlaceKeeps DEF Disabled
<1>2. ASSUME NEW w \in Workers, Release(w) PROVE ThermalInv'
  <2>1. Go(w, "release", "lock") /\ RUnlock(w)
    BY <1>2 DEF Release
  <2>2. w \in readers
    BY <1>0, <2>1 DEF LockInv, Go, At
  <2>3. LockInv'
    BY <1>0, <2>1, <2>2, RUnlockKeeps
  <2>. QED
    BY <1>2, <2>1, <2>3, PlaceKeeps DEF Release
<1>3. ASSUME NEW w \in Workers, LockResult(w) PROVE ThermalInv'
  <2>1. Go(w, "lock", "publish") /\ LockAnnounced(w)
    BY <1>3 DEF LockResult
  <2>2. LockInv'
    BY <1>0, <2>1, LockKeeps
  <2>. QED
    BY <1>3, <2>1, <2>2, PlaceKeeps DEF LockResult
<1>4. ASSUME NEW w \in Workers, Relock(w) PROVE ThermalInv'
  <2>1. Go(w, "relock", "return") /\ RLock(w)
    BY <1>4 DEF Relock
  <2>2. LockInv'
    BY <1>0, <2>1, RLockKeeps
  <2>. QED
    BY <1>4, <2>1, <2>2, PlaceKeeps DEF Relock
<1>5. ASSUME NEW w \in Workers, Return(w) PROVE ThermalInv'
  <2>1. Go(w, "return", "idle") /\ RUnlock(w) /\ w \in readers
    BY <1>5 DEF Return
  <2>2. LockInv'
    BY <1>0, <2>1, RUnlockKeeps
  <2>. QED
    BY <1>5, <2>1, <2>2, PlaceKeeps DEF Return
<1>6. ASSUME NEW f \in Feeders, BeginUpdate(f) PROVE ThermalInv'
  <2>1. Go(f, "idle", "update") /\ LockAnnounced(f)
    BY <1>6 DEF BeginUpdate
  <2>2. LockInv'
    BY <1>0, <2>1, LockKeeps
  <2>. QED
    BY <1>6, <2>1, <2>2, PlaceKeeps DEF BeginUpdate
<1>7. ASSUME NEW c \in Clients, BeginLast(c) PROVE ThermalInv'
  <2>1. Go(c, "idle", "last") /\ RLock(c)
    BY <1>7 DEF BeginLast
  <2>2. LockInv'
    BY <1>0, <2>1, RLockKeeps
  <2>. QED
    BY <1>7, <2>1, <2>2, PlaceKeeps DEF BeginLast
<1>8. ASSUME NEW w \in Workers, Begin(w) \/ Compute(w) \/ LockResult(w)
      PROVE  ThermalInv'
  BY <1>1, <1>2, <1>3, <1>4, <1>5, <1>8, BeginKeeps, AverageKeeps, IntegrateKeeps,
     PublishKeeps, PublishRestKeeps DEF Compute
<1>9. ASSUME UNCHANGED vars PROVE ThermalInv'
  BY <1>9, SameTable
     DEF vars, lockVars, ThermalInv, Shapes, LockInv, WholeInv, FreshInv, Whole, IsResult
<1>. QED
  BY <1>6, <1>7, <1>8, <1>9, UpdateKeeps, LastKeeps DEF Next, Step

LEMMA ThermalInvariant == Spec => []ThermalInv
BY ThermalInit, ThermalStep, PTL DEF Spec

-----------------------------------------------------------------------------
(* What a caller is given, and what LastCorrection returns, was computed   *)
(* from one state of the table, for any number of goroutines.              *)
THEOREM ThermalResultsWhole == Spec => []ResultsAreWhole
<1>1. ThermalInv => ResultsAreWhole
  BY DEF ThermalInv, WholeInv, ResultsAreWhole
<1>. QED
  BY <1>1, ThermalInvariant, PTL

(* A published result was computed from the table as it was when its       *)
(* computation began, or later.                                            *)
THEOREM ThermalNeverStale == Spec => NeverPublishesStale
<1>. DEFINE Fresh ==
       \A w \in Workers :
         tpc[w] = "publish" /\ tpc'[w] # "publish" => lastCorrection'.of >= seen[w]
<1>1. ThermalInv /\ [Next]_vars => [Fresh]_vars
  <2>. SUFFICES ASSUME ThermalInv, Next, NEW w \in Workers,
                       tpc[w] = "publish", tpc'[w] # "publish"
                PROVE  lastCorrection'.of >= seen[w]
    OBVIOUS
  <2>1. Publish(w)
    <3>1. ASSUME NEW p \in Procs, NEW from, NEW to, Go(p, from, to), from # "publish"
          PROVE  FALSE
      BY <3>1 DEF Go, At, ThermalInv, Shapes
    <3>2. ASSUME NEW v \in Workers, Publish(v) PROVE v = w
      BY <3>2, Disjoint DEF Publish, Go, At, ThermalInv, Shapes
    <3>3. ASSUME NEW v \in Workers, Begin(v) \/ Compute(v) \/ LockResult(v)
          PROVE  Publish(w)
      BY <3>1, <3>2, <3>3, Disjoint
         DEF Begin, Compute, Disabled, Average, Integrate, Release, LockResult,
             PublishRest, Relock, Return
    <3>. QED
      BY <3>1, <3>3, Disjoint DEF Next, Step, BeginUpdate, Update, BeginLast, Last
  <2>2. lastCorrection'.of = info[w].of
    <3>1. IsResult(info[w]) /\ lastCorrection' = [info[w] EXCEPT !.volume = lastCorrection.volume]
      BY <2>1 DEF Publish, ThermalInv, Shapes
    <3>2. lastCorrection' = [applied |-> info[w].applied, strain |-> info[w].strain,
                             volume |-> lastCorrection.volume, of |-> info[w].of]
      BY <3>1, UpdateVolume, Zenon
    <3>. QED
      BY <3>2
  <2>3. seen[w] <= info[w].of /\ seen[w] \in Nat /\ info[w].of \in Nat
    BY DEF ThermalInv, FreshInv, Shapes, IsResult
  <2>. QED
    BY <2>2, <2>3
<1>. QED
  BY <1>1, ThermalInvariant, PTL DEF Spec, NeverPublishesStale
=============================================================================
