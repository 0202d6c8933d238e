------------------------------ MODULE Thermal ------------------------------
(***************************************************************************)
(* The thermal deformation corrector: a table of wall temperatures behind  *)
(* a sync.RWMutex, updated by sensor feeds, read twice by each computation *)
(* (once for the rings' deformation, once for the volume integral), and    *)
(* the last result, which a computation publishes by giving up its read    *)
(* lock, taking the write lock, and taking the read lock again.            *)
(*                                                                         *)
(* The deformation of a ring is abstracted to the ring temperature it is   *)
(* computed from.  Temperatures are integers in quarter degrees.             *)
(***************************************************************************)
EXTENDS Integers, Sequences, FiniteSets, FiniteSetsExt

CONSTANTS
  Workers,     \* goroutines that call CorrectVolume
  Feeders,     \* goroutines that call UpdateWallTemp and UpdateBulkTemps
  Clients,     \* goroutines that call LastCorrection
  NoOne,
  RingCount, SensorsPerRing,
  TankDesignTempC,  \* in quarter degrees
  Temperatures, \* bound: temperatures the feeds report, in quarter degrees
  MaxUpdates    \* bound: updates of the table

ASSUME ThermalAssumption ==
  /\ NoOne \notin Workers \cup Feeders \cup Clients
  /\ RingCount \in Nat \ {0}
  /\ SensorsPerRing \in Nat \ {0}
  /\ TankDesignTempC \in Int
  /\ Temperatures \subseteq Int
  /\ MaxUpdates \in Nat

VARIABLES
  enabled,         \* cfg.EnableThermalDeformation, never changed
  wallTempBuf,     \* the table
  lastCorrection,  \* the result last published
  info,            \* the result each worker is computing, or has returned
  got,             \* what each client read last
  tpc,             \* where each goroutine is
  readers,         \* RWMutex: goroutines that hold the read lock
  queued,          \* RWMutex: goroutines waiting for the read lock
  writer,          \* RWMutex: the goroutine that has announced or holds the write lock
  version,         \* history: updates of the table so far
  seen             \* history: version of the table when the worker began

lockVars == <<readers, queued, writer>>
vars == <<enabled, wallTempBuf, lastCorrection, info, got, tpc, lockVars, version, seen>>

Procs == Workers \cup Feeders \cup Clients
Rings == 1..RingCount
Sensors == 1..SensorsPerRing

Plausible(t) == -240 < t /\ t < 600

DesignRings == [r \in Rings |-> TankDesignTempC]
NoInfo == [applied |-> FALSE, strain |-> DesignRings, volume |-> DesignRings, of |-> 0]

At(p, from) == tpc[p] = from
Go(p, from, to) == At(p, from) /\ tpc' = [tpc EXCEPT ![p] = to]

-----------------------------------------------------------------------------
(* sync.RWMutex: a pending writer blocks new readers, waits for the old    *)
(* ones, and lets every waiting reader in when it unlocks.                 *)
RLock(p) ==
  /\ IF writer = NoOne
       THEN readers' = readers \cup {p} /\ queued' = queued
       ELSE readers' = readers /\ queued' = queued \cup {p}
  /\ UNCHANGED writer

RUnlock(p) ==
  /\ readers' = readers \ {p}
  /\ UNCHANGED <<queued, writer>>

LockAnnounced(p) ==
  /\ writer = NoOne
  /\ writer' = p
  /\ UNCHANGED <<readers, queued>>

HasLock(p) == writer = p /\ readers = {}

Unlock ==
  /\ writer' = NoOne
  /\ readers' = queued
  /\ queued' = {}

-----------------------------------------------------------------------------
(* The average of the plausible sensors of a ring; the design temperature  *)
(* when there is none.                                                     *)
RingAverage(temps) ==
  LET good == {s \in Sensors : Plausible(temps[s])}
  IN  IF good = {}
        THEN TankDesignTempC
        ELSE MapThenSumSet(LAMBDA s : temps[s], good) \div Cardinality(good)

RingTemp(r) == RingAverage(wallTempBuf[r])

(* ComputeDeformation, entered with the read lock.                         *)
BeginReuses(w) ==  \* mutant: a worker keeps its last result
  /\ Go(w, "idle", IF info[w].applied THEN "release" ELSE "average")
  /\ RLock(w)
  /\ seen' = [seen EXCEPT ![w] = version]
  /\ UNCHANGED <<wallTempBuf, lastCorrection, info, got, version>>

Begin(w) ==
  /\ Go(w, "idle", "average")
  /\ RLock(w)
  /\ seen' = [seen EXCEPT ![w] = version]
  /\ info' = [info EXCEPT ![w] = NoInfo]
  /\ UNCHANGED <<wallTempBuf, lastCorrection, got, version>>

Disabled(w) ==
  /\ ~enabled
  /\ w \in readers
  /\ Go(w, "average", "idle")
  /\ RUnlock(w)
  /\ UNCHANGED <<wallTempBuf, lastCorrection, info, got, version, seen>>

AverageReleases(w) ==  \* mutant: the read lock does not span both passes
  /\ enabled
  /\ w \in readers
  /\ Go(w, "average", "integrate")
  /\ info' = [info EXCEPT ![w].strain = [r \in Rings |-> RingTemp(r)],
                          ![w].of = version]
  /\ RUnlock(w)
  /\ UNCHANGED <<wallTempBuf, lastCorrection, got, version, seen>>

Average(w) ==
  /\ enabled
  /\ w \in readers
  /\ Go(w, "average", "integrate")
  /\ info' = [info EXCEPT ![w].strain = [r \in Rings |-> RingTemp(r)],
                          ![w].of = version]
  /\ UNCHANGED <<wallTempBuf, lastCorrection, got, lockVars, version, seen>>

(* integrateVolumeExpansion reads the table again.                         *)
Integrate(w) ==
  /\ Go(w, "integrate", "release")
  /\ info' = [info EXCEPT ![w].volume = [r \in Rings |-> RingTemp(r)],
                          ![w].applied = TRUE]
  /\ UNCHANGED <<wallTempBuf, lastCorrection, got, lockVars, version, seen>>

(* The exchange of the read lock for the write lock, and back.             *)
ReleaseNothing(w) ==  \* mutant: Lock is called with the read lock held
  /\ Go(w, "release", "lock")
  /\ UNCHANGED <<wallTempBuf, lastCorrection, info, got, lockVars, version, seen>>

Release(w) ==
  /\ Go(w, "release", "lock")
  /\ RUnlock(w)
  /\ UNCHANGED <<wallTempBuf, lastCorrection, info, got, version, seen>>

LockResult(w) ==
  /\ Go(w, "lock", "publish")
  /\ LockAnnounced(w)
  /\ UNCHANGED <<wallTempBuf, lastCorrection, info, got, version, seen>>

(* The result is many words: its halves are stored one after the other.    *)
Publish(w) ==
  /\ HasLock(w)
  /\ Go(w, "publish", "publishRest")
  /\ lastCorrection' = [info[w] EXCEPT !.volume = lastCorrection.volume]
  /\ UNCHANGED <<wallTempBuf, info, got, lockVars, version, seen>>

PublishRest(w) ==
  /\ Go(w, "publishRest", "relock")
  /\ lastCorrection' = [lastCorrection EXCEPT !.volume = info[w].volume]
  /\ Unlock
  /\ UNCHANGED <<wallTempBuf, info, got, version, seen>>

Relock(w) ==
  /\ Go(w, "relock", "return")
  /\ RLock(w)
  /\ UNCHANGED <<wallTempBuf, lastCorrection, info, got, version, seen>>

Return(w) ==
  /\ w \in readers
  /\ Go(w, "return", "idle")
  /\ RUnlock(w)
  /\ UNCHANGED <<wallTempBuf, lastCorrection, info, got, version, seen>>

-----------------------------------------------------------------------------
(* The feeds.  A reading outside the table or implausible changes nothing. *)
UpdateWallTemp(r, s, valid, t) ==
  wallTempBuf' =
    IF r \in Rings /\ s \in Sensors /\ valid /\ Plausible(t)
      THEN [wallTempBuf EXCEPT ![r][s] = t]
      ELSE wallTempBuf

(* 0.5 * sin(s * pi / 2), in quarter degrees, for the sensor of index s - 1.  *)
Spread(s) == CASE (s - 1) % 4 = 1 -> 2 [] (s - 1) % 4 = 3 -> -2 [] OTHER -> 0

UpdateBulkTemps(temps) ==
  wallTempBuf' =
    [r \in Rings |->
       IF r <= Len(temps) /\ Plausible(temps[r])
         THEN [s \in Sensors |-> temps[r] + Spread(s)]
         ELSE wallTempBuf[r]]

BeginUpdate(f) ==
  /\ version < MaxUpdates
  /\ Go(f, "idle", "update")
  /\ LockAnnounced(f)
  /\ UNCHANGED <<wallTempBuf, lastCorrection, info, got, version, seen>>

Update(f) ==
  /\ HasLock(f)
  /\ Go(f, "update", "idle")
  /\ \/ \E r \in 0..(RingCount + 1), s \in 0..(SensorsPerRing + 1),
           valid \in BOOLEAN, t \in Temperatures : UpdateWallTemp(r, s, valid, t)
     \/ \E k \in 0..(RingCount + 1) : \E temps \in [1..k -> Temperatures] :
           UpdateBulkTemps(temps)
  /\ version' = version + 1
  /\ Unlock
  /\ UNCHANGED <<lastCorrection, info, got, seen>>

(* LastCorrection, its copy taken under the read lock.                     *)
BeginLast(c) ==
  /\ Go(c, "idle", "last")
  /\ RLock(c)
  /\ UNCHANGED <<wallTempBuf, lastCorrection, info, got, version, seen>>

Last(c) ==
  /\ c \in readers
  /\ Go(c, "last", "idle")
  /\ got' = [got EXCEPT ![c] = lastCorrection]
  /\ RUnlock(c)
  /\ UNCHANGED <<wallTempBuf, lastCorrection, info, version, seen>>

Init ==
  /\ enabled \in BOOLEAN
  /\ wallTempBuf = [r \in Rings |-> [s \in Sensors |-> TankDesignTempC]]
  /\ lastCorrection = NoInfo
  /\ info = [w \in Workers |-> NoInfo]
  /\ got = [c \in Clients |-> NoInfo]
  /\ tpc = [p \in Procs |-> "idle"]
  /\ readers = {} /\ queued = {} /\ writer = NoOne
  /\ version = 0
  /\ seen = [w \in Workers |-> 0]

Compute(w) ==
  \/ Disabled(w) \/ Average(w) \/ Integrate(w) \/ Release(w)
  \/ Publish(w) \/ PublishRest(w) \/ Relock(w) \/ Return(w)

Step ==
  \/ \E w \in Workers : Begin(w) \/ Compute(w) \/ LockResult(w)
  \/ \E f \in Feeders : BeginUpdate(f) \/ Update(f)
  \/ \E c \in Clients : BeginLast(c) \/ Last(c)

Next == Step /\ UNCHANGED enabled

(* A goroutine that can run does.  Lock is strongly fair, because a writer *)
(* that has waited for a millisecond is handed the mutex inside RWMutex.   *)
Fairness ==
  /\ \A w \in Workers : WF_vars(Compute(w) /\ UNCHANGED enabled) /\ SF_vars(LockResult(w) /\ UNCHANGED enabled)
  /\ \A f \in Feeders : WF_vars(Update(f) /\ UNCHANGED enabled)
  /\ \A c \in Clients : WF_vars(Last(c) /\ UNCHANGED enabled)

Spec == Init /\ [][Next]_vars /\ Fairness

-----------------------------------------------------------------------------
(* A result whose two passes saw the same table.                           *)
Whole(i) == i.strain = i.volume

(* What a caller is given, and what LastCorrection returns, is one result  *)
(* computed from one state of the table: the two passes are not separated  *)
(* by an update and the publication is never seen half done.               *)
ResultsAreWhole ==
  /\ \A w \in Workers : info[w].applied => Whole(info[w])
  /\ \A c \in Clients : Whole(got[c])

(* Publication may go back to an older table than that of the last result, *)
(* since the lock is given up in between, but never to one older than the  *)
(* table was when the computation began, nor then beyond what had been     *)
(* published by that time.                                                 *)
NeverPublishesStale ==
  [][\A w \in Workers :
       tpc[w] = "publish" /\ tpc'[w] # "publish" => lastCorrection'.of >= seen[w]]_vars

(* The exchange of locks deadlocks nobody: every computation ends, with    *)
(* any number of others and of updates and reads in between.               *)
ComputationsEnd ==
  \A w \in Workers : tpc[w] # "idle" ~> tpc[w] = "idle"
=============================================================================
