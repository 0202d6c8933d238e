---------------------------- MODULE GatewayProofs ----------------------------
(***************************************************************************)
(* Proofs about the composed gateway, for any number of workers of each    *)
(* stage, any capacities, marks and batch size, any network, any database  *)
(* and any moment of the signal.                                           *)
(*                                                                         *)
(* What crosses the components is followed by counting: how many workers   *)
(* are at a place, how many hands and channels hold a frame, how many      *)
(* copies of a measurement the storage has.  A step of one worker moves    *)
(* one thing, so it changes each count by what AmongChange says.           *)
(*                                                                         *)
(* The parts: counting; types; the balance of the frames; the one place of *)
(* each frame; main's plan and the closing of channels; the refinement of  *)
(* FrameFlow; the copies of a measurement.                                 *)
(***************************************************************************)
EXTENDS Gateway, FiniteSetTheorems, FunctionTheorems, SequenceTheorems, TLAPS

-----------------------------------------------------------------------------
(* Counting.  How many workers, or positions of a queue, hold a member of  *)
(* a set; all the counts of the properties are of this form.               *)
Among(f, X) == Cardinality({i \in DOMAIN f : f[i] \in X})

LEMMA AmongNat ==
  ASSUME NEW f, IsFiniteSet(DOMAIN f), NEW X
  PROVE  Among(f, X) \in Nat
<1>1. IsFiniteSet({i \in DOMAIN f : f[i] \in X})
  BY FS_Subset
<1>. QED
  BY <1>1, FS_CardinalityType DEF Among

Grows(f, g, X) == Among(g, X) = Among(f, X) + 1
Shrinks(f, g, X) == Among(g, X) = Among(f, X) - 1
Keeps(f, g, X) == Among(g, X) = Among(f, X)

(* One worker moves, or lets go of one thing and takes another.            *)
LEMMA AmongChange ==
  ASSUME NEW f, IsFiniteSet(DOMAIN f), NEW w \in DOMAIN f,
         NEW g, DOMAIN g = DOMAIN f, \A i \in DOMAIN f : i # w => g[i] = f[i], NEW X
  PROVE  /\ f[w] \notin X /\ g[w] \in X => Grows(f, g, X)
         /\ f[w] \in X /\ g[w] \notin X => Shrinks(f, g, X)
         /\ (f[w] \in X <=> g[w] \in X) => Keeps(f, g, X)
<1>. DEFINE A == {i \in DOMAIN f : f[i] \in X}
            B == {i \in DOMAIN g : g[i] \in X}
<1>1. /\ Among(f, X) = Cardinality(A) /\ Among(g, X) = Cardinality(B)
      /\ Cardinality(A) \in Nat /\ Cardinality(B) \in Nat /\ IsFiniteSet(A)
  BY AmongNat, FS_Subset DEF Among
<1>2. w \in A <=> f[w] \in X
  OBVIOUS
<1>3. /\ g[w] \in X => B = A \cup {w}
      /\ g[w] \notin X => B = A \ {w}
  OBVIOUS
<1>. HIDE DEF A, B
<1>4. /\ Cardinality(A \cup {w}) = IF w \in A THEN Cardinality(A) ELSE Cardinality(A) + 1
      /\ Cardinality(A \ {w}) = IF w \in A THEN Cardinality(A) - 1 ELSE Cardinality(A)
  BY <1>1, FS_AddElement, FS_RemoveElement
<1>. QED
  BY <1>1, <1>2, <1>3, <1>4 DEF Grows, Shrinks, Keeps

LEMMA SeqFinite ==
  ASSUME NEW T, NEW q \in Seq(T)
  PROVE  /\ IsFiniteSet(DOMAIN q) /\ DOMAIN q = 1..Len(q) /\ Len(q) \in Nat
         /\ \A X : Among(q, X) \in Nat
<1>1. DOMAIN q = 1..Len(q) /\ Len(q) \in Nat
  OBVIOUS
<1>2. IsFiniteSet(DOMAIN q)
  BY <1>1, FS_Interval
<1>. QED
  BY <1>1, <1>2, AmongNat

LEMMA AmongConcat ==
  ASSUME NEW T, NEW p \in Seq(T), NEW q \in Seq(T), NEW X
  PROVE  Among(p \o q, X) = Among(p, X) + Among(q, X)
<1> DEFINE A == {i \in 1..Len(p) : p[i] \in X}
           B == {i \in 1..Len(q) : q[i] \in X}
           C == {i \in 1..(Len(p) + Len(q)) : (p \o q)[i] \in X}
           E == {i \in C : i > Len(p)}
           f == [i \in B |-> i + Len(p)]
<1>1. /\ Len(p) \in Nat /\ Len(q) \in Nat
      /\ DOMAIN p = 1..Len(p) /\ DOMAIN q = 1..Len(q)
      /\ DOMAIN (p \o q) = 1..(Len(p) + Len(q))
      /\ \A i \in 1..Len(p) : (p \o q)[i] = p[i]
      /\ \A i \in 1..Len(q) : (p \o q)[i + Len(p)] = q[i]
  OBVIOUS
<1>2. /\ Among(p, X) = Cardinality(A) /\ Among(q, X) = Cardinality(B)
      /\ Among(p \o q, X) = Cardinality(C)
  BY <1>1, Zenon DEF Among
<1>3. C = A \cup E
  <2>1. ASSUME NEW i \in 1..(Len(p) + Len(q))
        PROVE  i \in C <=> i \in A \cup E
    <3>1. CASE i <= Len(p)
      <4>1. i \in 1..Len(p) /\ (p \o q)[i] = p[i] /\ ~(i > Len(p))
        BY <1>1, <3>1
      <4>. QED  BY <4>1
    <3>2. CASE i > Len(p)
      <4>1. i \notin 1..Len(p)
        BY <1>1, <3>2
      <4>. QED  BY <4>1, <3>2
    <3>. QED  BY <1>1, <3>1, <3>2
  <2>2. A \cup E \subseteq 1..(Len(p) + Len(q)) /\ C \subseteq 1..(Len(p) + Len(q))
    BY <1>1
  <2>. QED  BY <2>1, <2>2, Zenon
<1>4. A \cap E = {}
  BY <1>1
<1>5. f \in Bijection(B, E)
  <2>1. ASSUME NEW i \in B PROVE f[i] \in E
    BY <1>1
  <2>2. ASSUME NEW d \in E PROVE \E i \in B : f[i] = d
    <3>1. d - Len(p) \in 1..Len(q) /\ (d - Len(p)) + Len(p) = d
      BY <1>1
    <3>2. (p \o q)[d] = q[d - Len(p)]
      BY <1>1, <3>1, Zenon
    <3>3. d - Len(p) \in B
      BY <3>1, <3>2
    <3>. QED  BY <3>1, <3>3
  <2>3. \A i, j \in B : f[i] = f[j] => i = j
    BY <1>1
  <2>4. f \in [B -> E]
    BY <2>1
  <2>. HIDE DEF B, E, f
  <2>. QED
    BY <2>2, <2>3, <2>4, Fun_IsBij
<1>6. IsFiniteSet(A) /\ IsFiniteSet(B)
  <2>1. A \subseteq 1..Len(p) /\ B \subseteq 1..Len(q)
    OBVIOUS
  <2>2. IsFiniteSet(1..Len(p)) /\ IsFiniteSet(1..Len(q))
    BY <1>1, FS_Interval
  <2>. HIDE DEF A, B
  <2>. QED
    BY <2>1, <2>2, FS_Subset
<1>7. IsFiniteSet(E) /\ Cardinality(E) = Cardinality(B)
  <2>. HIDE DEF B, E, f
  <2>1. ExistsBijection(B, E)
    BY <1>5 DEF ExistsBijection
  <2>. QED
    BY <1>6, <2>1, FS_Bijection
<1>8. /\ Cardinality(A) \in Nat /\ Cardinality(E) \in Nat
      /\ Cardinality(A \cap E) = 0
      /\ Cardinality(A \cup E) = Cardinality(A) + Cardinality(E) - Cardinality(A \cap E)
  <2>. HIDE DEF A, E
  <2>. QED
    BY <1>4, <1>6, <1>7, FS_CardinalityType, FS_EmptySet, FS_Union
<1>. HIDE DEF A, B, C, E, f
<1>. QED
  BY <1>2, <1>3, <1>7, <1>8

LEMMA AmongOne ==
  ASSUME NEW x, NEW X
  PROVE  Among(<<x>>, X) = IF x \in X THEN 1 ELSE 0
<1>1. {i \in DOMAIN <<x>> : <<x>>[i] \in X} = IF x \in X THEN {1} ELSE {}
  OBVIOUS
<1>2. Cardinality({1}) = 1 /\ Cardinality({}) = 0
  BY FS_Singleton, FS_EmptySet
<1>. QED
  BY <1>1, <1>2, Zenon DEF Among

(* A channel takes one more behind, or gives the first away.               *)
LEMMA AmongAppend ==
  ASSUME NEW T, NEW q \in Seq(T), NEW x \in T, NEW X
  PROVE  Among(Append(q, x), X) = Among(q, X) + (IF x \in X THEN 1 ELSE 0)
<1>1. Append(q, x) = q \o <<x>> /\ <<x>> \in Seq(T)
  BY AppendIsConcat
<1>2. Among(q \o <<x>>, X) = Among(q, X) + Among(<<x>>, X)
  BY <1>1, AmongConcat
<1>. QED
  BY <1>1, <1>2, AmongOne, Zenon

LEMMA AmongTail ==
  ASSUME NEW T, NEW q \in Seq(T), q # <<>>, NEW X
  PROVE  Among(Tail(q), X) = Among(q, X) - (IF Head(q) \in X THEN 1 ELSE 0)
<1>. DEFINE h == Head(q)
            t == Tail(q)
<1>1. q = <<h>> \o t /\ <<h>> \in Seq(T) /\ t \in Seq(T)
  OBVIOUS
<1>2. Among(t, X) \in Nat
  BY <1>1, SeqFinite
<1>. HIDE DEF h, t
<1>3. Among(q, X) = Among(<<h>>, X) + Among(t, X)
  BY <1>1, AmongConcat
<1>4. Among(<<h>>, X) = IF h \in X THEN 1 ELSE 0
  BY AmongOne
<1>5. Among(t, X) = Among(q, X) - (IF h \in X THEN 1 ELSE 0)
  BY <1>2, <1>3, <1>4
<1>. QED
  BY <1>5 DEF h, t

(* At most one can be only one.                                            *)
LEMMA AmongUnique ==
  ASSUME NEW f, IsFiniteSet(DOMAIN f), NEW X, NEW i \in DOMAIN f, f[i] \in X
  PROVE  /\ Among(f, X) >= 1
         /\ Among(f, X) <= 1 => \A j \in DOMAIN f : f[j] \in X => j = i
<1>. DEFINE A == {k \in DOMAIN f : f[k] \in X}
<1>1. IsFiniteSet(A) /\ Cardinality(A) \in Nat /\ i \in A /\ Among(f, X) = Cardinality(A)
  BY FS_Subset, FS_CardinalityType DEF Among
<1>2. \A j \in DOMAIN f : f[j] \in X => j \in A
  OBVIOUS
<1>. HIDE DEF A
<1>3. Cardinality(A) # 0
  BY <1>1, FS_EmptySet
<1>4. Cardinality(A) = 1 => \A j \in A : j = i
  BY <1>1, FS_Singleton
<1>. QED
  BY <1>1, <1>2, <1>3, <1>4

-----------------------------------------------------------------------------
(* Types, by component.  The hands of a worker are full exactly at the     *)
(* places of its loop where it works on something, and no channel holds a  *)
(* frame without a number.                                                 *)
Datagram == [id : Nat, kind : Kinds \cup {"none"}]
FrameNumber == Nat \ {0}
Measured == [frame : FrameNumber, valid : BOOLEAN]
Queued == [m : Measured, serial : Nat]
ListenerStats == [PacketsReceived : Nat, PacketsDropped : Nat, Errors : Nat]
FramerStats == [FramesParsed : Nat, Errors : Nat, InvalidFrames : Nat]
ProcessorStats == [FramesProcessed : Nat, DroppedFrames : Nat]
SinkStats == [MeasurementsReceived : Nat, MeasurementsStored : Nat]

ChannelTypes ==
  /\ udpCh \in Seq(Datagram)
  /\ framerCh \in Seq(FrameNumber)
  /\ fftCh \in Seq(FrameNumber)
  /\ measCh \in Seq(Measured)

ListenerTypes ==
  /\ lpc \in [ListenerWorkers -> L!ListenerPlaces]
  /\ lheld \in [ListenerWorkers -> Datagram]
  /\ lstats \in ListenerStats
  /\ llost \in Nat
  /\ offered \in Nat

FramerTypes ==
  /\ fpc \in [FramerWorkers -> F!FramerPlaces]
  /\ fpacket \in [FramerWorkers -> Datagram]
  /\ fframe \in [FramerWorkers -> Nat]
  /\ \A w \in FramerWorkers : fpc[w] = "send" <=> fframe[w] # 0
  /\ frameNum \in Nat
  /\ fstats \in FramerStats
  /\ flost \in Nat

ProcessorTypes ==
  /\ ppc \in [FftWorkers -> P!ProcessorPlaces]
  /\ pframe \in [FftWorkers -> Nat]
  /\ \A w \in FftWorkers : ppc[w] \in {"process", "send"} <=> pframe[w] # 0
  /\ pstats \in ProcessorStats
  /\ plost \in Nat

DemuxTypes ==
  /\ dpc \in [DemuxWorkers -> D!DemuxPlaces]
  /\ dheld \in [DemuxWorkers -> Nat]
  /\ \A w \in DemuxWorkers : dpc[w] \in {"select", "exit"} <=> dheld[w] = 0
  /\ dvalid \in [DemuxWorkers -> BOOLEAN]
  /\ dstats \in D!DemuxStats

SinkTypes ==
  /\ kpc \in K!SinkPlaces
  /\ IF kpc = "store"
       THEN kheld \in Measured /\ kheld.valid
       ELSE kheld = K!NoMeasurement
  /\ kstats \in SinkStats

StoreTypes ==
  /\ batchCh \in Seq(Queued)
  /\ batch \in Seq(Queued)
  /\ rows \in Seq(Queued)
  /\ spc \in S!WriterPlaces
  /\ safter \in {"select", "exit"}
  /\ accepted \in Nat

Types ==
  /\ ChannelTypes
  /\ ListenerTypes /\ FramerTypes /\ ProcessorTypes
  /\ DemuxTypes /\ SinkTypes /\ StoreTypes

-----------------------------------------------------------------------------
(* main changes the state of the components only when it binds a socket,   *)
(* which lets the worker of that socket into its loop.                     *)
Quiet == UNCHANGED components

LEMMA StepCases ==
  ASSUME [Next]_vars
  PROVE  \/ \E w \in ListenerWorkers : ListenerStep(w)
         \/ \E w \in FramerWorkers : FramerStep(w)
         \/ \E w \in FftWorkers : FftStep(w)
         \/ \E w \in DemuxWorkers : DemuxStep(w) \/ DemuxStore(w)
         \/ MonitorStep \/ SinkStep \/ SinkStore \/ StorageStep
         \/ ListenerBind
         \/ Quiet
<1>1. CASE MainStep
  <2>1. CASE ListenerBind
    BY <2>1
  <2>2. CASE StartStorage \/ StartComponent \/ ListenerUnresolved \/ ListenerBindFails
             \/ RollbackSockets \/ RollbackEnds
    BY <2>2 DEF StartStorage, StartComponent, ListenerUnresolved, ListenerBindFails,
                RollbackSockets, RollbackEnds, Quiet
  <2>3. CASE CancelContext \/ CloseSockets \/ Wait \/ CloseChannel \/ Return
    BY <2>3 DEF CancelContext, CloseSockets, Wait, CloseChannel, Return, Quiet
  <2>. QED
    BY <1>1, <2>1, <2>2, <2>3 DEF MainStep
<1>2. CASE StartFails \/ Signal \/ Watchdog
  BY <1>2 DEF StartFails, Signal, Watchdog, Quiet
<1>3. CASE UNCHANGED vars
  BY <1>3 DEF vars, Quiet, components
<1>. QED
  BY <1>1, <1>2, <1>3 DEF Next

(* The components a step leaves alone keep their types.                    *)
LEMMA QuietTypes ==
  /\ ListenerTypes /\ UNCHANGED listeners => ListenerTypes'
  /\ FramerTypes /\ UNCHANGED framers => FramerTypes'
  /\ ProcessorTypes /\ UNCHANGED ffts => ProcessorTypes'
  /\ DemuxTypes /\ UNCHANGED demuxes => DemuxTypes'
  /\ SinkTypes /\ UNCHANGED sinks => SinkTypes'
  /\ StoreTypes /\ UNCHANGED stores => StoreTypes'
  /\ ChannelTypes /\ UNCHANGED <<udpCh, framerCh, fftCh, measCh>> => ChannelTypes'
BY DEF ListenerTypes, FramerTypes, ProcessorTypes, DemuxTypes, SinkTypes, StoreTypes,
       ChannelTypes, listeners, framers, ffts, demuxes, sinks, stores

(* A channel keeps its type when one more is sent and when the first is    *)
(* received.                                                               *)
LEMMA ChannelShape ==
  ASSUME NEW T, NEW q \in Seq(T)
  PROVE  /\ \A x \in T : Append(q, x) \in Seq(T)
         /\ q # <<>> => Head(q) \in T /\ Tail(q) \in Seq(T)
OBVIOUS

(* Counting keeps the counters natural numbers.                            *)
LEMMA Counted ==
  /\ \A s \in ListenerStats :
       /\ [s EXCEPT !.PacketsReceived = @ + 1] \in ListenerStats
       /\ [s EXCEPT !.PacketsDropped = @ + 1] \in ListenerStats
       /\ [s EXCEPT !.Errors = @ + 1] \in ListenerStats
  /\ \A s \in FramerStats : \A k :
       /\ [s EXCEPT !.FramesParsed = @ + 1] \in FramerStats
       /\ [s EXCEPT !.Errors = @ + 1,
                    !.InvalidFrames = IF k = "invalid" THEN @ + 1 ELSE @] \in FramerStats
  /\ \A s \in ProcessorStats :
       /\ [s EXCEPT !.FramesProcessed = @ + 1] \in ProcessorStats
       /\ [s EXCEPT !.DroppedFrames = @ + 1] \in ProcessorStats
  /\ \A s \in D!DemuxStats : \A v :
       /\ [s EXCEPT !.FramesProcessed = @ + 1] \in D!DemuxStats
       /\ [s EXCEPT !.Measurements = @ + 1,
                    !.ValidMeasurements = IF v THEN @ + 1 ELSE @] \in D!DemuxStats
  /\ \A s \in SinkStats :
       /\ [s EXCEPT !.MeasurementsReceived = @ + 1] \in SinkStats
       /\ [s EXCEPT !.MeasurementsStored = @ + 1] \in SinkStats
<1>1. ASSUME NEW s \in ListenerStats
      PROVE  /\ [s EXCEPT !.PacketsReceived = @ + 1] \in ListenerStats
             /\ [s EXCEPT !.PacketsDropped = @ + 1] \in ListenerStats
             /\ [s EXCEPT !.Errors = @ + 1] \in ListenerStats
  BY DEF ListenerStats
<1>2. ASSUME NEW s \in FramerStats, NEW k
      PROVE  /\ [s EXCEPT !.FramesParsed = @ + 1] \in FramerStats
             /\ [s EXCEPT !.Errors = @ + 1,
                          !.InvalidFrames = IF k = "invalid" THEN @ + 1 ELSE @]
                  \in FramerStats
  <2>1. \A a \in Nat : [s EXCEPT !.FramesParsed = a] \in FramerStats
    BY DEF FramerStats
  <2>2. \A a, b \in Nat : [s EXCEPT !.Errors = a, !.InvalidFrames = b] \in FramerStats
    BY DEF FramerStats
  <2>3. /\ s.FramesParsed + 1 \in Nat /\ s.Errors + 1 \in Nat
        /\ (IF k = "invalid" THEN s.InvalidFrames + 1 ELSE s.InvalidFrames) \in Nat
    BY DEF FramerStats
  <2>. QED
    BY <2>1, <2>2, <2>3, Zenon
<1>3. ASSUME NEW s \in ProcessorStats
      PROVE  /\ [s EXCEPT !.FramesProcessed = @ + 1] \in ProcessorStats
             /\ [s EXCEPT !.DroppedFrames = @ + 1] \in ProcessorStats
  BY DEF ProcessorStats
<1>4. ASSUME NEW s \in D!DemuxStats, NEW v
      PROVE  /\ [s EXCEPT !.FramesProcessed = @ + 1] \in D!DemuxStats
             /\ [s EXCEPT !.Measurements = @ + 1,
                          !.ValidMeasurements = IF v THEN @ + 1 ELSE @] \in D!DemuxStats
  <2>1. \A a \in Nat : [s EXCEPT !.FramesProcessed = a] \in D!DemuxStats
    BY DEF D!DemuxStats
  <2>2. \A a, b \in Nat :
          [s EXCEPT !.Measurements = a, !.ValidMeasurements = b] \in D!DemuxStats
    BY DEF D!DemuxStats
  <2>3. /\ s.FramesProcessed + 1 \in Nat /\ s.Measurements + 1 \in Nat
        /\ (IF v THEN s.ValidMeasurements + 1 ELSE s.ValidMeasurements) \in Nat
    BY DEF D!DemuxStats
  <2>. QED
    BY <2>1, <2>2, <2>3, Zenon
<1>5. ASSUME NEW s \in SinkStats
      PROVE  /\ [s EXCEPT !.MeasurementsReceived = @ + 1] \in SinkStats
             /\ [s EXCEPT !.MeasurementsStored = @ + 1] \in SinkStats
  BY DEF SinkStats
<1>. QED
  BY <1>1, <1>2, <1>3, <1>4, <1>5, Zenon

LEMMA ListenerTypesStep ==
  ASSUME Types, NEW w \in ListenerWorkers, ListenerStep(w)
  PROVE  Types'
<1>1. ListenerTypes' /\ udpCh' \in Seq(Datagram)
  <2>. USE DEF Types, ListenerTypes, ChannelTypes, ListenerStep, L!ListenerGo,
               L!ListenerPlaces
  <2>1. CASE L!Poll(w) \/ L!ReadEmpty(w)
    BY <2>1 DEF L!Poll, L!ReadEmpty
  <2>2. CASE L!ReadDatagram(w)
    <3>1. \A k \in Kinds : [id |-> offered + 1, kind |-> k] \in Datagram
      BY DEF Datagram
    <3>2. PICK k \in Kinds : lheld' = [lheld EXCEPT ![w] = [id |-> offered + 1, kind |-> k]]
      BY <2>2 DEF L!ReadDatagram
    <3>3. lheld' \in [ListenerWorkers -> Datagram]
      BY <3>1, <3>2
    <3>4. lstats' \in ListenerStats
      BY <2>2, Counted DEF L!ReadDatagram
    <3>5. /\ lpc' = [lpc EXCEPT ![w] = "send"]
          /\ UNCHANGED <<udpCh, llost>> /\ offered' = offered + 1
      BY <2>2 DEF L!ReadDatagram
    <3>. QED
      BY <3>3, <3>4, <3>5
  <2>3. CASE L!ReadFails(w)
    BY <2>3, Counted DEF L!ReadFails
  <2>4. CASE L!ListenerSend(w) \/ L!ListenerAbandon(w) \/ L!ListenerSkip(w)
    <3>1. L!NoDatagram \in Datagram
      BY DEF Datagram, L!NoDatagram
    <3>2. lheld' \in [ListenerWorkers -> Datagram]
      BY <2>4, <3>1 DEF L!ListenerSend, L!ListenerAbandon, L!ListenerSkip, L!DropDatagram
    <3>3. lheld[w] \in Datagram
      OBVIOUS
    <3>4. CASE L!ListenerSend(w)
      BY <3>2, <3>3, <3>4, ChannelShape DEF L!ListenerSend
    <3>5. CASE L!ListenerAbandon(w)
      BY <3>2, <3>5 DEF L!ListenerAbandon
    <3>6. CASE L!ListenerSkip(w)
      BY <3>2, <3>6, Counted DEF L!ListenerSkip
    <3>. QED
      BY <2>4, <3>4, <3>5, <3>6
  <2>. QED
    BY <2>1, <2>2, <2>3, <2>4 DEF L!ListenerWork
<1>2. UNCHANGED <<framerCh, fftCh, measCh, framers, ffts, demuxes, sinks, stores>>
  BY DEF ListenerStep
<1>3. FramerTypes' /\ ProcessorTypes' /\ DemuxTypes' /\ SinkTypes' /\ StoreTypes'
  BY <1>2, QuietTypes DEF Types
<1>4. ChannelTypes'
  BY <1>1, <1>2 DEF Types, ChannelTypes
<1>. QED
  BY <1>1, <1>3, <1>4 DEF Types

LEMMA BindTypesStep ==
  ASSUME Types, ListenerBind
  PROVE  Types'
<1>1. UNCHANGED <<udpCh, framerCh, fftCh, measCh, framers, ffts, demuxes, sinks, stores>>
  BY DEF ListenerBind, L!BindSocket
<1>2. ListenerTypes'
  BY DEF ListenerBind, L!BindSocket, L!ListenerGo, Types, ListenerTypes, L!ListenerPlaces
<1>. QED
  BY <1>1, <1>2, QuietTypes DEF Types

LEMMA FramerTypesStep ==
  ASSUME Types, NEW w \in FramerWorkers, FramerStep(w)
  PROVE  Types'
<1>1. FramerTypes' /\ udpCh' \in Seq(Datagram) /\ framerCh' \in Seq(FrameNumber)
  <2>. USE DEF Types, FramerTypes, ChannelTypes, FramerStep, F!FramerGo,
               F!FramerPlaces
  <2>0. F!NoPacket \in Datagram
    BY DEF Datagram, F!NoPacket
  <2>1. CASE F!FramerReceive(w)
    <3>1. udpCh' \in Seq(Datagram) /\ Head(udpCh) \in Datagram
      BY <2>1, ChannelShape DEF F!FramerReceive
    <3>. QED
      BY <2>1, <3>1 DEF F!FramerReceive
  <2>2. CASE F!FramerStop(w)
    BY <2>2 DEF F!FramerStop
  <2>3. CASE F!ParseFrame(w)
    <3>1. fstats' \in FramerStats
      BY <2>3, Counted DEF F!ParseFrame
    <3>2. fpacket' \in [FramerWorkers -> Datagram]
      BY <2>0, <2>3 DEF F!ParseFrame
    <3>3. /\ fpc[w] = "parse" /\ fpc' = [fpc EXCEPT ![w] = "send"]
          /\ frameNum' = frameNum + 1 /\ fframe' = [fframe EXCEPT ![w] = frameNum + 1]
          /\ UNCHANGED <<udpCh, framerCh, flost>>
      BY <2>3 DEF F!ParseFrame
    <3>. QED
      BY <3>1, <3>2, <3>3
  <2>4. CASE F!RejectFrame(w)
    BY <2>0, <2>4, Counted DEF F!RejectFrame
  <2>5. CASE F!FramerSend(w)
    <3>1. fframe[w] \in FrameNumber
      BY <2>5 DEF F!FramerSend, FrameNumber
    <3>2. framerCh' \in Seq(FrameNumber)
      BY <2>5, <3>1, ChannelShape DEF F!FramerSend
    <3>. QED
      BY <2>5, <3>2 DEF F!FramerSend, F!FramerLetGo
  <2>6. CASE F!FramerAbandon(w)
    BY <2>6 DEF F!FramerAbandon, F!FramerLetGo
  <2>7. CASE F!FramerSkip(w)
    BY <2>7 DEF F!FramerSkip, F!FramerLetGo
  <2>. QED
    BY <2>1, <2>2, <2>3, <2>4, <2>5, <2>6, <2>7 DEF FramerStep, F!FramerWork
<1>2. UNCHANGED <<fftCh, measCh, listeners, ffts, demuxes, sinks, stores>>
  BY DEF FramerStep
<1>3. ListenerTypes' /\ ProcessorTypes' /\ DemuxTypes' /\ SinkTypes' /\ StoreTypes'
  BY <1>2, QuietTypes DEF Types
<1>4. ChannelTypes'
  BY <1>1, <1>2 DEF Types, ChannelTypes
<1>. QED
  BY <1>1, <1>3, <1>4 DEF Types

LEMMA ProcessorTypesStep ==
  ASSUME Types, NEW w \in FftWorkers, FftStep(w)
  PROVE  Types'
<1>1. ProcessorTypes' /\ framerCh' \in Seq(FrameNumber) /\ fftCh' \in Seq(FrameNumber)
  <2>. USE DEF Types, ProcessorTypes, ChannelTypes, FftStep, P!ProcessorGo,
               P!ProcessorPlaces
  <2>1. CASE P!ProcessorReceive(w)
    <3>1. framerCh' \in Seq(FrameNumber) /\ Head(framerCh) \in FrameNumber
      BY <2>1, ChannelShape DEF P!ProcessorReceive
    <3>. QED
      BY <2>1, <3>1 DEF P!ProcessorReceive, FrameNumber
  <2>2. CASE P!ProcessorStop(w)
    BY <2>2 DEF P!ProcessorStop
  <2>3. CASE P!TransformFrame(w)
    BY <2>3, Counted DEF P!TransformFrame
  <2>4. CASE P!ProcessorSend(w)
    <3>1. pframe[w] \in FrameNumber
      BY <2>4 DEF P!ProcessorSend, FrameNumber
    <3>2. fftCh' \in Seq(FrameNumber)
      BY <2>4, <3>1, ChannelShape DEF P!ProcessorSend
    <3>. QED
      BY <2>4, <3>2 DEF P!ProcessorSend, P!ProcessorLetGo
  <2>5. CASE P!ProcessorAbandon(w)
    BY <2>5 DEF P!ProcessorAbandon, P!ProcessorLetGo
  <2>6. CASE P!ProcessorSkip(w)
    BY <2>6, Counted DEF P!ProcessorSkip, P!ProcessorLetGo
  <2>. QED
    BY <2>1, <2>2, <2>3, <2>4, <2>5, <2>6 DEF P!ProcessorWork
<1>2. UNCHANGED <<udpCh, measCh, listeners, framers, demuxes, sinks, stores>>
  BY DEF FftStep
<1>3. ListenerTypes' /\ FramerTypes' /\ DemuxTypes' /\ SinkTypes' /\ StoreTypes'
  BY <1>2, QuietTypes DEF Types
<1>4. ChannelTypes'
  BY <1>1, <1>2 DEF Types, ChannelTypes
<1>. QED
  BY <1>1, <1>3, <1>4 DEF Types

LEMMA DemuxTypesStep ==
  ASSUME Types, NEW w \in DemuxWorkers, D!DemuxWork(w) \/ D!DemuxStored(w)
  PROVE  DemuxTypes' /\ fftCh' \in Seq(FrameNumber) /\ measCh' \in Seq(Measured)
<1>. USE DEF Types, DemuxTypes, ChannelTypes, D!Go, D!DemuxPlaces
<1>1. CASE D!DemuxReceive(w)
  <2>1. fftCh' \in Seq(FrameNumber) /\ Head(fftCh) \in FrameNumber
    BY <1>1, ChannelShape DEF D!DemuxReceive
  <2>. QED
    BY <1>1, <2>1 DEF D!DemuxReceive, FrameNumber
<1>2. CASE D!DemuxStop(w)
  BY <1>2 DEF D!DemuxStop
<1>3. CASE D!PassGate(w)
  BY <1>3 DEF D!PassGate
<1>4. CASE D!SleepAtGate(w)
  BY <1>4 DEF D!SleepAtGate
<1>5. CASE D!Increment(w)
  BY <1>5 DEF D!Increment
<1>6. CASE D!ProcessFrame(w)
  BY <1>6 DEF D!ProcessFrame
<1>7. CASE D!Decrement(w)
  BY <1>7 DEF D!Decrement
<1>8. CASE D!CountFrame(w)
  BY <1>8, Counted DEF D!CountFrame
<1>9. CASE D!CountMeasurement(w)
  BY <1>9, Counted DEF D!CountMeasurement
<1>10. CASE D!DemuxStored(w)
  BY <1>10 DEF D!DemuxStored
<1>11. CASE D!DemuxSend(w)
  <2>1. D!Held(w) \in Measured
    BY <1>11 DEF D!DemuxSend, D!Held, Measured, FrameNumber
  <2>2. measCh' \in Seq(Measured)
    BY <1>11, <2>1, ChannelShape DEF D!DemuxSend
  <2>. QED
    BY <1>11, <2>2 DEF D!DemuxSend, D!LetGo
<1>12. CASE D!DemuxAbandon(w)
  BY <1>12 DEF D!DemuxAbandon, D!LetGo
<1>13. CASE D!DemuxSkip(w)
  BY <1>13 DEF D!DemuxSkip, D!LetGo
<1>. QED
  BY <1>1, <1>2, <1>3, <1>4, <1>5, <1>6, <1>7, <1>8, <1>9, <1>10, <1>11, <1>12, <1>13
     DEF D!DemuxWork

(* What a caller hands over is queued as it is; the rest of the call does  *)
(* not touch the queue, the batch or the table.                            *)
LEMMA CallTypesStep ==
  ASSUME StoreTypes, NEW c, NEW m \in Measured, Returns(c, m) \/ S!RefuseFull(c, m)
  PROVE  StoreTypes'
<1>. USE DEF StoreTypes
<1>1. CASE S!Accept(c, m)
  <2>1. [m |-> m, serial |-> accepted + 1] \in Queued
    BY DEF Queued
  <2>2. batchCh' \in Seq(Queued)
    BY <1>1, <2>1, ChannelShape DEF S!Accept
  <2>. QED
    BY <1>1, <2>2 DEF S!Accept
<1>2. CASE S!RefuseCancelled(c, m)
  BY <1>2 DEF S!RefuseCancelled, S!storageVars, S!queueVars, S!historyVars
<1>3. CASE S!CountRefusal(c) \/ S!RefuseFull(c, m)
  BY <1>3 DEF S!CountRefusal, S!RefuseFull, S!historyVars
<1>. QED
  BY <1>1, <1>2, <1>3 DEF Returns

LEMMA WriterTypesStep ==
  ASSUME StoreTypes, S!BatchWriter
  PROVE  StoreTypes'
<1>. USE DEF StoreTypes, S!WriterPlaces, S!historyVars
<1>1. CASE S!Take
  <2>1. Head(batchCh) \in Queued /\ batchCh' \in Seq(Queued)
    BY <1>1, ChannelShape DEF S!Take
  <2>2. batch' \in Seq(Queued)
    BY <1>1, <2>1, ChannelShape DEF S!Take
  <2>3. spc' \in S!WriterPlaces /\ safter' \in {"select", "exit"}
    BY <1>1 DEF S!Take, S!StartFlush
  <2>. QED
    BY <1>1, <2>1, <2>2, <2>3 DEF S!Take
<1>2. CASE S!FlushTick \/ S!WriterStop
  BY <1>2 DEF S!FlushTick, S!WriterStop, S!StartFlush
<1>3. CASE S!AcquireOk \/ S!AcquireFails
  BY <1>3 DEF S!AcquireOk, S!AcquireFails
<1>4. rows \o batch \in Seq(Queued) /\ <<>> \in Seq(Queued)
  OBVIOUS
<1>5. CASE S!CopyOk
  BY <1>4, <1>5 DEF S!CopyOk, S!EndFlush
<1>6. CASE S!CopyFails
  BY <1>4, <1>6 DEF S!CopyFails
<1>7. CASE S!CountFailure
  BY <1>4, <1>7 DEF S!CountFailure, S!EndFlush
<1>. QED
  BY <1>1, <1>2, <1>3, <1>5, <1>6, <1>7 DEF S!BatchWriter

(* A worker of the demultiplexer or the sink at "store" holds a measurement.*)
LEMMA HeldIsMeasured ==
  ASSUME Types
  PROVE  /\ \A w \in DemuxWorkers : dpc[w] \in {"store", "send"} => D!Held(w) \in Measured
         /\ kpc = "store" => kheld \in Measured
BY DEF Types, DemuxTypes, SinkTypes, D!Held, Measured, FrameNumber

LEMMA TypesStep ==
  ASSUME Types, [Next]_vars
  PROVE  Types'
<1>1. ASSUME NEW w \in DemuxWorkers, DemuxStep(w) PROVE Types'
  <2>1. DemuxTypes' /\ fftCh' \in Seq(FrameNumber) /\ measCh' \in Seq(Measured)
    BY <1>1, DemuxTypesStep DEF DemuxStep
  <2>2. UNCHANGED <<udpCh, framerCh, listeners, framers, ffts, sinks, stores>>
    BY <1>1 DEF DemuxStep
  <2>. QED
    BY <2>1, <2>2, QuietTypes DEF Types, ChannelTypes
<1>2. ASSUME NEW w \in DemuxWorkers, DemuxStore(w) PROVE Types'
  <2>1. UNCHANGED <<udpCh, framerCh, listeners, framers, ffts, sinks>>
    BY <1>2 DEF DemuxStore
  <2>2. D!Held(w) \in Measured
    BY <1>2, HeldIsMeasured DEF DemuxStore
  <2>3. StoreTypes'
    BY <1>2, <2>2, CallTypesStep DEF DemuxStore, Types
  <2>4. DemuxTypes' /\ fftCh' \in Seq(FrameNumber) /\ measCh' \in Seq(Measured)
    <3>1. CASE D!DemuxStored(w)
      BY <3>1, DemuxTypesStep
    <3>2. CASE UNCHANGED <<fftCh, measCh, demuxes>>
      BY <3>2, QuietTypes DEF Types, ChannelTypes
    <3>. QED
      BY <1>2, <3>1, <3>2 DEF DemuxStore
  <2>. QED
    BY <2>1, <2>3, <2>4, QuietTypes DEF Types, ChannelTypes
<1>3. ASSUME SinkStep PROVE Types'
  <2>1. UNCHANGED <<udpCh, framerCh, fftCh, listeners, framers, ffts, demuxes, stores>>
    BY <1>3 DEF SinkStep
  <2>2. CASE K!SinkReceive
    <3>1. Head(measCh) \in Measured /\ measCh' \in Seq(Measured)
      BY <2>2, ChannelShape DEF K!SinkReceive, Types, ChannelTypes
    <3>2. kstats' \in SinkStats
      BY <2>2, Counted DEF K!SinkReceive, Types, SinkTypes
    <3>3. SinkTypes'
      BY <2>2, <3>1, <3>2 DEF K!SinkReceive, Types, SinkTypes, K!SinkPlaces
    <3>. QED
      BY <2>1, <3>1, <3>3, QuietTypes DEF Types, ChannelTypes
  <2>3. CASE K!SinkStop
    <3>1. SinkTypes' /\ measCh' = measCh
      BY <2>3 DEF K!SinkStop, Types, SinkTypes, K!SinkPlaces
    <3>. QED
      BY <2>1, <3>1, QuietTypes DEF Types, ChannelTypes
  <2>. QED
    BY <1>3, <2>2, <2>3 DEF SinkStep
<1>4. ASSUME SinkStore PROVE Types'
  <2>1. UNCHANGED <<udpCh, framerCh, fftCh, listeners, framers, ffts, demuxes>>
    BY <1>4 DEF SinkStore
  <2>2. StoreTypes'
    BY <1>4, HeldIsMeasured, CallTypesStep DEF SinkStore, Types
  <2>3. SinkTypes' /\ measCh' = measCh
    <3>1. CASE K!SinkStored
      <4>1. kstats' \in SinkStats
        BY <3>1, Counted DEF K!SinkStored, Types, SinkTypes
      <4>. QED
        BY <3>1, <4>1 DEF K!SinkStored, Types, SinkTypes, K!SinkPlaces
    <3>2. CASE UNCHANGED <<measCh, sinks>>
      BY <3>2, QuietTypes DEF Types
    <3>. QED
      BY <1>4, <3>1, <3>2 DEF SinkStore
  <2>. QED
    BY <2>1, <2>2, <2>3, QuietTypes DEF Types, ChannelTypes
<1>5. ASSUME StorageStep PROVE Types'
  <2>1. /\ UNCHANGED <<udpCh, framerCh, fftCh, measCh>>
        /\ UNCHANGED <<listeners, framers, ffts, demuxes, sinks>>
    BY <1>5 DEF StorageStep
  <2>2. StoreTypes'
    BY <1>5, WriterTypesStep DEF StorageStep, Types
  <2>. QED
    BY <2>1, <2>2, QuietTypes DEF Types
<1>6. ASSUME MonitorStep \/ Quiet PROVE Types'
  <2>1. /\ UNCHANGED <<udpCh, framerCh, fftCh, measCh>>
        /\ UNCHANGED <<listeners, framers, ffts, demuxes, sinks, stores>>
    BY <1>6 DEF MonitorStep, Quiet, components
  <2>. QED
    BY <2>1, QuietTypes DEF Types
<1>. QED
  BY StepCases, ListenerTypesStep, BindTypesStep, FramerTypesStep, ProcessorTypesStep,
     <1>1, <1>2, <1>3, <1>4, <1>5, <1>6

LEMMA TypesInit == Init => Types
<1>. SUFFICES ASSUME Init PROVE Types
  OBVIOUS
<1>1. ListenerTypes /\ udpCh \in Seq(Datagram)
  BY DEF Init, L!ListenerInit, ListenerTypes, ListenerStats, L!ListenerPlaces, Datagram,
         L!NoDatagram
<1>2. FramerTypes /\ framerCh \in Seq(FrameNumber)
  BY DEF Init, F!FramerInit, FramerTypes, FramerStats, F!FramerPlaces, Datagram,
         F!NoPacket
<1>3. ProcessorTypes
  BY DEF Init, P!ProcessorInit, ProcessorTypes, ProcessorStats, P!ProcessorPlaces
<1>4. DemuxTypes /\ fftCh \in Seq(FrameNumber) /\ measCh \in Seq(Measured)
  BY DEF Init, D!DemuxInit, DemuxTypes, D!DemuxStats, D!DemuxPlaces
<1>5. SinkTypes
  BY DEF Init, K!SinkInit, SinkTypes, SinkStats, K!SinkPlaces
<1>6. StoreTypes
  BY DEF Init, S!StorageInit, StoreTypes, S!WriterPlaces
<1>. QED
  BY <1>1, <1>2, <1>3, <1>4, <1>5, <1>6 DEF Types, ChannelTypes

(* Type correctness of the gateway: every channel and hand holds what its  *)
(* stage makes, the counters are natural numbers, and a worker's hands are *)
(* full exactly at the places of its loop where it works on something.     *)
THEOREM GatewayTypeCorrect == Spec => []Types
BY TypesInit, TypesStep, PTL DEF Spec

-----------------------------------------------------------------------------
(* The terms of FramesAccounted: what is counted, where it waits and who   *)
(* holds it.                                                               *)
InGate == {"gate", "asleep", "inc", "process", "release", "count"}

Received == lstats.PacketsReceived
Dropped == lstats.PacketsDropped
AtListener == Among(lpc, {"send"})
InUdpCh == Len(udpCh)
AtParser == Among(fpc, {"parse"})
Rejected == fstats.Errors
Parsed == fstats.FramesParsed
AtFramer == Among(fpc, {"send"})
InFramerCh == Len(framerCh)
AtTransform == Among(ppc, {"process"})
Transformed == pstats.FramesProcessed
DroppedResults == pstats.DroppedFrames
AtProcessor == Among(ppc, {"send"})
InFftCh == Len(fftCh)
AtGate == Among(dpc, InGate)
Demuxed == dstats.FramesProcessed
Measurements == dstats.Measurements
AtStore == Among(dpc, {"store", "send"})
InMeasCh == Len(measCh)
Taken == kstats.MeasurementsReceived

DatagramsBalance ==
  Received = Dropped + llost + AtListener + InUdpCh + AtParser + Rejected + Parsed
FramesBalance ==
  Parsed = flost + AtFramer + InFramerCh + AtTransform + Transformed
ResultsBalance ==
  Transformed = DroppedResults + plost + AtProcessor + InFftCh + AtGate + Demuxed
MeasurementsBalance ==
  Measurements >= AtStore + InMeasCh + Taken

Balanced == DatagramsBalance /\ FramesBalance /\ ResultsBalance /\ MeasurementsBalance

LEMMA BalancedIsAccounted ==
  ASSUME Types
  PROVE  Balanced <=> FramesAccounted
<1>1. ASSUME NEW pc, NEW place PROVE Where(pc, place) = Among(pc, {place})
  BY DEF Where, Among
<1>2. ASSUME NEW A PROVE Cardinality(D!At(A)) = Among(dpc, A)
  BY DEF D!At, Among, Types, DemuxTypes
<1>. USE DEF DatagramsBalance, FramesBalance, ResultsBalance, MeasurementsBalance,
     Received, Dropped, AtListener, InUdpCh, AtParser, Rejected, Parsed, AtFramer,
     InFramerCh, AtTransform, Transformed, DroppedResults, AtProcessor, InFftCh,
     AtGate, Demuxed, Measurements, AtStore, InMeasCh, Taken, InGate
<1>. QED
  BY <1>1, <1>2, Zenon DEF Balanced, FramesAccounted

(* All counts are of finitely many workers or positions.                   *)
LEMMA WorkersFinite ==
  ASSUME Types
  PROVE  /\ DOMAIN lpc = ListenerWorkers /\ IsFiniteSet(DOMAIN lpc)
         /\ DOMAIN fpc = FramerWorkers /\ IsFiniteSet(DOMAIN fpc)
         /\ DOMAIN ppc = FftWorkers /\ IsFiniteSet(DOMAIN ppc)
         /\ DOMAIN dpc = DemuxWorkers /\ IsFiniteSet(DOMAIN dpc)
         /\ DOMAIN fframe = FramerWorkers /\ IsFiniteSet(DOMAIN fframe)
         /\ DOMAIN pframe = FftWorkers /\ IsFiniteSet(DOMAIN pframe)
         /\ DOMAIN dheld = DemuxWorkers /\ IsFiniteSet(DOMAIN dheld)
BY GatewayAssumption
   DEF Types, ListenerTypes, FramerTypes, ProcessorTypes, DemuxTypes

LEMMA CountsAreNat ==
  ASSUME Types
  PROVE  /\ Received \in Nat /\ Dropped \in Nat /\ llost \in Nat /\ AtListener \in Nat
         /\ InUdpCh \in Nat /\ AtParser \in Nat /\ Rejected \in Nat /\ Parsed \in Nat
         /\ flost \in Nat /\ AtFramer \in Nat /\ InFramerCh \in Nat
         /\ AtTransform \in Nat /\ Transformed \in Nat
         /\ DroppedResults \in Nat /\ plost \in Nat /\ AtProcessor \in Nat
         /\ InFftCh \in Nat /\ AtGate \in Nat /\ Demuxed \in Nat
         /\ Measurements \in Nat /\ AtStore \in Nat /\ InMeasCh \in Nat /\ Taken \in Nat
<1>1. /\ AtListener \in Nat /\ AtParser \in Nat /\ AtFramer \in Nat /\ AtTransform \in Nat
      /\ AtProcessor \in Nat /\ AtGate \in Nat /\ AtStore \in Nat
  BY WorkersFinite, AmongNat
     DEF AtListener, AtParser, AtFramer, AtTransform, AtProcessor, AtGate, AtStore
<1>2. InUdpCh \in Nat /\ InFramerCh \in Nat /\ InFftCh \in Nat /\ InMeasCh \in Nat
  BY DEF InUdpCh, InFramerCh, InFftCh, InMeasCh, Types, ChannelTypes
<1>3. Received \in Nat /\ Dropped \in Nat /\ Rejected \in Nat /\ Parsed \in Nat
  BY DEF Received, Dropped, Rejected, Parsed, Types, ListenerTypes, ListenerStats,
         FramerTypes, FramerStats
<1>4. /\ Transformed \in Nat /\ DroppedResults \in Nat
      /\ Demuxed \in Nat /\ Measurements \in Nat /\ Taken \in Nat
  BY DEF Transformed, DroppedResults, Demuxed, Measurements, Taken, Types,
         ProcessorTypes, ProcessorStats, DemuxTypes, D!DemuxStats, SinkTypes, SinkStats
<1>5. llost \in Nat /\ flost \in Nat /\ plost \in Nat
  BY DEF Types, ListenerTypes, FramerTypes, ProcessorTypes
<1>. QED
  BY <1>1, <1>2, <1>3, <1>4, <1>5

(* A worker goes from one place to another.                                *)
LEMMA GoCounts ==
  ASSUME NEW W, IsFiniteSet(W), NEW T, NEW pc \in [W -> T], NEW w \in W, NEW to,
         NEW pcNext, pcNext = [pc EXCEPT ![w] = to], NEW A
  PROVE  /\ pc[w] \in A /\ to \notin A => Shrinks(pc, pcNext, A)
         /\ pc[w] \notin A /\ to \in A => Grows(pc, pcNext, A)
         /\ (pc[w] \in A <=> to \in A) => Keeps(pc, pcNext, A)
<1>1. /\ IsFiniteSet(DOMAIN pc) /\ w \in DOMAIN pc
      /\ DOMAIN pcNext = DOMAIN pc /\ pcNext[w] = to
      /\ \A i \in DOMAIN pc : i # w => pcNext[i] = pc[i]
  OBVIOUS
<1>2. /\ pc[w] \notin A /\ pcNext[w] \in A => Grows(pc, pcNext, A)
      /\ pc[w] \in A /\ pcNext[w] \notin A => Shrinks(pc, pcNext, A)
      /\ (pc[w] \in A <=> pcNext[w] \in A) => Keeps(pc, pcNext, A)
  BY <1>1, AmongChange, Zenon
<1>. QED
  BY <1>1, <1>2, Zenon

LEMMA LengthCounts ==
  ASSUME NEW T, NEW q \in Seq(T)
  PROVE  /\ \A x \in T : Len(Append(q, x)) = Len(q) + 1
         /\ q # <<>> => Len(Tail(q)) = Len(q) - 1
OBVIOUS

(* The counts of the components a step leaves alone.                       *)
LEMMA QuietCounts ==
  /\ UNCHANGED listeners => UNCHANGED <<Received, Dropped, llost, AtListener>>
  /\ UNCHANGED framers => UNCHANGED <<AtParser, Rejected, Parsed, flost, AtFramer>>
  /\ UNCHANGED ffts =>
       UNCHANGED <<AtTransform, Transformed, DroppedResults, plost, AtProcessor>>
  /\ UNCHANGED demuxes => UNCHANGED <<AtGate, Demuxed, Measurements, AtStore>>
  /\ UNCHANGED sinks => UNCHANGED Taken
  /\ UNCHANGED udpCh => UNCHANGED InUdpCh
  /\ UNCHANGED framerCh => UNCHANGED InFramerCh
  /\ UNCHANGED fftCh => UNCHANGED InFftCh
  /\ UNCHANGED measCh => UNCHANGED InMeasCh
BY DEF listeners, framers, ffts, demuxes, sinks, Received, Dropped, AtListener, InUdpCh,
       AtParser, Rejected, Parsed, AtFramer, InFramerCh, AtTransform, Transformed,
       DroppedResults, AtProcessor, InFftCh, AtGate, Demuxed, Measurements, AtStore,
       InMeasCh, Taken

(* Which counts a worker's move from one place to another changes.         *)
LEMMA ListenerMoves ==
  ASSUME Types, NEW w \in ListenerWorkers, NEW from, NEW to, L!ListenerGo(w, from, to)
  PROVE  /\ from = "send" /\ to # "send" => AtListener' = AtListener - 1
         /\ from # "send" /\ to = "send" => AtListener' = AtListener + 1
         /\ from # "send" /\ to # "send" => AtListener' = AtListener
<1>1. lpc[w] = from /\ lpc' = [lpc EXCEPT ![w] = to]
  BY DEF L!ListenerGo
<1>2. lpc \in [ListenerWorkers -> L!ListenerPlaces] /\ IsFiniteSet(ListenerWorkers)
  BY GatewayAssumption DEF Types, ListenerTypes
<1>3. /\ lpc[w] \in {"send"} /\ to \notin {"send"} => Shrinks(lpc, lpc', {"send"})
      /\ lpc[w] \notin {"send"} /\ to \in {"send"} => Grows(lpc, lpc', {"send"})
      /\ (lpc[w] \in {"send"} <=> to \in {"send"}) => Keeps(lpc, lpc', {"send"})
  BY <1>1, <1>2, GoCounts, Zenon
<1>. QED
  BY <1>1, <1>3 DEF AtListener, Grows, Shrinks, Keeps

LEMMA FramerMoves ==
  ASSUME Types, NEW w \in FramerWorkers, NEW from, NEW to, F!FramerGo(w, from, to)
  PROVE  /\ from = "send" /\ to # "send" => AtFramer' = AtFramer - 1
         /\ from # "send" /\ to = "send" => AtFramer' = AtFramer + 1
         /\ from # "send" /\ to # "send" => AtFramer' = AtFramer
         /\ from = "parse" /\ to # "parse" => AtParser' = AtParser - 1
         /\ from # "parse" /\ to = "parse" => AtParser' = AtParser + 1
         /\ from # "parse" /\ to # "parse" => AtParser' = AtParser
<1>1. fpc[w] = from /\ fpc' = [fpc EXCEPT ![w] = to]
  BY DEF F!FramerGo
<1>2. fpc \in [FramerWorkers -> F!FramerPlaces] /\ IsFiniteSet(FramerWorkers)
  BY GatewayAssumption DEF Types, FramerTypes
<1>3. ASSUME NEW A
      PROVE  /\ fpc[w] \in A /\ to \notin A => Shrinks(fpc, fpc', A)
             /\ fpc[w] \notin A /\ to \in A => Grows(fpc, fpc', A)
             /\ (fpc[w] \in A <=> to \in A) => Keeps(fpc, fpc', A)
  BY <1>1, <1>2, GoCounts, Zenon
<1>. QED
  BY <1>1, <1>3 DEF AtFramer, AtParser, Grows, Shrinks, Keeps

LEMMA ProcessorMoves ==
  ASSUME Types, NEW w \in FftWorkers, NEW from, NEW to, P!ProcessorGo(w, from, to)
  PROVE  /\ from = "send" /\ to # "send" => AtProcessor' = AtProcessor - 1
         /\ from # "send" /\ to = "send" => AtProcessor' = AtProcessor + 1
         /\ from # "send" /\ to # "send" => AtProcessor' = AtProcessor
         /\ from = "process" /\ to # "process" => AtTransform' = AtTransform - 1
         /\ from # "process" /\ to = "process" => AtTransform' = AtTransform + 1
         /\ from # "process" /\ to # "process" => AtTransform' = AtTransform
<1>1. ppc[w] = from /\ ppc' = [ppc EXCEPT ![w] = to]
  BY DEF P!ProcessorGo
<1>2. ppc \in [FftWorkers -> P!ProcessorPlaces] /\ IsFiniteSet(FftWorkers)
  BY GatewayAssumption DEF Types, ProcessorTypes
<1>3. ASSUME NEW A
      PROVE  /\ ppc[w] \in A /\ to \notin A => Shrinks(ppc, ppc', A)
             /\ ppc[w] \notin A /\ to \in A => Grows(ppc, ppc', A)
             /\ (ppc[w] \in A <=> to \in A) => Keeps(ppc, ppc', A)
  BY <1>1, <1>2, GoCounts, Zenon
<1>. QED
  BY <1>1, <1>3 DEF AtProcessor, AtTransform, Grows, Shrinks, Keeps

LEMMA DemuxMoves ==
  ASSUME Types, NEW w \in DemuxWorkers, NEW from, NEW to, D!Go(w, from, to)
  PROVE  /\ from \in InGate /\ to \notin InGate => AtGate' = AtGate - 1
         /\ from \notin InGate /\ to \in InGate => AtGate' = AtGate + 1
         /\ (from \in InGate <=> to \in InGate) => AtGate' = AtGate
         /\ from \in {"store", "send"} /\ to \notin {"store", "send"}
              => AtStore' = AtStore - 1
         /\ from \notin {"store", "send"} /\ to \in {"store", "send"}
              => AtStore' = AtStore + 1
         /\ (from \in {"store", "send"} <=> to \in {"store", "send"})
              => AtStore' = AtStore
<1>1. dpc[w] = from /\ dpc' = [dpc EXCEPT ![w] = to]
  BY DEF D!Go
<1>2. dpc \in [DemuxWorkers -> D!DemuxPlaces] /\ IsFiniteSet(DemuxWorkers)
  BY GatewayAssumption DEF Types, DemuxTypes
<1>3. ASSUME NEW A
      PROVE  /\ dpc[w] \in A /\ to \notin A => Shrinks(dpc, dpc', A)
             /\ dpc[w] \notin A /\ to \in A => Grows(dpc, dpc', A)
             /\ (dpc[w] \in A <=> to \in A) => Keeps(dpc, dpc', A)
  BY <1>1, <1>2, GoCounts, Zenon
<1>4. ASSUME NEW A
      PROVE  /\ from \in A /\ to \notin A => Among(dpc', A) = Among(dpc, A) - 1
             /\ from \notin A /\ to \in A => Among(dpc', A) = Among(dpc, A) + 1
             /\ (from \in A <=> to \in A) => Among(dpc', A) = Among(dpc, A)
  BY <1>1, <1>3 DEF Grows, Shrinks, Keeps
<1>. QED
  BY <1>4 DEF AtGate, AtStore

(* Every step keeps the four balances.                                     *)
LEMMA ListenerBalance ==
  ASSUME Types, Balanced, NEW w \in ListenerWorkers, ListenerStep(w)
  PROVE  Balanced'
<1>. USE DEF Balanced, DatagramsBalance, FramesBalance, ResultsBalance, MeasurementsBalance
<1>1. /\ UNCHANGED <<AtParser, Rejected, Parsed, flost, AtFramer>>
      /\ UNCHANGED <<AtTransform, Transformed, DroppedResults, plost, AtProcessor>>
      /\ UNCHANGED <<AtGate, Demuxed, Measurements, AtStore, Taken>>
      /\ UNCHANGED <<InFramerCh, InFftCh, InMeasCh>>
  BY QuietCounts DEF ListenerStep
<1>2. lstats \in ListenerStats
  BY DEF Types, ListenerTypes
<1>3. CASE L!Poll(w)
  <2>1. UNCHANGED <<Received, Dropped, llost, InUdpCh>>
    BY <1>3, QuietCounts DEF L!Poll, Received, Dropped
  <2>2. AtListener' = AtListener
    BY <1>3, ListenerMoves DEF L!Poll
  <2>. QED
    BY <1>1, <2>1, <2>2
<1>4. CASE L!ReadEmpty(w)
  <2>1. UNCHANGED <<Received, Dropped, llost, InUdpCh>>
    BY <1>4, QuietCounts DEF L!ReadEmpty, Received, Dropped
  <2>2. AtListener' = AtListener
    BY <1>4, ListenerMoves DEF L!ReadEmpty
  <2>. QED
    BY <1>1, <2>1, <2>2
<1>5. CASE L!ReadDatagram(w)
  <2>1. Received' = Received + 1 /\ UNCHANGED <<Dropped, llost, InUdpCh>>
    BY <1>2, <1>5, QuietCounts DEF L!ReadDatagram, Received, Dropped, ListenerStats
  <2>2. AtListener' = AtListener + 1
    BY <1>5, ListenerMoves DEF L!ReadDatagram
  <2>. QED
    BY <1>1, <2>1, <2>2, CountsAreNat
<1>6. CASE L!ReadFails(w)
  <2>1. UNCHANGED <<Received, Dropped, llost, InUdpCh>>
    BY <1>2, <1>6, QuietCounts DEF L!ReadFails, Received, Dropped, ListenerStats
  <2>2. AtListener' = AtListener
    BY <1>6, ListenerMoves DEF L!ReadFails
  <2>. QED
    BY <1>1, <2>1, <2>2
<1>7. CASE L!ListenerSend(w)
  <2>1. lheld[w] \in Datagram /\ udpCh \in Seq(Datagram)
    BY DEF Types, ListenerTypes, ChannelTypes
  <2>2. InUdpCh' = InUdpCh + 1
    BY <1>7, <2>1, LengthCounts DEF L!ListenerSend, InUdpCh
  <2>3. UNCHANGED <<Received, Dropped, llost>>
    BY <1>7 DEF L!ListenerSend, Received, Dropped
  <2>4. AtListener' = AtListener - 1
    BY <1>7, ListenerMoves DEF L!ListenerSend
  <2>. QED
    BY <1>1, <2>2, <2>3, <2>4, CountsAreNat
<1>8. CASE L!ListenerAbandon(w)
  <2>1. llost' = llost + 1 /\ UNCHANGED <<Received, Dropped, InUdpCh>>
    BY <1>8, QuietCounts DEF L!ListenerAbandon, Received, Dropped
  <2>2. AtListener' = AtListener - 1
    BY <1>8, ListenerMoves DEF L!ListenerAbandon
  <2>. QED
    BY <1>1, <2>1, <2>2, CountsAreNat
<1>9. CASE L!ListenerSkip(w)
  <2>1. Dropped' = Dropped + 1 /\ UNCHANGED <<Received, llost, InUdpCh>>
    BY <1>2, <1>9, QuietCounts DEF L!ListenerSkip, Received, Dropped, ListenerStats
  <2>2. AtListener' = AtListener - 1
    BY <1>9, ListenerMoves DEF L!ListenerSkip
  <2>. QED
    BY <1>1, <2>1, <2>2, CountsAreNat
<1>. QED
  BY <1>3, <1>4, <1>5, <1>6, <1>7, <1>8, <1>9 DEF L!ListenerWork, ListenerStep

LEMMA FramerBalance ==
  ASSUME Types, Balanced, NEW w \in FramerWorkers, FramerStep(w)
  PROVE  Balanced'
<1>. USE DEF Balanced, DatagramsBalance, FramesBalance, ResultsBalance, MeasurementsBalance
<1>1. /\ UNCHANGED <<Received, Dropped, llost, AtListener>>
      /\ UNCHANGED <<AtTransform, Transformed, DroppedResults, plost, AtProcessor>>
      /\ UNCHANGED <<AtGate, Demuxed, Measurements, AtStore, Taken>>
      /\ UNCHANGED <<InFftCh, InMeasCh>>
  BY QuietCounts DEF FramerStep
<1>2. fstats \in FramerStats
  BY DEF Types, FramerTypes
<1>3. CASE F!FramerReceive(w)
  <2>1. udpCh \in Seq(Datagram)
    BY DEF Types, ChannelTypes
  <2>2. InUdpCh' = InUdpCh - 1
    BY <1>3, <2>1, LengthCounts DEF F!FramerReceive, InUdpCh
  <2>3. UNCHANGED <<Rejected, Parsed, flost, InFramerCh>>
    BY <1>3 DEF F!FramerReceive, Rejected, Parsed, InFramerCh
  <2>4. AtParser' = AtParser + 1 /\ AtFramer' = AtFramer
    BY <1>3, FramerMoves DEF F!FramerReceive
  <2>. QED
    BY <1>1, <2>2, <2>3, <2>4, CountsAreNat
<1>4. CASE F!FramerStop(w)
  <2>1. UNCHANGED <<Rejected, Parsed, flost, InUdpCh, InFramerCh>>
    BY <1>4 DEF F!FramerStop, Rejected, Parsed, InUdpCh, InFramerCh
  <2>2. AtParser' = AtParser /\ AtFramer' = AtFramer
    BY <1>4, FramerMoves DEF F!FramerStop
  <2>. QED
    BY <1>1, <2>1, <2>2
<1>5. CASE F!ParseFrame(w)
  <2>1. Parsed' = Parsed + 1 /\ UNCHANGED <<Rejected, flost, InUdpCh, InFramerCh>>
    BY <1>2, <1>5 DEF F!ParseFrame, Rejected, Parsed, InUdpCh, InFramerCh, FramerStats
  <2>2. AtParser' = AtParser - 1 /\ AtFramer' = AtFramer + 1
    BY <1>5, FramerMoves DEF F!ParseFrame
  <2>. QED
    BY <1>1, <2>1, <2>2, CountsAreNat
<1>6. CASE F!RejectFrame(w)
  <2>1. Rejected' = Rejected + 1 /\ UNCHANGED <<Parsed, flost, InUdpCh, InFramerCh>>
    BY <1>2, <1>6 DEF F!RejectFrame, Rejected, Parsed, InUdpCh, InFramerCh, FramerStats
  <2>2. AtParser' = AtParser - 1 /\ AtFramer' = AtFramer
    BY <1>6, FramerMoves DEF F!RejectFrame
  <2>. QED
    BY <1>1, <2>1, <2>2, CountsAreNat
<1>7. CASE F!FramerSend(w)
  <2>1. fframe[w] \in FrameNumber /\ framerCh \in Seq(FrameNumber)
    BY <1>7 DEF F!FramerSend, F!FramerGo, Types, FramerTypes, ChannelTypes, FrameNumber
  <2>2. InFramerCh' = InFramerCh + 1
    BY <1>7, <2>1, LengthCounts DEF F!FramerSend, InFramerCh
  <2>3. UNCHANGED <<Rejected, Parsed, flost, InUdpCh>>
    BY <1>7 DEF F!FramerSend, Rejected, Parsed, InUdpCh
  <2>4. AtParser' = AtParser /\ AtFramer' = AtFramer - 1
    BY <1>7, FramerMoves DEF F!FramerSend
  <2>. QED
    BY <1>1, <2>2, <2>3, <2>4, CountsAreNat
<1>8. CASE F!FramerAbandon(w) \/ F!FramerSkip(w)
  <2>1. flost' = flost + 1 /\ UNCHANGED <<Rejected, Parsed, InUdpCh, InFramerCh>>
    BY <1>8 DEF F!FramerAbandon, F!FramerSkip, Rejected, Parsed, InUdpCh, InFramerCh
  <2>2. AtParser' = AtParser /\ AtFramer' = AtFramer - 1
    BY <1>8, FramerMoves DEF F!FramerAbandon, F!FramerSkip
  <2>. QED
    BY <1>1, <2>1, <2>2, CountsAreNat
<1>. QED
  BY <1>3, <1>4, <1>5, <1>6, <1>7, <1>8 DEF F!FramerWork, FramerStep

LEMMA ProcessorBalance ==
  ASSUME Types, Balanced, NEW w \in FftWorkers, FftStep(w)
  PROVE  Balanced'
<1>. USE DEF Balanced, DatagramsBalance, FramesBalance, ResultsBalance, MeasurementsBalance
<1>1. /\ UNCHANGED <<Received, Dropped, llost, AtListener>>
      /\ UNCHANGED <<AtParser, Rejected, Parsed, flost, AtFramer>>
      /\ UNCHANGED <<AtGate, Demuxed, Measurements, AtStore, Taken>>
      /\ UNCHANGED <<InUdpCh, InMeasCh>>
  BY QuietCounts DEF FftStep
<1>2. pstats \in ProcessorStats
  BY DEF Types, ProcessorTypes
<1>3. CASE P!ProcessorReceive(w)
  <2>1. framerCh \in Seq(FrameNumber)
    BY DEF Types, ChannelTypes
  <2>2. InFramerCh' = InFramerCh - 1
    BY <1>3, <2>1, LengthCounts DEF P!ProcessorReceive, InFramerCh
  <2>3. UNCHANGED <<Transformed, DroppedResults, plost, InFftCh>>
    BY <1>3 DEF P!ProcessorReceive, Transformed, DroppedResults, InFftCh
  <2>4. AtTransform' = AtTransform + 1 /\ AtProcessor' = AtProcessor
    BY <1>3, ProcessorMoves DEF P!ProcessorReceive
  <2>. QED
    BY <1>1, <2>2, <2>3, <2>4, CountsAreNat
<1>4. CASE P!ProcessorStop(w)
  <2>1. UNCHANGED <<Transformed, DroppedResults, plost, InFramerCh, InFftCh>>
    BY <1>4 DEF P!ProcessorStop, Transformed, DroppedResults, InFramerCh, InFftCh
  <2>2. AtTransform' = AtTransform /\ AtProcessor' = AtProcessor
    BY <1>4, ProcessorMoves DEF P!ProcessorStop
  <2>. QED
    BY <1>1, <2>1, <2>2
<1>5. CASE P!TransformFrame(w)
  <2>1. /\ Transformed' = Transformed + 1
        /\ UNCHANGED <<DroppedResults, plost, InFramerCh, InFftCh>>
    BY <1>2, <1>5 DEF P!TransformFrame, Transformed, DroppedResults, InFramerCh,
       InFftCh, ProcessorStats
  <2>2. AtTransform' = AtTransform - 1 /\ AtProcessor' = AtProcessor + 1
    BY <1>5, ProcessorMoves DEF P!TransformFrame
  <2>. QED
    BY <1>1, <2>1, <2>2, CountsAreNat
<1>6. CASE P!ProcessorSend(w)
  <2>1. pframe[w] \in FrameNumber /\ fftCh \in Seq(FrameNumber)
    BY <1>6 DEF P!ProcessorSend, P!ProcessorGo, Types, ProcessorTypes, ChannelTypes,
       FrameNumber
  <2>2. InFftCh' = InFftCh + 1
    BY <1>6, <2>1, LengthCounts DEF P!ProcessorSend, InFftCh
  <2>3. UNCHANGED <<Transformed, DroppedResults, plost, InFramerCh>>
    BY <1>6 DEF P!ProcessorSend, Transformed, DroppedResults, InFramerCh
  <2>4. AtTransform' = AtTransform /\ AtProcessor' = AtProcessor - 1
    BY <1>6, ProcessorMoves DEF P!ProcessorSend
  <2>. QED
    BY <1>1, <2>2, <2>3, <2>4, CountsAreNat
<1>7. CASE P!ProcessorAbandon(w)
  <2>1. plost' = plost + 1 /\ UNCHANGED <<Transformed, DroppedResults, InFramerCh, InFftCh>>
    BY <1>7 DEF P!ProcessorAbandon, Transformed, DroppedResults, InFramerCh, InFftCh
  <2>2. AtTransform' = AtTransform /\ AtProcessor' = AtProcessor - 1
    BY <1>7, ProcessorMoves DEF P!ProcessorAbandon
  <2>. QED
    BY <1>1, <2>1, <2>2, CountsAreNat
<1>8. CASE P!ProcessorSkip(w)
  <2>1. /\ DroppedResults' = DroppedResults + 1
        /\ UNCHANGED <<Transformed, plost, InFramerCh, InFftCh>>
    BY <1>2, <1>8 DEF P!ProcessorSkip, Transformed, DroppedResults, InFramerCh,
       InFftCh, ProcessorStats
  <2>2. AtTransform' = AtTransform /\ AtProcessor' = AtProcessor - 1
    BY <1>8, ProcessorMoves DEF P!ProcessorSkip
  <2>. QED
    BY <1>1, <2>1, <2>2, CountsAreNat
<1>. QED
  BY <1>3, <1>4, <1>5, <1>6, <1>7, <1>8 DEF P!ProcessorWork, FftStep

(* The wakeup at the end of Decrement moves sleepers, but only before the  *)
(* gate.                                                                   *)
LEMMA DecrementMoves ==
  ASSUME Types, NEW w \in DemuxWorkers, D!Decrement(w)
  PROVE  AtGate' = AtGate /\ AtStore' = AtStore
<1>1. /\ DOMAIN dpc = DemuxWorkers /\ DOMAIN dpc' = DemuxWorkers
      /\ \A v \in DemuxWorkers : /\ dpc'[v] \in InGate <=> dpc[v] \in InGate
                                 /\ dpc'[v] \in {"store", "send"} <=> dpc[v] \in {"store", "send"}
  BY DEF Types, DemuxTypes, D!Decrement, InGate
<1>2. /\ {v \in DOMAIN dpc' : dpc'[v] \in InGate} = {v \in DOMAIN dpc : dpc[v] \in InGate}
      /\ {v \in DOMAIN dpc' : dpc'[v] \in {"store", "send"}} =
           {v \in DOMAIN dpc : dpc[v] \in {"store", "send"}}
  BY <1>1
<1>. QED
  BY <1>2, Zenon DEF AtGate, AtStore, Among

LEMMA DemuxBalance ==
  ASSUME Types, Balanced, NEW w \in DemuxWorkers, D!DemuxWork(w) \/ D!DemuxStored(w),
         UNCHANGED <<listeners, framers, ffts, sinks, udpCh, framerCh>>
  PROVE  Balanced'
<1>. USE DEF Balanced, DatagramsBalance, FramesBalance, ResultsBalance, MeasurementsBalance
<1>1. /\ UNCHANGED <<Received, Dropped, llost, AtListener>>
      /\ UNCHANGED <<AtParser, Rejected, Parsed, flost, AtFramer>>
      /\ UNCHANGED <<AtTransform, Transformed, DroppedResults, plost, AtProcessor>>
      /\ UNCHANGED <<InUdpCh, InFramerCh, Taken>>
  BY QuietCounts
<1>2. dstats \in D!DemuxStats
  BY DEF Types, DemuxTypes
<1>3. CASE D!DemuxReceive(w)
  <2>1. fftCh \in Seq(FrameNumber)
    BY DEF Types, ChannelTypes
  <2>2. InFftCh' = InFftCh - 1
    BY <1>3, <2>1, LengthCounts DEF D!DemuxReceive, InFftCh
  <2>3. UNCHANGED <<Demuxed, Measurements, InMeasCh>>
    BY <1>3 DEF D!DemuxReceive, Demuxed, Measurements, InMeasCh
  <2>4. AtGate' = AtGate + 1 /\ AtStore' = AtStore
    BY <1>3, DemuxMoves DEF D!DemuxReceive, InGate
  <2>. QED
    BY <1>1, <2>2, <2>3, <2>4, CountsAreNat
<1>4. CASE D!DemuxStop(w) \/ D!PassGate(w) \/ D!SleepAtGate(w) \/ D!Increment(w)
           \/ D!ProcessFrame(w) \/ D!Decrement(w) \/ D!DemuxStored(w)
  <2>1. UNCHANGED <<Demuxed, Measurements, InFftCh, InMeasCh>>
    BY <1>4 DEF D!DemuxStop, D!PassGate, D!SleepAtGate, D!Increment, D!ProcessFrame,
       D!Decrement, D!DemuxStored, Demuxed, Measurements, InFftCh, InMeasCh
  <2>2. AtGate' = AtGate /\ AtStore' = AtStore
    <3>1. CASE D!DemuxStop(w) \/ D!DemuxStored(w)
      BY <3>1, DemuxMoves DEF D!DemuxStop, D!DemuxStored, InGate
    <3>2. CASE D!PassGate(w) \/ D!SleepAtGate(w) \/ D!Increment(w) \/ D!ProcessFrame(w)
      BY <3>2, DemuxMoves DEF D!PassGate, D!SleepAtGate, D!Increment, D!ProcessFrame, InGate
    <3>. QED
      BY <1>4, <3>1, <3>2, DecrementMoves
  <2>. QED
    BY <1>1, <2>1, <2>2
<1>5. CASE D!CountFrame(w)
  <2>1. Demuxed' = Demuxed + 1 /\ UNCHANGED <<Measurements, InFftCh, InMeasCh>>
    BY <1>2, <1>5 DEF D!CountFrame, Demuxed, Measurements, InFftCh, InMeasCh, D!DemuxStats
  <2>2. AtGate' = AtGate - 1 /\ AtStore' = AtStore
    BY <1>5, DemuxMoves DEF D!CountFrame, InGate
  <2>. QED
    BY <1>1, <2>1, <2>2, CountsAreNat
<1>6. CASE D!CountMeasurement(w)
  <2>1. Measurements' = Measurements + 1 /\ UNCHANGED <<Demuxed, InFftCh, InMeasCh>>
    BY <1>2, <1>6 DEF D!CountMeasurement, Demuxed, Measurements, InFftCh, InMeasCh,
       D!DemuxStats
  <2>2. AtGate' = AtGate /\ AtStore' = AtStore + 1
    BY <1>6, DemuxMoves DEF D!CountMeasurement, InGate
  <2>. QED
    BY <1>1, <2>1, <2>2, CountsAreNat
<1>7. CASE D!DemuxSend(w)
  <2>1. D!Held(w) \in Measured /\ measCh \in Seq(Measured)
    BY <1>7, HeldIsMeasured DEF D!DemuxSend, D!Go, Types, ChannelTypes
  <2>2. InMeasCh' = InMeasCh + 1
    BY <1>7, <2>1, LengthCounts DEF D!DemuxSend, InMeasCh
  <2>3. UNCHANGED <<Demuxed, Measurements, InFftCh>>
    BY <1>7 DEF D!DemuxSend, Demuxed, Measurements, InFftCh
  <2>4. AtGate' = AtGate /\ AtStore' = AtStore - 1
    BY <1>7, DemuxMoves DEF D!DemuxSend, InGate
  <2>. QED
    BY <1>1, <2>2, <2>3, <2>4, CountsAreNat
<1>8. CASE D!DemuxAbandon(w) \/ D!DemuxSkip(w)
  <2>1. UNCHANGED <<Demuxed, Measurements, InFftCh, InMeasCh>>
    BY <1>8 DEF D!DemuxAbandon, D!DemuxSkip, Demuxed, Measurements, InFftCh, InMeasCh
  <2>2. AtGate' = AtGate /\ AtStore' = AtStore - 1
    BY <1>8, DemuxMoves DEF D!DemuxAbandon, D!DemuxSkip, InGate
  <2>. QED
    BY <1>1, <2>1, <2>2, CountsAreNat
<1>. QED
  BY <1>3, <1>4, <1>5, <1>6, <1>7, <1>8 DEF D!DemuxWork

LEMMA SinkBalance ==
  ASSUME Types, Balanced, SinkStep \/ SinkStore
  PROVE  Balanced'
<1>. USE DEF Balanced, DatagramsBalance, FramesBalance, ResultsBalance, MeasurementsBalance
<1>1. /\ UNCHANGED <<Received, Dropped, llost, AtListener>>
      /\ UNCHANGED <<AtParser, Rejected, Parsed, flost, AtFramer>>
      /\ UNCHANGED <<AtTransform, Transformed, DroppedResults, plost, AtProcessor>>
      /\ UNCHANGED <<AtGate, Demuxed, Measurements, AtStore>>
      /\ UNCHANGED <<InUdpCh, InFramerCh, InFftCh>>
  BY QuietCounts DEF SinkStep, SinkStore
<1>2. kstats \in SinkStats
  BY DEF Types, SinkTypes
<1>3. CASE K!SinkReceive
  <2>1. measCh \in Seq(Measured)
    BY DEF Types, ChannelTypes
  <2>2. InMeasCh' = InMeasCh - 1
    BY <1>3, <2>1, LengthCounts DEF K!SinkReceive, InMeasCh
  <2>3. Taken' = Taken + 1
    BY <1>2, <1>3 DEF K!SinkReceive, Taken, SinkStats
  <2>. QED
    BY <1>1, <2>2, <2>3, CountsAreNat
<1>4. CASE K!SinkStop \/ UNCHANGED <<measCh, sinks>>
  <2>1. UNCHANGED <<Taken, InMeasCh>>
    BY <1>4, QuietCounts DEF K!SinkStop, Taken
  <2>. QED
    BY <1>1, <2>1
<1>5. CASE K!SinkStored
  <2>1. UNCHANGED <<Taken, InMeasCh>>
    BY <1>2, <1>5, QuietCounts DEF K!SinkStored, Taken, SinkStats
  <2>. QED
    BY <1>1, <2>1
<1>. QED
  BY <1>3, <1>4, <1>5 DEF SinkStep, SinkStore

LEMMA QuietBalance ==
  ASSUME Types, Balanced,
         UNCHANGED <<listeners, framers, ffts, demuxes, sinks, udpCh, framerCh, fftCh, measCh>>
  PROVE  Balanced'
BY QuietCounts
   DEF Balanced, DatagramsBalance, FramesBalance, ResultsBalance, MeasurementsBalance

LEMMA BindBalance ==
  ASSUME Types, Balanced, ListenerBind
  PROVE  Balanced'
<1>1. PICK w \in ListenerWorkers : L!BindSocket(w)
  BY DEF ListenerBind
<1>2. /\ UNCHANGED <<AtParser, Rejected, Parsed, flost, AtFramer>>
      /\ UNCHANGED <<AtTransform, Transformed, DroppedResults, plost, AtProcessor>>
      /\ UNCHANGED <<AtGate, Demuxed, Measurements, AtStore, Taken>>
      /\ UNCHANGED <<InFramerCh, InFftCh, InMeasCh>>
  BY QuietCounts DEF ListenerBind
<1>3. UNCHANGED <<Received, Dropped, llost, InUdpCh>>
  BY <1>1 DEF L!BindSocket, Received, Dropped, InUdpCh
<1>4. AtListener' = AtListener
  BY <1>1, ListenerMoves DEF L!BindSocket
<1>. QED
  BY <1>2, <1>3, <1>4
     DEF Balanced, DatagramsBalance, FramesBalance, ResultsBalance, MeasurementsBalance

LEMMA BalanceStep ==
  ASSUME Types, Balanced, [Next]_vars
  PROVE  Balanced'
<1>1. ASSUME NEW w \in DemuxWorkers, DemuxStep(w) PROVE Balanced'
  BY <1>1, DemuxBalance DEF DemuxStep
<1>2. ASSUME NEW w \in DemuxWorkers, DemuxStore(w) PROVE Balanced'
  <2>1. CASE D!DemuxStored(w)
    BY <1>2, <2>1, DemuxBalance DEF DemuxStore
  <2>2. CASE UNCHANGED <<fftCh, measCh, demuxes>>
    BY <1>2, <2>2, QuietBalance DEF DemuxStore
  <2>. QED
    BY <1>2, <2>1, <2>2 DEF DemuxStore
<1>3. ASSUME MonitorStep \/ StorageStep \/ Quiet PROVE Balanced'
  BY <1>3, QuietBalance DEF MonitorStep, StorageStep, Quiet, components
<1>. QED
  BY <1>1, <1>2, <1>3, StepCases, ListenerBalance, FramerBalance, ProcessorBalance,
     SinkBalance, BindBalance

(* Nobody is anywhere yet.                                                 *)
LEMMA NobodyThere ==
  ASSUME NEW W, NEW x, NEW f, f = [w \in W |-> x], NEW A, x \notin A
  PROVE  Among(f, A) = 0
<1>1. {w \in DOMAIN f : f[w] \in A} = {}
  OBVIOUS
<1>. QED
  BY <1>1, FS_EmptySet DEF Among

LEMMA BalanceInit == Init => Balanced
<1>. SUFFICES ASSUME Init PROVE Balanced
  OBVIOUS
<1>1. /\ lpc = [w \in ListenerWorkers |-> "unborn"] /\ fpc = [w \in FramerWorkers |-> "select"]
      /\ ppc = [w \in FftWorkers |-> "select"] /\ dpc = [w \in DemuxWorkers |-> "select"]
  BY DEF Init, L!ListenerInit, F!FramerInit, P!ProcessorInit, D!DemuxInit
<1>2. AtListener = 0
  BY <1>1, NobodyThere DEF AtListener
<1>3. AtParser = 0 /\ AtFramer = 0
  <2>1. "select" \notin {"parse"} /\ "select" \notin {"send"}
    OBVIOUS
  <2>. QED
    BY <1>1, <2>1, NobodyThere, Zenon DEF AtParser, AtFramer
<1>4. AtTransform = 0 /\ AtProcessor = 0
  BY <1>1, NobodyThere DEF AtTransform, AtProcessor
<1>5. AtGate = 0 /\ AtStore = 0
  <2>1. "select" \notin InGate /\ "select" \notin {"store", "send"}
    BY DEF InGate
  <2>. QED
    BY <1>1, <2>1, NobodyThere, Zenon DEF AtGate, AtStore
<1>6. /\ Received = 0 /\ Dropped = 0 /\ llost = 0 /\ InUdpCh = 0
      /\ Rejected = 0 /\ Parsed = 0 /\ flost = 0 /\ InFramerCh = 0
  BY DEF Init, L!ListenerInit, F!FramerInit, Received, Dropped, InUdpCh, Rejected, Parsed,
     InFramerCh
<1>7. /\ Transformed = 0 /\ DroppedResults = 0 /\ plost = 0 /\ InFftCh = 0
      /\ Demuxed = 0 /\ Measurements = 0 /\ InMeasCh = 0 /\ Taken = 0
  BY DEF Init, P!ProcessorInit, D!DemuxInit, K!SinkInit, Transformed, DroppedResults, InFftCh,
     Demuxed, Measurements, InMeasCh, Taken
<1>. QED
  BY <1>2, <1>3, <1>4, <1>5, <1>6, <1>7
     DEF Balanced, DatagramsBalance, FramesBalance, ResultsBalance, MeasurementsBalance

(* No stage loses sight of a datagram, a frame or a measurement: at every  *)
(* moment, also while the components go down one by one, the counters the  *)
(* Close methods log add up across the stages, with any number of workers. *)
THEOREM GatewayFramesAccounted == Spec => []FramesAccounted
<1>1. Init => Types /\ Balanced
  BY TypesInit, BalanceInit
<1>2. Types /\ Balanced /\ [Next]_vars => Types' /\ Balanced'
  BY TypesStep, BalanceStep
<1>3. Types /\ Balanced => FramesAccounted
  BY BalancedIsAccounted
<1>. QED
  BY <1>1, <1>2, <1>3, PTL DEF Spec

-----------------------------------------------------------------------------
(* Where the frames are.  The seven places of PlacesOf in the order of the *)
(* flow, and how often each has frame n.                                   *)
OfFrame(n) == {m \in Measured : m.frame = n}

Has(k, n) ==
  CASE k = 1 -> Among(fframe, {n})
    [] k = 2 -> Among(framerCh, {n})
    [] k = 3 -> Among(pframe, {n})
    [] k = 4 -> Among(fftCh, {n})
    [] k = 5 -> Among(dheld, {n})
    [] k = 6 -> Among(measCh, OfFrame(n))
    [] k = 7 -> IF kheld.frame = n THEN 1 ELSE 0

Places == 1..7

(* What a step does to one of them.                                        *)
Takes(k, x) ==
  \A n \in FrameNumber :
    /\ n = x => Has(k, n)' = Has(k, n) + 1
    /\ n # x => Has(k, n)' = Has(k, n)
Gives(k, x) ==
  /\ Has(k, x) >= 1
  /\ \A n \in FrameNumber :
       /\ n = x => Has(k, n)' = Has(k, n) - 1
       /\ n # x => Has(k, n)' = Has(k, n)
Rests(k) == \A n \in FrameNumber : Has(k, n)' = Has(k, n)
RestBut(A) == \A k \in Places \ A : Rests(k)

(* What a step does to all of them: a frame is born in the hands of the    *)
(* framer, goes one place on, or leaves from a hand or from measCh.        *)
IsBorn(x) == x = frameNum + 1 /\ frameNum' = x /\ Takes(1, x) /\ RestBut({1})
Advances(x, k) ==
  frameNum' = frameNum /\ Gives(k, x) /\ Takes(k + 1, x) /\ RestBut({k, k + 1})
Departs(x, k) == frameNum' = frameNum /\ Gives(k, x) /\ RestBut({k})
AllRest == frameNum' = frameNum /\ RestBut({})

FrameMoves ==
  \/ AllRest
  \/ \E x \in FrameNumber : IsBorn(x)
  \/ \E x \in FrameNumber, k \in 1..6 : Advances(x, k)
  \/ \E x \in FrameNumber, k \in {1, 3, 5, 6, 7} : Departs(x, k)

(* Hands and channels that take and give.                                  *)
LEMMA HandTakes ==
  ASSUME NEW W, IsFiniteSet(W), NEW f \in [W -> Nat], NEW w \in W, f[w] = 0,
         NEW x \in FrameNumber, NEW g, g = [f EXCEPT ![w] = x], NEW n \in FrameNumber
  PROVE  /\ n = x => Grows(f, g, {n})
         /\ n # x => Keeps(f, g, {n})
<1>1. /\ f[w] \in {n} /\ x \notin {n} => Shrinks(f, g, {n})
      /\ f[w] \notin {n} /\ x \in {n} => Grows(f, g, {n})
      /\ (f[w] \in {n} <=> x \in {n}) => Keeps(f, g, {n})
  BY GoCounts, Zenon
<1>. QED
  BY <1>1 DEF FrameNumber

LEMMA HandGives ==
  ASSUME NEW W, IsFiniteSet(W), NEW f \in [W -> Nat], NEW w \in W, f[w] # 0,
         NEW g, g = [f EXCEPT ![w] = 0], NEW n \in FrameNumber
  PROVE  /\ n = f[w] => Shrinks(f, g, {n}) /\ Among(f, {n}) >= 1
         /\ n # f[w] => Keeps(f, g, {n})
<1>1. /\ f[w] \in {n} /\ 0 \notin {n} => Shrinks(f, g, {n})
      /\ f[w] \notin {n} /\ 0 \in {n} => Grows(f, g, {n})
      /\ (f[w] \in {n} <=> 0 \in {n}) => Keeps(f, g, {n})
  BY GoCounts, Zenon
<1>2. n = f[w] => Among(f, {n}) >= 1
  BY AmongUnique
<1>. QED
  BY <1>1, <1>2 DEF FrameNumber

LEMMA ChannelTakes ==
  ASSUME NEW T, NEW q \in Seq(T), NEW x \in T, NEW A
  PROVE  /\ x \in A => Grows(q, Append(q, x), A)
         /\ x \notin A => Keeps(q, Append(q, x), A)
<1>1. Among(q, A) \in Nat
  BY SeqFinite
<1>2. Among(Append(q, x), A) = Among(q, A) + (IF x \in A THEN 1 ELSE 0)
  BY AmongAppend
<1>. QED
  BY <1>1, <1>2 DEF Grows, Keeps

LEMMA ChannelGives ==
  ASSUME NEW T, NEW q \in Seq(T), q # <<>>, NEW A
  PROVE  /\ Head(q) \in A => Shrinks(q, Tail(q), A) /\ Among(q, A) >= 1
         /\ Head(q) \notin A => Keeps(q, Tail(q), A)
<1>1. Among(q, A) \in Nat
  BY SeqFinite
<1>2. Among(Tail(q), A) = Among(q, A) - (IF Head(q) \in A THEN 1 ELSE 0)
  BY AmongTail
<1>3. IsFiniteSet(DOMAIN q) /\ 1 \in DOMAIN q /\ Head(q) = q[1]
  <2>1. 1 \in DOMAIN q /\ Head(q) = q[1]
    OBVIOUS
  <2>. QED
    BY <2>1, SeqFinite
<1>4. Head(q) \in A => Among(q, A) >= 1
  BY <1>3, AmongUnique
<1>. QED
  BY <1>1, <1>2, <1>4 DEF Shrinks, Keeps

LEMMA QuietPlaces ==
  /\ UNCHANGED framers => Rests(1) /\ frameNum' = frameNum
  /\ UNCHANGED fframe => Rests(1)
  /\ UNCHANGED framerCh => Rests(2)
  /\ UNCHANGED ffts => Rests(3)
  /\ UNCHANGED pframe => Rests(3)
  /\ UNCHANGED fftCh => Rests(4)
  /\ UNCHANGED demuxes => Rests(5)
  /\ UNCHANGED dheld => Rests(5)
  /\ UNCHANGED measCh => Rests(6)
  /\ UNCHANGED sinks => Rests(7)
  /\ UNCHANGED kheld => Rests(7)
BY DEF Rests, Has, framers, ffts, demuxes, sinks

LEMMA FramerFrames ==
  ASSUME Types, NEW w \in FramerWorkers, FramerStep(w)
  PROVE  FrameMoves
<1>1. Rests(3) /\ Rests(4) /\ Rests(5) /\ Rests(6) /\ Rests(7)
  BY QuietPlaces DEF FramerStep
<1>2. fframe \in [FramerWorkers -> Nat] /\ IsFiniteSet(FramerWorkers) /\ frameNum \in Nat
  BY GatewayAssumption DEF Types, FramerTypes
<1>3. CASE F!FramerReceive(w) \/ F!FramerStop(w) \/ F!RejectFrame(w)
  <2>1. Rests(1) /\ Rests(2) /\ frameNum' = frameNum
    BY <1>3, QuietPlaces DEF F!FramerReceive, F!FramerStop, F!RejectFrame
  <2>. QED
    BY <1>1, <2>1 DEF FrameMoves, AllRest, RestBut, Places
<1>4. CASE F!ParseFrame(w)
  <2>. DEFINE x == frameNum + 1
  <2>1. /\ fframe[w] = 0 /\ fframe' = [fframe EXCEPT ![w] = x] /\ x \in FrameNumber
        /\ frameNum' = x
    BY <1>2, <1>4 DEF F!ParseFrame, F!FramerGo, Types, FramerTypes, FrameNumber
  <2>. HIDE DEF x
  <2>2. ASSUME NEW n \in FrameNumber
        PROVE  /\ n = x => Grows(fframe, fframe', {n})
               /\ n # x => Keeps(fframe, fframe', {n})
    BY <1>2, <2>1, HandTakes
  <2>3. Takes(1, x)
    BY <2>2 DEF Takes, Has, Grows, Keeps
  <2>4. Rests(2)
    BY <1>4, QuietPlaces DEF F!ParseFrame
  <2>5. IsBorn(x)
    BY <1>1, <2>1, <2>3, <2>4 DEF IsBorn, RestBut, Places, x
  <2>. QED
    BY <2>1, <2>5 DEF FrameMoves
<1>5. ASSUME fpc[w] = "send", F!FramerLetGo(w)
      PROVE  fframe[w] \in FrameNumber /\ Gives(1, fframe[w])
  <2>1. fframe[w] # 0 /\ fframe[w] \in FrameNumber
    BY <1>5 DEF Types, FramerTypes, FrameNumber
  <2>2. fframe' = [fframe EXCEPT ![w] = 0]
    BY <1>5 DEF F!FramerLetGo
  <2>3. ASSUME NEW n \in FrameNumber
        PROVE  /\ n = fframe[w] => Shrinks(fframe, fframe', {n}) /\ Among(fframe, {n}) >= 1
               /\ n # fframe[w] => Keeps(fframe, fframe', {n})
    BY <1>2, <2>1, <2>2, HandGives
  <2>. QED
    BY <2>1, <2>3 DEF Gives, Has, Shrinks, Keeps
<1>6. CASE F!FramerSend(w)
  <2>. DEFINE x == fframe[w]
  <2>1. x \in FrameNumber /\ Gives(1, x)
    BY <1>5, <1>6 DEF F!FramerSend, F!FramerGo
  <2>2. framerCh \in Seq(FrameNumber) /\ framerCh' = Append(framerCh, x)
    BY <1>6 DEF F!FramerSend, Types, ChannelTypes
  <2>. HIDE DEF x
  <2>3. ASSUME NEW n \in FrameNumber
        PROVE  /\ n = x => Grows(framerCh, framerCh', {n})
               /\ n # x => Keeps(framerCh, framerCh', {n})
    BY <2>1, <2>2, ChannelTakes
  <2>4. Takes(2, x)
    BY <2>3 DEF Takes, Has, Grows, Keeps
  <2>5. frameNum' = frameNum
    BY <1>6 DEF F!FramerSend
  <2>6. Advances(x, 1)
    BY <1>1, <2>1, <2>4, <2>5 DEF Advances, RestBut, Places
  <2>. QED
    BY <2>1, <2>6 DEF FrameMoves
<1>7. CASE F!FramerAbandon(w) \/ F!FramerSkip(w)
  <2>1. fframe[w] \in FrameNumber /\ Gives(1, fframe[w])
    BY <1>5, <1>7 DEF F!FramerAbandon, F!FramerSkip, F!FramerGo
  <2>2. Rests(2) /\ frameNum' = frameNum
    BY <1>7, QuietPlaces DEF F!FramerAbandon, F!FramerSkip
  <2>3. Departs(fframe[w], 1)
    BY <1>1, <2>1, <2>2 DEF Departs, RestBut, Places
  <2>. QED
    BY <2>1, <2>3 DEF FrameMoves
<1>. QED
  BY <1>3, <1>4, <1>6, <1>7 DEF F!FramerWork, FramerStep

LEMMA ProcessorFrames ==
  ASSUME Types, NEW w \in FftWorkers, FftStep(w)
  PROVE  FrameMoves
<1>1. Rests(1) /\ Rests(5) /\ Rests(6) /\ Rests(7) /\ frameNum' = frameNum
  BY QuietPlaces DEF FftStep
<1>2. pframe \in [FftWorkers -> Nat] /\ IsFiniteSet(FftWorkers)
  BY GatewayAssumption DEF Types, ProcessorTypes
<1>3. CASE P!ProcessorStop(w) \/ P!TransformFrame(w)
  <2>1. Rests(2) /\ Rests(3) /\ Rests(4)
    BY <1>3, QuietPlaces DEF P!ProcessorStop, P!TransformFrame
  <2>. QED
    BY <1>1, <2>1 DEF FrameMoves, AllRest, RestBut, Places
<1>4. CASE P!ProcessorReceive(w)
  <2>. DEFINE x == Head(framerCh)
  <2>1. framerCh \in Seq(FrameNumber) /\ framerCh # <<>> /\ framerCh' = Tail(framerCh)
    BY <1>4 DEF P!ProcessorReceive, Types, ChannelTypes
  <2>2. x \in FrameNumber
    BY <2>1, ChannelShape
  <2>3. pframe[w] = 0 /\ pframe' = [pframe EXCEPT ![w] = x]
    BY <1>4 DEF P!ProcessorReceive, P!ProcessorGo, Types, ProcessorTypes
  <2>4. ASSUME NEW n \in FrameNumber
        PROVE  /\ n = x => Shrinks(framerCh, framerCh', {n}) /\ Among(framerCh, {n}) >= 1
               /\ n # x => Keeps(framerCh, framerCh', {n})
    BY <2>1, ChannelGives
  <2>. HIDE DEF x
  <2>5. ASSUME NEW n \in FrameNumber
        PROVE  /\ n = x => Grows(pframe, pframe', {n})
               /\ n # x => Keeps(pframe, pframe', {n})
    BY <1>2, <2>2, <2>3, HandTakes
  <2>6. Gives(2, x) /\ Takes(3, x)
    BY <2>2, <2>4, <2>5 DEF Gives, Takes, Has, Grows, Shrinks, Keeps
  <2>7. Rests(4)
    BY <1>4, QuietPlaces DEF P!ProcessorReceive
  <2>8. Advances(x, 2)
    BY <1>1, <2>6, <2>7 DEF Advances, RestBut, Places
  <2>. QED
    BY <2>2, <2>8 DEF FrameMoves
<1>5. ASSUME ppc[w] = "send", P!ProcessorLetGo(w)
      PROVE  pframe[w] \in FrameNumber /\ Gives(3, pframe[w])
  <2>1. pframe[w] # 0 /\ pframe[w] \in FrameNumber
    BY <1>5 DEF Types, ProcessorTypes, FrameNumber
  <2>2. pframe' = [pframe EXCEPT ![w] = 0]
    BY <1>5 DEF P!ProcessorLetGo
  <2>3. ASSUME NEW n \in FrameNumber
        PROVE  /\ n = pframe[w] => Shrinks(pframe, pframe', {n}) /\ Among(pframe, {n}) >= 1
               /\ n # pframe[w] => Keeps(pframe, pframe', {n})
    BY <1>2, <2>1, <2>2, HandGives
  <2>. QED
    BY <2>1, <2>3 DEF Gives, Has, Shrinks, Keeps
<1>6. CASE P!ProcessorSend(w)
  <2>. DEFINE x == pframe[w]
  <2>1. x \in FrameNumber /\ Gives(3, x)
    BY <1>5, <1>6 DEF P!ProcessorSend, P!ProcessorGo
  <2>2. fftCh \in Seq(FrameNumber) /\ fftCh' = Append(fftCh, x)
    BY <1>6 DEF P!ProcessorSend, Types, ChannelTypes
  <2>. HIDE DEF x
  <2>3. ASSUME NEW n \in FrameNumber
        PROVE  /\ n = x => Grows(fftCh, fftCh', {n})
               /\ n # x => Keeps(fftCh, fftCh', {n})
    BY <2>1, <2>2, ChannelTakes
  <2>4. Takes(4, x)
    BY <2>3 DEF Takes, Has, Grows, Keeps
  <2>5. Rests(2)
    BY <1>6, QuietPlaces DEF P!ProcessorSend
  <2>6. Advances(x, 3)
    BY <1>1, <2>1, <2>4, <2>5 DEF Advances, RestBut, Places
  <2>. QED
    BY <2>1, <2>6 DEF FrameMoves
<1>7. CASE P!ProcessorAbandon(w) \/ P!ProcessorSkip(w)
  <2>1. pframe[w] \in FrameNumber /\ Gives(3, pframe[w])
    BY <1>5, <1>7 DEF P!ProcessorAbandon, P!ProcessorSkip, P!ProcessorGo
  <2>2. Rests(2) /\ Rests(4)
    BY <1>7, QuietPlaces DEF P!ProcessorAbandon, P!ProcessorSkip
  <2>3. Departs(pframe[w], 3)
    BY <1>1, <2>1, <2>2 DEF Departs, RestBut, Places
  <2>. QED
    BY <2>1, <2>3 DEF FrameMoves
<1>. QED
  BY <1>3, <1>4, <1>6, <1>7 DEF P!ProcessorWork, FftStep

LEMMA DemuxFrames ==
  ASSUME Types, NEW w \in DemuxWorkers, D!DemuxWork(w) \/ D!DemuxStored(w),
         UNCHANGED <<framers, ffts, sinks, framerCh>>
  PROVE  FrameMoves
<1>1. Rests(1) /\ Rests(2) /\ Rests(3) /\ Rests(7) /\ frameNum' = frameNum
  BY QuietPlaces
<1>2. dheld \in [DemuxWorkers -> Nat] /\ IsFiniteSet(DemuxWorkers)
  BY GatewayAssumption DEF Types, DemuxTypes
<1>3. CASE D!DemuxStop(w) \/ D!PassGate(w) \/ D!SleepAtGate(w) \/ D!Increment(w)
           \/ D!ProcessFrame(w) \/ D!Decrement(w) \/ D!CountFrame(w)
           \/ D!CountMeasurement(w) \/ D!DemuxStored(w)
  <2>1. UNCHANGED <<fftCh, measCh, dheld>>
    BY <1>3 DEF D!DemuxStop, D!PassGate, D!SleepAtGate, D!Increment, D!ProcessFrame,
       D!Decrement, D!CountFrame, D!CountMeasurement, D!DemuxStored
  <2>2. Rests(4) /\ Rests(5) /\ Rests(6)
    BY <2>1, QuietPlaces
  <2>. QED
    BY <1>1, <2>2 DEF FrameMoves, AllRest, RestBut, Places
<1>4. CASE D!DemuxReceive(w)
  <2>. DEFINE x == Head(fftCh)
  <2>1. fftCh \in Seq(FrameNumber) /\ fftCh # <<>> /\ fftCh' = Tail(fftCh)
    BY <1>4 DEF D!DemuxReceive, Types, ChannelTypes
  <2>2. x \in FrameNumber
    BY <2>1, ChannelShape
  <2>3. dheld[w] = 0 /\ dheld' = [dheld EXCEPT ![w] = x]
    BY <1>4 DEF D!DemuxReceive, D!Go, Types, DemuxTypes
  <2>4. ASSUME NEW n \in FrameNumber
        PROVE  /\ n = x => Shrinks(fftCh, fftCh', {n}) /\ Among(fftCh, {n}) >= 1
               /\ n # x => Keeps(fftCh, fftCh', {n})
    BY <2>1, ChannelGives
  <2>. HIDE DEF x
  <2>5. ASSUME NEW n \in FrameNumber
        PROVE  /\ n = x => Grows(dheld, dheld', {n})
               /\ n # x => Keeps(dheld, dheld', {n})
    BY <1>2, <2>2, <2>3, HandTakes
  <2>6. Gives(4, x) /\ Takes(5, x)
    BY <2>2, <2>4, <2>5 DEF Gives, Takes, Has, Grows, Shrinks, Keeps
  <2>7. Rests(6)
    BY <1>4, QuietPlaces DEF D!DemuxReceive
  <2>8. Advances(x, 4)
    BY <1>1, <2>6, <2>7 DEF Advances, RestBut, Places
  <2>. QED
    BY <2>2, <2>8 DEF FrameMoves
<1>5. ASSUME dpc[w] = "send", D!LetGo(w)
      PROVE  dheld[w] \in FrameNumber /\ Gives(5, dheld[w])
  <2>1. dheld[w] # 0 /\ dheld[w] \in FrameNumber
    BY <1>5 DEF Types, DemuxTypes, FrameNumber
  <2>2. dheld' = [dheld EXCEPT ![w] = 0]
    BY <1>5 DEF D!LetGo
  <2>3. ASSUME NEW n \in FrameNumber
        PROVE  /\ n = dheld[w] => Shrinks(dheld, dheld', {n}) /\ Among(dheld, {n}) >= 1
               /\ n # dheld[w] => Keeps(dheld, dheld', {n})
    BY <1>2, <2>1, <2>2, HandGives
  <2>. QED
    BY <2>1, <2>3 DEF Gives, Has, Shrinks, Keeps
<1>6. CASE D!DemuxSend(w)
  <2>. DEFINE x == dheld[w]
  <2>1. x \in FrameNumber /\ Gives(5, x)
    BY <1>5, <1>6 DEF D!DemuxSend, D!Go
  <2>2. measCh \in Seq(Measured) /\ measCh' = Append(measCh, D!Held(w))
    BY <1>6 DEF D!DemuxSend, Types, ChannelTypes
  <2>3. D!Held(w) \in Measured /\ D!Held(w).frame = x
    BY <1>6, HeldIsMeasured DEF D!DemuxSend, D!Go, D!Held
  <2>4. \A n \in FrameNumber : D!Held(w) \in OfFrame(n) <=> n = x
    BY <2>3 DEF OfFrame
  <2>. HIDE DEF x
  <2>5. ASSUME NEW n \in FrameNumber
        PROVE  /\ n = x => Grows(measCh, measCh', OfFrame(n))
               /\ n # x => Keeps(measCh, measCh', OfFrame(n))
    BY <2>2, <2>3, <2>4, ChannelTakes
  <2>6. Takes(6, x)
    BY <2>5 DEF Takes, Has, Grows, Keeps
  <2>7. Rests(4)
    BY <1>6, QuietPlaces DEF D!DemuxSend
  <2>8. Advances(x, 5)
    BY <1>1, <2>1, <2>6, <2>7 DEF Advances, RestBut, Places
  <2>. QED
    BY <2>1, <2>8 DEF FrameMoves
<1>7. CASE D!DemuxAbandon(w) \/ D!DemuxSkip(w)
  <2>1. dheld[w] \in FrameNumber /\ Gives(5, dheld[w])
    BY <1>5, <1>7 DEF D!DemuxAbandon, D!DemuxSkip, D!Go
  <2>2. Rests(4) /\ Rests(6)
    BY <1>7, QuietPlaces DEF D!DemuxAbandon, D!DemuxSkip
  <2>3. Departs(dheld[w], 5)
    BY <1>1, <2>1, <2>2 DEF Departs, RestBut, Places
  <2>. QED
    BY <2>1, <2>3 DEF FrameMoves
<1>. QED
  BY <1>3, <1>4, <1>6, <1>7 DEF D!DemuxWork

LEMMA SinkFrames ==
  ASSUME Types, SinkStep \/ SinkStore
  PROVE  FrameMoves
<1>1. Rests(1) /\ Rests(2) /\ Rests(3) /\ Rests(4) /\ Rests(5) /\ frameNum' = frameNum
  BY QuietPlaces DEF SinkStep, SinkStore
<1>2. CASE K!SinkReceive
  <2>. DEFINE m == Head(measCh)
              x == m.frame
  <2>1. measCh \in Seq(Measured) /\ measCh # <<>> /\ measCh' = Tail(measCh)
    BY <1>2 DEF K!SinkReceive, Types, ChannelTypes
  <2>2. m \in Measured
    BY <2>1, ChannelShape
  <2>3. x \in FrameNumber /\ \A n \in FrameNumber : m \in OfFrame(n) <=> n = x
    BY <2>2 DEF OfFrame, Measured
  <2>4. ASSUME NEW n \in FrameNumber
        PROVE  /\ n = x => Shrinks(measCh, measCh', OfFrame(n))
                            /\ Among(measCh, OfFrame(n)) >= 1
               /\ n # x => Keeps(measCh, measCh', OfFrame(n))
    BY <2>1, <2>3, ChannelGives
  <2>5. kheld.frame = 0
    BY <1>2 DEF K!SinkReceive, Types, SinkTypes, K!NoMeasurement
  <2>6. CASE kheld' = m
    <3>. HIDE DEF m, x
    <3>1. Gives(6, x)
      BY <2>3, <2>4 DEF Gives, Has, Shrinks, Keeps
    <3>2. kheld'.frame = x
      BY <2>6 DEF x
    <3>3. Takes(7, x)
      BY <2>3, <2>5, <3>2 DEF Takes, Has, FrameNumber
    <3>4. Advances(x, 6)
      BY <1>1, <3>1, <3>3 DEF Advances, RestBut, Places
    <3>. QED
      BY <2>3, <3>4 DEF FrameMoves
  <2>7. CASE UNCHANGED kheld
    <3>. HIDE DEF m, x
    <3>1. Gives(6, x)
      BY <2>3, <2>4 DEF Gives, Has, Shrinks, Keeps
    <3>2. Departs(x, 6)
      BY <1>1, <2>7, <3>1, QuietPlaces DEF Departs, RestBut, Places
    <3>. QED
      BY <2>3, <3>2 DEF FrameMoves
  <2>. QED
    BY <1>2, <2>6, <2>7 DEF K!SinkReceive
<1>3. CASE K!SinkStop \/ UNCHANGED <<measCh, sinks>>
  <2>1. Rests(6) /\ Rests(7)
    BY <1>3, QuietPlaces DEF K!SinkStop, sinks
  <2>. QED
    BY <1>1, <2>1 DEF FrameMoves, AllRest, RestBut, Places
<1>4. CASE K!SinkStored
  <2>. DEFINE x == kheld.frame
  <2>1. x \in FrameNumber /\ kheld'.frame = 0
    BY <1>4 DEF K!SinkStored, Types, SinkTypes, K!NoMeasurement, Measured
  <2>2. Gives(7, x)
    BY <2>1 DEF Gives, Has, FrameNumber
  <2>3. Rests(6)
    BY <1>4, QuietPlaces DEF K!SinkStored
  <2>. HIDE DEF x
  <2>4. Departs(x, 7)
    BY <1>1, <2>2, <2>3 DEF Departs, RestBut, Places
  <2>. QED
    BY <2>1, <2>4 DEF FrameMoves
<1>. QED
  BY <1>2, <1>3, <1>4 DEF SinkStep, SinkStore

LEMMA QuietFrames ==
  ASSUME UNCHANGED <<framerCh, fftCh, measCh, framers, ffts, demuxes, sinks>>
  PROVE  FrameMoves
BY QuietPlaces DEF FrameMoves, AllRest, RestBut, Places

(* Whatever the gateway does, it is one of these to the frames.            *)
LEMMA FramesStep ==
  ASSUME Types, [Next]_vars
  PROVE  FrameMoves
<1>1. ASSUME NEW w \in DemuxWorkers, DemuxStep(w) PROVE FrameMoves
  BY <1>1, DemuxFrames DEF DemuxStep
<1>2. ASSUME NEW w \in DemuxWorkers, DemuxStore(w) PROVE FrameMoves
  <2>1. CASE D!DemuxStored(w)
    BY <1>2, <2>1, DemuxFrames DEF DemuxStore
  <2>2. CASE UNCHANGED <<fftCh, measCh, demuxes>>
    BY <1>2, <2>2, QuietFrames DEF DemuxStore
  <2>. QED
    BY <1>2, <2>1, <2>2 DEF DemuxStore
<1>3. ASSUME NEW w \in ListenerWorkers, ListenerStep(w) PROVE FrameMoves
  BY <1>3, QuietFrames DEF ListenerStep
<1>4. ASSUME MonitorStep \/ StorageStep \/ ListenerBind \/ Quiet PROVE FrameMoves
  BY <1>4, QuietFrames DEF MonitorStep, StorageStep, ListenerBind, Quiet, components
<1>. QED
  BY <1>1, <1>2, <1>3, <1>4, StepCases, FramerFrames, ProcessorFrames, SinkFrames

(* Frame n is in place k and nowhere else, or in no place if k is 0; and   *)
(* only numbers that have been given are anywhere.                         *)
IsIn(n, k) ==
  /\ k # 0 => n <= frameNum
  /\ \A i \in Places : Has(i, n) = IF i = k THEN 1 ELSE 0

Located == \A n \in FrameNumber : \E k \in 0..7 : IsIn(n, k)

LEMMA GivesFrom ==
  ASSUME NEW n, NEW k \in Places, NEW l, IsIn(n, l), Has(k, n) >= 1
  PROVE  l = k
BY DEF IsIn

LEMMA UndisturbedStays ==
  ASSUME frameNum \in Nat, frameNum' \in Nat, frameNum' >= frameNum,
         NEW n \in FrameNumber, NEW k \in 0..7, IsIn(n, k),
         \A i \in Places : Has(i, n)' = Has(i, n)
  PROVE  IsIn(n, k)'
BY DEF IsIn, FrameNumber

(* What a frame does when the step is about it.                            *)
LEMMA MovedIsIn ==
  ASSUME NEW x \in FrameNumber, frameNum \in Nat
  PROVE  /\ IsIn(x, 0) /\ IsBorn(x) => IsIn(x, 1)'
         /\ \A k \in 1..6 : IsIn(x, k) /\ Advances(x, k) => IsIn(x, k + 1)'
         /\ \A k \in Places : IsIn(x, k) /\ Departs(x, k) => IsIn(x, 0)'
<1>1. ASSUME IsIn(x, 0), IsBorn(x) PROVE IsIn(x, 1)'
  <2>1. Has(1, x)' = 1
    BY <1>1 DEF IsBorn, Takes, IsIn, Places
  <2>2. ASSUME NEW i \in Places \ {1} PROVE Has(i, x)' = 0
    <3>1. Has(i, x)' = Has(i, x)
      BY <1>1 DEF IsBorn, RestBut, Rests
    <3>2. Has(i, x) = 0
      BY <1>1 DEF IsIn, Places
    <3>. QED
      BY <3>1, <3>2
  <2>3. x <= frameNum'
    BY <1>1 DEF IsBorn, FrameNumber
  <2>. QED
    BY <2>1, <2>2, <2>3 DEF IsIn
<1>2. ASSUME NEW k \in 1..6, IsIn(x, k), Advances(x, k) PROVE IsIn(x, k + 1)'
  <2>1. Has(k, x)' = 0 /\ Has(k + 1, x)' = 1
    BY <1>2 DEF Advances, Gives, Takes, IsIn, Places
  <2>2. \A i \in Places \ {k, k + 1} : Has(i, x)' = 0
    BY <1>2 DEF Advances, RestBut, Rests, IsIn
  <2>3. x <= frameNum'
    BY <1>2 DEF Advances, IsIn
  <2>. QED
    BY <2>1, <2>2, <2>3 DEF IsIn
<1>3. ASSUME NEW k \in Places, IsIn(x, k), Departs(x, k) PROVE IsIn(x, 0)'
  <2>1. Has(k, x)' = 0
    BY <1>3 DEF Departs, Gives, IsIn, Places
  <2>2. \A i \in Places \ {k} : Has(i, x)' = 0
    BY <1>3 DEF Departs, RestBut, Rests, IsIn
  <2>3. \A i \in Places : Has(i, x)' = 0
    BY <2>1, <2>2
  <2>. QED
    BY <2>3 DEF IsIn, Places
<1>. QED
  BY <1>1, <1>2, <1>3

LEMMA OthersRest ==
  ASSUME NEW x, NEW n \in FrameNumber, n # x
  PROVE  /\ IsBorn(x) => \A i \in Places : Has(i, n)' = Has(i, n)
         /\ \A k \in 1..6 : Advances(x, k) => \A i \in Places : Has(i, n)' = Has(i, n)
         /\ \A k \in Places : Departs(x, k) => \A i \in Places : Has(i, n)' = Has(i, n)
<1>1. ASSUME IsBorn(x), NEW i \in Places PROVE Has(i, n)' = Has(i, n)
  BY <1>1 DEF IsBorn, Takes, RestBut, Rests
<1>2. ASSUME NEW k \in 1..6, Advances(x, k), NEW i \in Places PROVE Has(i, n)' = Has(i, n)
  BY <1>2 DEF Advances, Gives, Takes, RestBut, Rests
<1>3. ASSUME NEW k \in Places, Departs(x, k), NEW i \in Places PROVE Has(i, n)' = Has(i, n)
  BY <1>3 DEF Departs, Gives, RestBut, Rests
<1>. QED
  BY <1>1, <1>2, <1>3

LEMMA LocatedStep ==
  ASSUME Types, Located, FrameMoves
  PROVE  Located'
<1>. SUFFICES ASSUME NEW n \in FrameNumber PROVE \E k \in 0..7 : IsIn(n, k)'
  BY DEF Located
<1>1. PICK l \in 0..7 : IsIn(n, l)
  BY DEF Located
<1>2. frameNum \in Nat
  BY DEF Types, FramerTypes
<1>3. ASSUME frameNum' \in Nat, frameNum' >= frameNum,
             \A i \in Places : Has(i, n)' = Has(i, n)
      PROVE  IsIn(n, l)'
  BY <1>1, <1>2, <1>3, UndisturbedStays
<1>4. CASE AllRest
  <2>1. frameNum' = frameNum /\ \A i \in Places : Has(i, n)' = Has(i, n)
    BY <1>4 DEF AllRest, RestBut, Rests
  <2>. QED
    BY <1>2, <1>3, <2>1
<1>5. ASSUME NEW x \in FrameNumber, IsBorn(x) PROVE \E k \in 0..7 : IsIn(n, k)'
  <2>1. frameNum' = frameNum + 1 /\ x = frameNum + 1
    BY <1>5 DEF IsBorn
  <2>2. CASE n = x
    <3>1. l = 0
      BY <1>1, <1>2, <2>1, <2>2 DEF IsIn
    <3>2. IsIn(n, 1)'
      BY <1>1, <1>2, <1>5, <2>2, <3>1, MovedIsIn
    <3>. QED
      BY <3>2
  <2>3. CASE n # x
    <3>1. IsIn(n, l)'
      BY <1>2, <1>3, <1>5, <2>1, <2>3, OthersRest
    <3>. QED
      BY <3>1
  <2>. QED
    BY <2>2, <2>3
<1>6. ASSUME NEW x \in FrameNumber, NEW k \in 1..6, Advances(x, k)
      PROVE  \E j \in 0..7 : IsIn(n, j)'
  <2>1. frameNum' = frameNum /\ Has(k, x) >= 1 /\ k \in Places
    BY <1>6 DEF Advances, Gives, Places
  <2>2. CASE n = x
    <3>1. l = k
      BY <1>1, <2>1, <2>2, GivesFrom
    <3>2. IsIn(n, k + 1)' /\ k + 1 \in 0..7
      BY <1>1, <1>2, <1>6, <2>2, <3>1, MovedIsIn
    <3>. QED
      BY <3>2
  <2>3. CASE n # x
    <3>1. IsIn(n, l)'
      BY <1>2, <1>3, <1>6, <2>1, <2>3, OthersRest
    <3>. QED
      BY <3>1
  <2>. QED
    BY <2>2, <2>3
<1>7. ASSUME NEW x \in FrameNumber, NEW k \in Places, Departs(x, k)
      PROVE  \E j \in 0..7 : IsIn(n, j)'
  <2>1. frameNum' = frameNum /\ Has(k, x) >= 1
    BY <1>7 DEF Departs, Gives
  <2>2. CASE n = x
    <3>1. l = k
      BY <1>1, <2>1, <2>2, GivesFrom
    <3>2. IsIn(n, 0)'
      BY <1>1, <1>2, <1>7, <2>2, <3>1, MovedIsIn
    <3>. QED
      BY <3>2
  <2>3. CASE n # x
    <3>1. IsIn(n, l)'
      BY <1>2, <1>3, <1>7, <2>1, <2>3, OthersRest
    <3>. QED
      BY <3>1
  <2>. QED
    BY <2>2, <2>3
<1>8. {1, 3, 5, 6, 7} \subseteq Places
  BY DEF Places
<1>. QED
  BY <1>4, <1>5, <1>6, <1>7, <1>8 DEF FrameMoves

LEMMA LocatedInit == Init => Located
<1>. SUFFICES ASSUME Init, NEW n \in FrameNumber PROVE IsIn(n, 0)
  BY DEF Located
<1>1. 0 \notin {n}
  BY DEF FrameNumber
<1>2. /\ fframe = [w \in FramerWorkers |-> 0] /\ pframe = [w \in FftWorkers |-> 0]
      /\ dheld = [w \in DemuxWorkers |-> 0] /\ kheld.frame = 0
      /\ framerCh = <<>> /\ fftCh = <<>> /\ measCh = <<>>
  BY DEF Init, F!FramerInit, P!ProcessorInit, D!DemuxInit, K!SinkInit, K!NoMeasurement
<1>3. Among(fframe, {n}) = 0 /\ Among(pframe, {n}) = 0 /\ Among(dheld, {n}) = 0
  <2>1. ASSUME NEW W, NEW f, f = [w \in W |-> 0] PROVE Among(f, {n}) = 0
    BY <1>1, <2>1, NobodyThere
  <2>. QED
    BY <1>2, <2>1
<1>4. \A A : Among(<<>>, A) = 0
  <2>1. \A A : {i \in DOMAIN <<>> : <<>>[i] \in A} = {}
    OBVIOUS
  <2>. QED
    BY <2>1, FS_EmptySet DEF Among
<1>5. \A i \in Places : Has(i, n) = 0
  BY <1>1, <1>2, <1>3, <1>4 DEF Has, Places
<1>. QED
  BY <1>5 DEF IsIn, Places

(* PlacesOf counts the same.                                               *)
LEMMA PlacesAreCounted ==
  ASSUME Types, NEW n \in FrameNumber
  PROVE  PlacesOf(n) = Has(1, n) + Has(2, n) + Has(3, n) + Has(4, n) + Has(5, n)
                       + Has(6, n) + Has(7, n)
<1>1. /\ Where(fframe, n) = Has(1, n) /\ Occurrences(framerCh, n) = Has(2, n)
      /\ Where(pframe, n) = Has(3, n) /\ Occurrences(fftCh, n) = Has(4, n)
      /\ Where(dheld, n) = Has(5, n)
  BY DEF Where, Occurrences, Has, Among
<1>2. {i \in DOMAIN measCh : measCh[i].frame = n} =
        {i \in DOMAIN measCh : measCh[i] \in OfFrame(n)}
  <2>1. \A i \in DOMAIN measCh : measCh[i] \in Measured
    BY DEF Types, ChannelTypes
  <2>. QED
    BY <2>1 DEF OfFrame
<1>3. Cardinality({i \in DOMAIN measCh : measCh[i].frame = n}) = Has(6, n)
  BY <1>2 DEF Has, Among
<1>4. (IF kheld.frame = n THEN 1 ELSE 0) = Has(7, n)
  BY DEF Has
<1>. QED
  BY <1>1, <1>3, <1>4, Zenon DEF PlacesOf

LEMMA LocatedIsOnePlace ==
  ASSUME Types, Located
  PROVE  FrameInOnePlace
<1>. SUFFICES ASSUME NEW n \in 1..MaxDatagrams
              PROVE  PlacesOf(n) <= (IF n <= frameNum THEN 1 ELSE 0)
  BY DEF FrameInOnePlace
<1>1. n \in FrameNumber
  BY GatewayAssumption DEF FrameNumber
<1>2. PICK k \in 0..7 : IsIn(n, k)
  BY <1>1 DEF Located
<1>3. \A i \in Places : Has(i, n) = IF i = k THEN 1 ELSE 0
  BY <1>2 DEF IsIn
<1>4. Has(1, n) + Has(2, n) + Has(3, n) + Has(4, n) + Has(5, n) + Has(6, n) + Has(7, n)
        = IF k = 0 THEN 0 ELSE 1
  BY <1>3 DEF Places
<1>5. k # 0 => n <= frameNum
  BY <1>2 DEF IsIn
<1>. QED
  BY <1>1, <1>4, <1>5, PlacesAreCounted

(* A frame number names one frame, and no frame is in two hands or         *)
(* channels at once, however many workers there are of each stage.         *)
THEOREM GatewayFrameInOnePlace == Spec => []FrameInOnePlace
<1>1. Init => Types /\ Located
  BY TypesInit, LocatedInit
<1>2. Types /\ Located /\ [Next]_vars => Types' /\ Located'
  BY TypesStep, FramesStep, LocatedStep
<1>3. Types /\ Located => FrameInOnePlace
  BY LocatedIsOnePlace
<1>. QED
  BY <1>1, <1>2, <1>3, PTL DEF Spec

-----------------------------------------------------------------------------
(* Closed channels.  The plan of main, step by step.                       *)
LEMMA PlanSteps ==
  /\ Len(Plan) = 25
  /\ Plan[1] = Step("start", "storage") /\ Plan[2] = Step("start", "listener")
  /\ Plan[3] = Step("start", "framer") /\ Plan[4] = Step("start", "fft")
  /\ Plan[5] = Step("start", "demux") /\ Plan[6] = Step("start", "sink")
  /\ Plan[7] = Step("signal", "main")
  /\ Plan[8] = Step("cancel", "listener") /\ Plan[9] = Step("sockets", "listener")
  /\ Plan[10] = Step("wait", "listener") /\ Plan[11] = Step("close", "udpCh")
  /\ Plan[12] = Step("cancel", "framer") /\ Plan[13] = Step("wait", "framer")
  /\ Plan[14] = Step("close", "framerCh")
  /\ Plan[15] = Step("cancel", "fft") /\ Plan[16] = Step("wait", "fft")
  /\ Plan[17] = Step("close", "fftCh")
  /\ Plan[18] = Step("cancel", "demux") /\ Plan[19] = Step("wait", "demux")
  /\ Plan[20] = Step("close", "measCh")
  /\ Plan[21] = Step("cancel", "sink") /\ Plan[22] = Step("wait", "sink")
  /\ Plan[23] = Step("cancel", "storage") /\ Plan[24] = Step("close", "batchCh")
  /\ Plan[25] = Step("wait", "storage")
<1>. DEFINE Ops == {"start", "signal", "cancel", "sockets", "wait", "close"}
            Whos == {"main", "storage", "listener", "framer", "fft", "demux", "sink",
                     "udpCh", "framerCh", "fftCh", "measCh", "batchCh"}
            T == {Step(op, who) : op \in Ops, who \in Whos}
<1>1. Startup \in Seq(T) /\ Len(Startup) = 7
  <2>1. Len(Startup) = 7
    BY DEF Startup
  <2>2. Startup \in Seq(T)
    BY DEF Startup
  <2>. QED
    BY <2>1, <2>2
<1>2. Shutdown \in Seq(T) /\ Len(Shutdown) = 18
  <2>1. Len(Shutdown) = 18
    BY DEF Shutdown
  <2>2. Shutdown \in Seq(T)
    BY DEF Shutdown
  <2>. QED
    BY <2>1, <2>2
<1>. HIDE DEF T
<1>3. /\ Len(Plan) = 25
      /\ \A i \in 1..7 : Plan[i] = Startup[i]
      /\ \A i \in 8..25 : Plan[i] = Shutdown[i - 7]
  <2>1. /\ Len(Plan) = Len(Startup) + Len(Shutdown)
        /\ \A i \in 1..Len(Startup) + Len(Shutdown) :
             Plan[i] = IF i <= Len(Startup) THEN Startup[i] ELSE Shutdown[i - Len(Startup)]
    BY <1>1, <1>2, ConcatProperties, Zenon DEF Plan
  <2>. QED
    BY <1>1, <1>2, <2>1
<1>4. \A i \in 1..18 : Plan[i + 7] = Shutdown[i]
  BY <1>3
<1>5. /\ Plan[1] = Startup[1] /\ Plan[2] = Startup[2] /\ Plan[3] = Startup[3]
      /\ Plan[4] = Startup[4] /\ Plan[5] = Startup[5] /\ Plan[6] = Startup[6]
      /\ Plan[7] = Startup[7]
  BY <1>3
<1>6. /\ Plan[8] = Shutdown[1] /\ Plan[9] = Shutdown[2] /\ Plan[10] = Shutdown[3]
      /\ Plan[11] = Shutdown[4] /\ Plan[12] = Shutdown[5] /\ Plan[13] = Shutdown[6]
      /\ Plan[14] = Shutdown[7] /\ Plan[15] = Shutdown[8] /\ Plan[16] = Shutdown[9]
  BY <1>4
<1>7. /\ Plan[17] = Shutdown[10] /\ Plan[18] = Shutdown[11] /\ Plan[19] = Shutdown[12]
      /\ Plan[20] = Shutdown[13] /\ Plan[21] = Shutdown[14] /\ Plan[22] = Shutdown[15]
      /\ Plan[23] = Shutdown[16] /\ Plan[24] = Shutdown[17] /\ Plan[25] = Shutdown[18]
  BY <1>4
<1>. QED
  BY <1>3, <1>5, <1>6, <1>7 DEF Startup, Shutdown

(* Nothing is waited for before it is started, and a channel is closed     *)
(* only after the wait for those who send on it.                           *)
IsPast(op, who) == \E i \in 1..Len(Plan) : i < at /\ Plan[i] = Step(op, who)

Waited == {"listener", "framer", "fft", "demux", "sink"}
SendersOf(ch) ==
  CASE ch = "udpCh" -> {"listener"}
    [] ch = "framerCh" -> {"framer"}
    [] ch = "fftCh" -> {"fft"}
    [] ch = "measCh" -> {"demux"}
    [] ch = "batchCh" -> {"demux", "sink"}

LEMMA StepsDiffer ==
  ASSUME NEW o, NEW p, NEW c, NEW d, Step(o, c) = Step(p, d)
  PROVE  o = p /\ c = d
<1>1. Step(o, c).op = o /\ Step(o, c).who = c /\ Step(p, d).op = p /\ Step(p, d).who = d
  BY DEF Step
<1>. QED
  BY <1>1, Zenon

LEMMA PlanOrder ==
  ASSUME at \in Nat \ {0}
  PROVE  /\ \A ch \in {"udpCh", "framerCh", "fftCh", "measCh", "batchCh"} :
              IsPast("close", ch) => \A c \in SendersOf(ch) : IsPast("wait", c)
         /\ IsAt("start", "listener") => ~IsPast("wait", "listener")
<1>1. ASSUME NEW i \in 1..25
      PROVE  /\ Plan[i] = Step("close", "udpCh") => i = 11
             /\ Plan[i] = Step("close", "framerCh") => i = 14
             /\ Plan[i] = Step("close", "fftCh") => i = 17
             /\ Plan[i] = Step("close", "measCh") => i = 20
             /\ Plan[i] = Step("close", "batchCh") => i = 24
             /\ Plan[i] = Step("start", "listener") => i = 2
             /\ Plan[i] = Step("wait", "listener") => i = 10
  <2>1. CASE i \in 1..7
    BY <2>1, PlanSteps, StepsDiffer
  <2>2. CASE i \in 8..13
    BY <2>2, PlanSteps, StepsDiffer
  <2>3. CASE i \in 14..19
    BY <2>3, PlanSteps, StepsDiffer
  <2>4. CASE i \in 20..25
    BY <2>4, PlanSteps, StepsDiffer
  <2>. QED
    BY <2>1, <2>2, <2>3, <2>4
<1>2. IsPast("close", "udpCh") => IsPast("wait", "listener")
  BY <1>1, PlanSteps DEF IsPast
<1>3. IsPast("close", "framerCh") => IsPast("wait", "framer")
  BY <1>1, PlanSteps DEF IsPast
<1>4. IsPast("close", "fftCh") => IsPast("wait", "fft")
  BY <1>1, PlanSteps DEF IsPast
<1>5. IsPast("close", "measCh") => IsPast("wait", "demux")
  BY <1>1, PlanSteps DEF IsPast
<1>6. IsPast("close", "batchCh") => IsPast("wait", "demux") /\ IsPast("wait", "sink")
  BY <1>1, PlanSteps DEF IsPast
<1>7. IsAt("start", "listener") => ~IsPast("wait", "listener")
  <2>. SUFFICES ASSUME IsAt("start", "listener"), IsPast("wait", "listener")
                PROVE  FALSE
    OBVIOUS
  <2>1. at \in 1..25
    BY PlanSteps DEF IsAt
  <2>2. PICK i \in 1..25 : i < at /\ Plan[i] = Step("wait", "listener")
    BY PlanSteps DEF IsPast
  <2>3. i = 10 /\ at = 2
    BY <1>1, <2>1, <2>2 DEF IsAt
  <2>. QED
    BY <2>2, <2>3
<1>. QED
  BY <1>2, <1>3, <1>4, <1>5, <1>6, <1>7 DEF SendersOf

(* What has been waited for has ended and stays ended, and a channel is    *)
(* closed only where main is past the step that closes it.  The sockets of *)
(* the listener are not a channel anybody sends on.                        *)
Progress ==
  /\ at \in Nat \ {0}
  /\ \A c \in Waited : IsPast("wait", c) => Exited(c)
  /\ \A ch \in closed : ch = "conns" \/ IsPast("close", ch)

(* Main stays where it is, or does the step of the plan it is at.          *)
MainStays == at' = at /\ closed' \subseteq closed \cup {"conns"}

MainAdvances ==
  /\ at' = at + 1 /\ at <= Len(Plan)
  /\ \A c \in Waited : Plan[at] = Step("wait", c) => Exited(c)
  /\ \A ch \in closed' : ch \in closed \/ Plan[at] = Step("close", ch)
  /\ Quiet

LEMMA MainCases ==
  ASSUME [Next]_vars
  PROVE  MainStays \/ MainAdvances
<1>1. CASE StartStorage \/ StartComponent \/ Signal \/ CancelContext \/ CloseSockets
  <2>1. at' = at + 1 /\ at <= Len(Plan) /\ closed' = closed /\ Quiet
    BY <1>1 DEF StartStorage, StartComponent, Signal, CancelContext, CloseSockets, IsAt,
       Advance, flags, Quiet
  <2>2. ASSUME NEW c, Plan[at] = Step("wait", c) PROVE FALSE
    <3>1. \E o \in {"start", "signal", "cancel", "sockets"} : \E d : Plan[at] = Step(o, d)
      BY <1>1 DEF StartStorage, StartComponent, Signal, CancelContext, CloseSockets, IsAt
    <3>. QED
      BY <2>2, <3>1, StepsDiffer
  <2>. QED
    BY <2>1, <2>2 DEF MainAdvances
<1>2. CASE Wait
  <2>1. PICK c \in Waited \cup {"storage"} :
          IsAt("wait", c) /\ (Exited(c) \/ Skipped(c)) /\ Advance
          /\ UNCHANGED <<components, flags>>
    BY <1>2 DEF Wait, Waited
  <2>2. at' = at + 1 /\ at <= Len(Plan) /\ closed' = closed /\ Quiet
    BY <2>1 DEF IsAt, Advance, flags, Quiet
  <2>3. ASSUME NEW d \in Waited, Plan[at] = Step("wait", d) PROVE Exited(d)
    <3>1. d = c
      BY <2>1, <2>3, StepsDiffer DEF IsAt
    <3>2. ~Skipped(d)
      BY DEF Skipped, Waited
    <3>. QED
      BY <2>1, <3>1, <3>2
  <2>. QED
    BY <2>2, <2>3 DEF MainAdvances
<1>3. CASE CloseChannel
  <2>1. PICK ch : /\ IsAt("close", ch) /\ Advance /\ Quiet
                  /\ closed' = IF Skipped(ch) THEN closed ELSE closed \cup {ch}
    BY <1>3 DEF CloseChannel, Quiet
  <2>2. at' = at + 1 /\ at <= Len(Plan) /\ Plan[at] = Step("close", ch)
    BY <2>1 DEF IsAt, Advance
  <2>3. \A d : Plan[at] # Step("wait", d)
    BY <2>2, StepsDiffer
  <2>. QED
    BY <2>1, <2>2, <2>3 DEF MainAdvances
<1>4. CASE ListenerBind \/ ListenerUnresolved \/ ListenerBindFails \/ RollbackSockets
           \/ RollbackEnds \/ Return \/ StartFails \/ Watchdog \/ UNCHANGED vars
  BY <1>4 DEF ListenerBind, ListenerUnresolved, ListenerBindFails, RollbackSockets,
     RollbackEnds, Return, StartFails, Watchdog, vars, mainVars, flags, MainStays
<1>5. ASSUME NEW w, ListenerStep(w) \/ FramerStep(w) \/ FftStep(w) \/ DemuxStep(w)
                    \/ DemuxStore(w)
      PROVE  MainStays
  BY <1>5 DEF ListenerStep, FramerStep, FftStep, DemuxStep, DemuxStore, mainVars, flags,
     MainStays
<1>6. CASE MonitorStep \/ SinkStep \/ SinkStore \/ StorageStep
  BY <1>6 DEF MonitorStep, SinkStep, SinkStore, StorageStep, mainVars, flags, MainStays
<1>. QED
  BY <1>1, <1>2, <1>3, <1>4, <1>5, <1>6 DEF Next, MainStep

(* A goroutine that has ended takes no step, and a worker of the listener  *)
(* is let into its loop only while main is in the listener's Start.        *)
LEMMA EndedStaysEnded ==
  ASSUME [Next]_vars, NEW c \in Waited, Exited(c),
         c = "listener" => ~IsAt("start", "listener")
  PROVE  Exited(c)'
<1>1. CASE c = "listener"
  <2>1. L!ListenerExited
    BY <1>1 DEF Exited
  <2>2. ~ListenerBind
    BY <1>1 DEF ListenerBind, StartingListener
  <2>3. ASSUME NEW w \in ListenerWorkers PROVE ~ListenerStep(w)
    BY <2>1 DEF L!ListenerExited, ListenerStep, L!ListenerWork, L!Poll, L!ReadDatagram,
       L!ReadEmpty, L!ReadFails, L!ListenerSend, L!ListenerAbandon, L!ListenerSkip,
       L!ListenerGo
  <2>4. UNCHANGED lpc
    BY <2>2, <2>3, StepCases DEF FramerStep, FftStep, DemuxStep, DemuxStore, MonitorStep,
       SinkStep, SinkStore, StorageStep, Quiet, components, listeners
  <2>. QED
    BY <1>1, <2>1, <2>4 DEF Exited, L!ListenerExited
<1>2. CASE c = "framer"
  <2>1. F!FramerExited
    BY <1>2 DEF Exited
  <2>2. ASSUME NEW w \in FramerWorkers PROVE ~FramerStep(w)
    BY <2>1 DEF F!FramerExited, FramerStep, F!FramerWork, F!FramerReceive, F!FramerStop,
       F!ParseFrame, F!RejectFrame, F!FramerSend, F!FramerAbandon, F!FramerSkip, F!FramerGo
  <2>3. UNCHANGED fpc
    BY <2>2, StepCases DEF ListenerStep, ListenerBind, FftStep, DemuxStep, DemuxStore,
       MonitorStep, SinkStep, SinkStore, StorageStep, Quiet, components, framers
  <2>. QED
    BY <1>2, <2>1, <2>3 DEF Exited, F!FramerExited
<1>3. CASE c = "fft"
  <2>1. P!ProcessorExited
    BY <1>3 DEF Exited
  <2>2. ASSUME NEW w \in FftWorkers PROVE ~FftStep(w)
    BY <2>1 DEF P!ProcessorExited, FftStep, P!ProcessorWork, P!ProcessorReceive,
       P!ProcessorStop, P!TransformFrame, P!ProcessorSend, P!ProcessorAbandon,
       P!ProcessorSkip, P!ProcessorGo
  <2>3. UNCHANGED ppc
    BY <2>2, StepCases DEF ListenerStep, ListenerBind, FramerStep, DemuxStep, DemuxStore,
       MonitorStep, SinkStep, SinkStore, StorageStep, Quiet, components, ffts
  <2>. QED
    BY <1>3, <2>1, <2>3 DEF Exited, P!ProcessorExited
<1>4. CASE c = "demux"
  <2>1. D!DemuxExited
    BY <1>4 DEF Exited
  <2>2. ASSUME NEW w \in DemuxWorkers PROVE ~DemuxStep(w) /\ ~DemuxStore(w)
    <3>1. dpc[w] = "exit"
      BY <2>1 DEF D!DemuxExited
    <3>2. ~DemuxStore(w)
      BY <3>1 DEF DemuxStore
    <3>3. ~DemuxStep(w)
      BY <3>1 DEF DemuxStep, D!DemuxWork, D!DemuxReceive, D!DemuxStop, D!PassGate,
         D!SleepAtGate, D!Increment, D!ProcessFrame, D!Decrement, D!CountFrame,
         D!CountMeasurement, D!DemuxSend, D!DemuxAbandon, D!DemuxSkip, D!Go
    <3>. QED
      BY <3>2, <3>3
  <2>3. ~MonitorStep
    BY <2>1 DEF MonitorStep, D!MonitorStop, D!DemuxExited
  <2>4. UNCHANGED <<dpc, mpc>>
    BY <2>2, <2>3, StepCases DEF ListenerStep, ListenerBind, FramerStep, FftStep,
       SinkStep, SinkStore, StorageStep, Quiet, components, demuxes
  <2>. QED
    BY <1>4, <2>1, <2>4 DEF Exited, D!DemuxExited
<1>5. CASE c = "sink"
  <2>1. kpc = "exit"
    BY <1>5 DEF Exited, K!SinkExited
  <2>2. ~SinkStep /\ ~SinkStore
    BY <2>1 DEF SinkStep, SinkStore, K!SinkReceive, K!SinkStop
  <2>3. UNCHANGED kpc
    BY <2>2, StepCases DEF ListenerStep, ListenerBind, FramerStep, FftStep, DemuxStep,
       DemuxStore, MonitorStep, StorageStep, Quiet, components, sinks
  <2>. QED
    BY <1>5, <2>1, <2>3 DEF Exited, K!SinkExited
<1>. QED
  BY <1>1, <1>2, <1>3, <1>4, <1>5 DEF Waited

LEMMA ProgressStep ==
  ASSUME Progress, [Next]_vars
  PROVE  Progress'
<1>1. at \in Nat \ {0} /\ at' \in Nat \ {0} /\ at' \in {at, at + 1}
  BY MainCases DEF Progress, MainStays, MainAdvances
<1>2. ASSUME NEW o, NEW c, IsPast(o, c) PROVE IsPast(o, c)'
  BY <1>1, <1>2, PlanSteps DEF IsPast
<1>3. ASSUME NEW o, NEW c, IsPast(o, c)', ~IsPast(o, c)
      PROVE  at' = at + 1 /\ Plan[at] = Step(o, c)
  BY <1>1, <1>3, PlanSteps DEF IsPast
<1>4. ASSUME NEW c \in Waited, IsPast("wait", c)' PROVE Exited(c)'
  <2>1. CASE IsPast("wait", c)
    <3>1. Exited(c)
      BY <2>1 DEF Progress
    <3>2. c = "listener" => ~IsAt("start", "listener")
      BY <1>1, <2>1, PlanOrder
    <3>. QED
      BY <3>1, <3>2, EndedStaysEnded
  <2>2. CASE ~IsPast("wait", c)
    <3>1. at' = at + 1 /\ Plan[at] = Step("wait", c)
      BY <1>3, <1>4, <2>2
    <3>2. MainAdvances
      BY <1>1, <3>1, MainCases DEF MainStays
    <3>3. Exited(c) /\ Quiet
      BY <3>1, <3>2 DEF MainAdvances
    <3>4. ~IsAt("start", "listener")
      BY <3>1, StepsDiffer DEF IsAt
    <3>. QED
      BY <3>3, <3>4, EndedStaysEnded
  <2>. QED
    BY <2>1, <2>2
<1>5. ASSUME NEW ch \in closed', ch # "conns" PROVE IsPast("close", ch)'
  <2>1. CASE ch \in closed
    BY <1>2, <1>5, <2>1 DEF Progress
  <2>2. CASE ch \notin closed
    <3>1. at' = at + 1 /\ at <= Len(Plan) /\ Plan[at] = Step("close", ch)
      BY <1>5, <2>2, MainCases DEF MainStays, MainAdvances
    <3>. QED
      BY <1>1, <3>1, PlanSteps DEF IsPast
  <2>. QED
    BY <2>1, <2>2
<1>. QED
  BY <1>1, <1>4, <1>5 DEF Progress

(* Nobody can send on a closed channel, which would panic: main closes a   *)
(* channel after it has waited for every goroutine that sends on it, no    *)
(* goroutine comes back, and none is started again.  The storage's own     *)
(* channel has two kinds of sender, the demux workers and the sink.        *)
THEOREM GatewayNoSendOnClosed == Spec => []NoSendOnClosed
<1>1. Init => Progress
  <2>1. Init => at = 1 /\ closed = {}
    BY DEF Init
  <2>. QED
    BY <2>1, PlanSteps DEF Progress, IsPast
<1>2. Progress /\ [Next]_vars => Progress'
  BY ProgressStep
<1>3. Progress => NoSendOnClosed
  <2>. SUFFICES ASSUME Progress PROVE NoSendOnClosed
    OBVIOUS
  <2>1. ASSUME NEW ch \in {"udpCh", "framerCh", "fftCh", "measCh", "batchCh"}, ch \in closed,
               NEW c \in SendersOf(ch)
        PROVE  c \in Waited => Exited(c)
    BY <2>1, PlanOrder DEF Progress
  <2>2. /\ "udpCh" \in closed => L!ListenerExited
        /\ "framerCh" \in closed => F!FramerExited
        /\ "fftCh" \in closed => P!ProcessorExited
    BY <2>1 DEF SendersOf, Waited, Exited
  <2>3. /\ "measCh" \in closed => D!DemuxExited
        /\ "batchCh" \in closed => D!DemuxExited /\ K!SinkExited
    BY <2>1 DEF SendersOf, Waited, Exited
  <2>. QED
    BY <2>2, <2>3 DEF NoSendOnClosed
<1>. QED
  BY <1>1, <1>2, <1>3, PTL DEF Spec

-----------------------------------------------------------------------------
(* The refinement of FrameFlow.  The place of a frame is its stage; a frame *)
(* that is nowhere is unborn or gone.                                      *)
LEMMA SomewhereCounts ==
  ASSUME NEW f, IsFiniteSet(DOMAIN f), NEW A
  PROVE  Among(f, A) # 0 <=> \E i \in DOMAIN f : f[i] \in A
<1>1. IsFiniteSet({i \in DOMAIN f : f[i] \in A})
  BY FS_Subset
<1>. QED
  BY <1>1, FS_EmptySet DEF Among

LEMMA PlacesAreStages ==
  ASSUME Types, NEW n \in FrameNumber
  PROVE  /\ (\E w \in FramerWorkers : fframe[w] = n) <=> Has(1, n) # 0
         /\ (\E i \in DOMAIN framerCh : framerCh[i] = n) <=> Has(2, n) # 0
         /\ (\E w \in FftWorkers : pframe[w] = n) <=> Has(3, n) # 0
         /\ (\E i \in DOMAIN fftCh : fftCh[i] = n) <=> Has(4, n) # 0
         /\ (\E w \in DemuxWorkers : dheld[w] = n) <=> Has(5, n) # 0
         /\ (\E i \in DOMAIN measCh : measCh[i].frame = n) <=> Has(6, n) # 0
         /\ kheld.frame = n <=> Has(7, n) # 0
<1>1. ASSUME NEW f, IsFiniteSet(DOMAIN f)
      PROVE  Among(f, {n}) # 0 <=> \E i \in DOMAIN f : f[i] = n
  BY <1>1, SomewhereCounts
<1>2. /\ DOMAIN fframe = FramerWorkers /\ DOMAIN pframe = FftWorkers
      /\ DOMAIN dheld = DemuxWorkers
      /\ IsFiniteSet(FramerWorkers) /\ IsFiniteSet(FftWorkers) /\ IsFiniteSet(DemuxWorkers)
  BY GatewayAssumption DEF Types, FramerTypes, ProcessorTypes, DemuxTypes
<1>3. /\ IsFiniteSet(DOMAIN framerCh) /\ IsFiniteSet(DOMAIN fftCh)
      /\ IsFiniteSet(DOMAIN measCh)
  BY SeqFinite DEF Types, ChannelTypes
<1>4. (\E w \in FramerWorkers : fframe[w] = n) <=> Has(1, n) # 0
  BY <1>1, <1>2 DEF Has
<1>5. (\E i \in DOMAIN framerCh : framerCh[i] = n) <=> Has(2, n) # 0
  BY <1>1, <1>3 DEF Has
<1>6. (\E w \in FftWorkers : pframe[w] = n) <=> Has(3, n) # 0
  BY <1>1, <1>2 DEF Has
<1>7. (\E i \in DOMAIN fftCh : fftCh[i] = n) <=> Has(4, n) # 0
  BY <1>1, <1>3 DEF Has
<1>8. (\E w \in DemuxWorkers : dheld[w] = n) <=> Has(5, n) # 0
  BY <1>1, <1>2 DEF Has
<1>9. (\E i \in DOMAIN measCh : measCh[i].frame = n) <=> Has(6, n) # 0
  <2>1. \A i \in DOMAIN measCh : measCh[i].frame = n <=> measCh[i] \in OfFrame(n)
    BY DEF OfFrame, Types, ChannelTypes
  <2>2. Among(measCh, OfFrame(n)) # 0 <=> \E i \in DOMAIN measCh : measCh[i] \in OfFrame(n)
    BY <1>3, SomewhereCounts
  <2>3. Has(6, n) = Among(measCh, OfFrame(n))
    BY DEF Has
  <2>. QED
    BY <2>1, <2>2, <2>3
<1>10. kheld.frame = n <=> Has(7, n) # 0
  BY DEF Has
<1>. QED
  BY <1>4, <1>5, <1>6, <1>7, <1>8, <1>9, <1>10

StageIn(k, n) == IF k # 0 THEN k ELSE IF n <= frameNum THEN 8 ELSE 0
StagesAgree ==
  Types => \A n \in FrameNumber, k \in 0..7 : IsIn(n, k) => StageOf(n) = StageIn(k, n)

LEMMA StageIsPlace == StagesAgree
<1>. SUFFICES ASSUME Types, NEW n \in FrameNumber, NEW k \in 0..7, IsIn(n, k)
              PROVE  StageOf(n) = StageIn(k, n)
  BY DEF StagesAgree
<1>1. \A i \in Places : Has(i, n) # 0 <=> i = k
  BY DEF IsIn
<1>2. /\ (\E w \in FramerWorkers : fframe[w] = n) <=> k = 1
      /\ (\E i \in DOMAIN framerCh : framerCh[i] = n) <=> k = 2
      /\ (\E w \in FftWorkers : pframe[w] = n) <=> k = 3
      /\ (\E i \in DOMAIN fftCh : fftCh[i] = n) <=> k = 4
      /\ (\E w \in DemuxWorkers : dheld[w] = n) <=> k = 5
      /\ (\E i \in DOMAIN measCh : measCh[i].frame = n) <=> k = 6
      /\ kheld.frame = n <=> k = 7
  BY <1>1, PlacesAreStages DEF Places
<1>. QED
  BY <1>2 DEF StageOf, StageIn

LEMMA StageIsPlaceNext == StagesAgree'
<1>. QED
  BY StageIsPlace, PTL

(* The stage of the abstract specification, and a step that is about one   *)
(* frame.                                                                  *)
Stage == [n \in 1..MaxDatagrams |-> StageOf(n)]

LEMMA OneFrameMoves ==
  ASSUME NEW x \in 1..MaxDatagrams,
         \A n \in 1..MaxDatagrams : n # x => StageOf(n)' = StageOf(n)
  PROVE  Stage' = [Stage EXCEPT ![x] = StageOf(x)']
BY DEF Stage

LEMMA RestingStage ==
  ASSUME Types, Types', NEW n \in FrameNumber, NEW k \in 0..7, IsIn(n, k),
         frameNum' = frameNum \/ (frameNum' = frameNum + 1 /\ n # frameNum + 1),
         \A i \in Places : Has(i, n)' = Has(i, n)
  PROVE  StageOf(n)' = StageOf(n)
<1>1. frameNum \in Nat /\ frameNum' \in Nat /\ frameNum' >= frameNum
  BY DEF Types, FramerTypes
<1>2. IsIn(n, k)'
  BY <1>1, UndisturbedStays
<1>3. StageOf(n) = StageIn(k, n) /\ StageOf(n)' = StageIn(k, n)'
  BY <1>2, StageIsPlace, StageIsPlaceNext DEF StagesAgree
<1>4. n <= frameNum <=> n <= frameNum'
  BY <1>1 DEF FrameNumber
<1>. QED
  BY <1>3, <1>4 DEF StageIn

LEMMA FlowStep ==
  ASSUME Types, Types', Located, FrameMoves
  PROVE  Flow!FlowNext \/ Stage' = Stage
<1>1. \A n \in 1..MaxDatagrams : n \in FrameNumber /\ \E k \in 0..7 : IsIn(n, k)
  BY GatewayAssumption DEF Located, FrameNumber
<1>2. frameNum \in Nat
  BY DEF Types, FramerTypes
<1>3. ASSUME NEW n \in 1..MaxDatagrams, \A i \in Places : Has(i, n)' = Has(i, n),
             frameNum' = frameNum \/ (frameNum' = frameNum + 1 /\ n # frameNum + 1)
      PROVE  StageOf(n)' = StageOf(n)
  BY <1>1, <1>3, RestingStage
<1>3a. ASSUME frameNum' = frameNum, NEW n \in 1..MaxDatagrams,
             \A i \in Places : Has(i, n)' = Has(i, n)
      PROVE  StageOf(n)' = StageOf(n)
  <2>1. PICK k \in 0..7 : IsIn(n, k)
    BY <1>1
  <2>2. n \in FrameNumber
    BY <1>1
  <2>. QED
    BY <1>3a, <2>1, <2>2, RestingStage
<1>4. CASE AllRest
  <2>1. ASSUME NEW n \in 1..MaxDatagrams PROVE StageOf(n)' = StageOf(n)
    <3>1. frameNum' = frameNum /\ \A i \in Places : Has(i, n)' = Has(i, n)
      BY <1>1, <1>4 DEF AllRest, RestBut, Rests
    <3>. QED
      BY <1>3a, <3>1
  <2>. QED
    BY <2>1 DEF Stage
<1>5. ASSUME NEW x \in FrameNumber, NEW k \in 0..7, NEW l \in 0..7,
             IsIn(x, k), IsIn(x, l)',
             \A n \in 1..MaxDatagrams : n # x => StageOf(n)' = StageOf(n)
      PROVE  /\ StageOf(x) = StageIn(k, x) /\ StageOf(x)' = StageIn(l, x)'
             /\ x \in 1..MaxDatagrams => Stage' = [Stage EXCEPT ![x] = StageIn(l, x)']
             /\ x \notin 1..MaxDatagrams => Stage' = Stage
  <2>1. StageOf(x) = StageIn(k, x) /\ StageOf(x)' = StageIn(l, x)'
    BY <1>5, StageIsPlace, StageIsPlaceNext DEF StagesAgree
  <2>2. x \in 1..MaxDatagrams => Stage' = [Stage EXCEPT ![x] = StageOf(x)']
    BY <1>5, OneFrameMoves
  <2>3. x \notin 1..MaxDatagrams => Stage' = Stage
    BY <1>5 DEF Stage
  <2>. QED
    BY <2>1, <2>2, <2>3
<1>6. ASSUME NEW x \in FrameNumber, IsBorn(x) PROVE Flow!FlowNext \/ Stage' = Stage
  <2>1. x = frameNum + 1 /\ frameNum' = frameNum + 1
    BY <1>6 DEF IsBorn
  <2>2. \A n \in 1..MaxDatagrams : n # x => StageOf(n)' = StageOf(n)
    BY <1>1, <1>3, <1>6, <2>1, OthersRest
  <2>3. IsIn(x, 0) /\ IsIn(x, 1)'
    <3>1. PICK k \in 0..7 : IsIn(x, k)
      BY DEF Located
    <3>2. k = 0
      BY <1>2, <2>1, <3>1 DEF IsIn
    <3>. QED
      BY <1>2, <1>6, <3>1, <3>2, MovedIsIn
  <2>4. CASE x \in 1..MaxDatagrams
    <3>1. StageOf(x) = 0 /\ Stage' = [Stage EXCEPT ![x] = 1]
      BY <1>2, <1>5, <2>1, <2>2, <2>3, <2>4 DEF StageIn
    <3>2. ASSUME NEW n \in 1..MaxDatagrams, n < x PROVE StageOf(n) # 0
      <4>1. PICK k \in 0..7 : IsIn(n, k)
        BY <1>1
      <4>2. StageOf(n) = StageIn(k, n) /\ n <= frameNum
        BY <1>1, <1>2, <2>1, <3>2, <4>1, StageIsPlace DEF StagesAgree
      <4>. QED
        BY <4>2 DEF StageIn
    <3>3. Flow!Born(x)
      BY <2>4, <3>1, <3>2 DEF Flow!Born, Flow!Unborn, Flow!InFramer, Stage
    <3>. QED
      BY <2>4, <3>3 DEF Flow!FlowNext
  <2>5. CASE x \notin 1..MaxDatagrams
    BY <2>2, <2>5 DEF Stage
  <2>. QED
    BY <2>4, <2>5
<1>7. ASSUME NEW x \in FrameNumber, NEW k \in 1..6, Advances(x, k)
      PROVE  Flow!FlowNext \/ Stage' = Stage
  <2>1. frameNum' = frameNum /\ Has(k, x) >= 1 /\ k \in Places
    BY <1>7 DEF Advances, Gives, Places
  <2>2. ASSUME NEW n \in 1..MaxDatagrams, n # x PROVE StageOf(n)' = StageOf(n)
    <3>1. n \in FrameNumber
      BY <1>1
    <3>2. \A i \in Places : Has(i, n)' = Has(i, n)
      BY <1>7, <2>1, <2>2, <3>1, OthersRest
    <3>. QED
      BY <1>3a, <2>1, <3>2
  <2>3. IsIn(x, k) /\ IsIn(x, k + 1)'
    BY <1>2, <1>7, <2>1, GivesFrom, MovedIsIn DEF Located
  <2>4. CASE x \in 1..MaxDatagrams
    <3>1. StageOf(x) = k /\ Stage' = [Stage EXCEPT ![x] = k + 1]
      BY <1>5, <2>2, <2>3, <2>4 DEF StageIn
    <3>2. Flow!Forward(x)
      BY <2>4, <3>1 DEF Flow!Forward, Flow!InFramer, Flow!InMeasCh, Stage
    <3>. QED
      BY <2>4, <3>2 DEF Flow!FlowNext
  <2>5. CASE x \notin 1..MaxDatagrams
    BY <2>2, <2>5 DEF Stage
  <2>. QED
    BY <2>4, <2>5
<1>8. ASSUME NEW x \in FrameNumber, NEW k \in {1, 3, 5, 6, 7}, Departs(x, k)
      PROVE  Flow!FlowNext \/ Stage' = Stage
  <2>1. frameNum' = frameNum /\ Has(k, x) >= 1 /\ k \in Places
    BY <1>8 DEF Departs, Gives, Places
  <2>2. ASSUME NEW n \in 1..MaxDatagrams, n # x PROVE StageOf(n)' = StageOf(n)
    <3>1. n \in FrameNumber
      BY <1>1
    <3>2. \A i \in Places : Has(i, n)' = Has(i, n)
      BY <1>8, <2>1, <2>2, <3>1, OthersRest
    <3>. QED
      BY <1>3a, <2>1, <3>2
  <2>3. IsIn(x, k) /\ IsIn(x, 0)'
    BY <1>2, <1>8, <2>1, GivesFrom, MovedIsIn DEF Located
  <2>4. CASE x \in 1..MaxDatagrams
    <3>1. x <= frameNum
      BY <2>3 DEF IsIn
    <3>2. StageOf(x) = k /\ Stage' = [Stage EXCEPT ![x] = 8]
      BY <1>5, <2>1, <2>2, <2>3, <2>4, <3>1 DEF StageIn
    <3>3. Flow!Leave(x)
      BY <2>4, <3>2 DEF Flow!Leave, Flow!InFramer, Flow!InFft, Flow!InDemux, Flow!InMeasCh,
         Flow!InSink, Flow!Gone, Stage
    <3>. QED
      BY <2>4, <3>3 DEF Flow!FlowNext
  <2>5. CASE x \notin 1..MaxDatagrams
    BY <2>2, <2>5 DEF Stage
  <2>. QED
    BY <2>4, <2>5
<1>. QED
  BY <1>4, <1>6, <1>7, <1>8 DEF FrameMoves

(* The pipeline implements the flow of frames: a frame is born with the    *)
(* next number, moves one stage at a time, leaves only from a hand or from *)
(* the last channel, and never comes back, whatever is cancelled, closed,  *)
(* full or refused meanwhile.                                              *)
THEOREM GatewayImplementsFrameFlow == Spec => ImplementsFrameFlow
<1>1. Init => Types /\ Located /\ Flow!FlowInit
  <2>. SUFFICES ASSUME Init PROVE Types /\ Located /\ Flow!FlowInit
    OBVIOUS
  <2>1. Types /\ Located
    BY TypesInit, LocatedInit
  <2>2. ASSUME NEW n \in 1..MaxDatagrams PROVE StageOf(n) = 0
    BY DEF Init, F!FramerInit, P!ProcessorInit, D!DemuxInit, K!SinkInit, K!NoMeasurement,
       StageOf
  <2>. QED
    BY <2>1, <2>2 DEF Flow!FlowInit, Flow!Unborn
<1>2. Types /\ Located /\ [Next]_vars
        => Types' /\ Located' /\ (Flow!FlowNext \/ Stage' = Stage)
  BY TypesStep, FramesStep, LocatedStep, FlowStep
<1>3. (Flow!FlowNext \/ Stage' = Stage) => [Flow!FlowNext]_Stage
  OBVIOUS
<1>. QED
  BY <1>1, <1>2, <1>3, PTL DEF Spec, ImplementsFrameFlow, Flow!FlowSpec, Stage

-----------------------------------------------------------------------------
(* Copies of a measurement: in the table, in the queue, and in the batch   *)
(* unless the batch has been copied and is only waiting to be counted as   *)
(* failed.                                                                 *)
ItemsOf(m) == {it \in Queued : it.m = m}

InTable(m) == Among(rows, ItemsOf(m))
InQueue(m) == Among(batchCh, ItemsOf(m))
InBatch(m) == IF spc = "failCopy" THEN 0 ELSE Among(batch, ItemsOf(m))
Copies(m) == InTable(m) + InBatch(m) + InQueue(m)

LEMMA CopiesCounted ==
  ASSUME StoreTypes, NEW m
  PROVE  InTable(m) \in Nat /\ InQueue(m) \in Nat /\ InBatch(m) \in Nat
BY SeqFinite DEF StoreTypes, InTable, InQueue, InBatch

(* The batch writer moves items and makes no copy: what it gives up is     *)
(* gone, what may have been copied when the answer was an error is counted *)
(* in the table and no longer in the batch.                                *)
LEMMA WriterMakesNoCopy ==
  ASSUME StoreTypes, S!BatchWriter, NEW m
  PROVE  Copies(m)' <= Copies(m)
<1>1. /\ batchCh \in Seq(Queued) /\ batch \in Seq(Queued) /\ rows \in Seq(Queued)
      /\ safter \in {"select", "exit"}
  BY DEF StoreTypes
<1>2. Among(<<>>, ItemsOf(m)) = 0
  BY FS_EmptySet DEF Among
<1>3. Among(rows \o batch, ItemsOf(m)) = Among(rows, ItemsOf(m)) + Among(batch, ItemsOf(m))
  BY <1>1, AmongConcat
<1>4. /\ Among(rows, ItemsOf(m)) \in Nat /\ Among(batch, ItemsOf(m)) \in Nat
      /\ Among(batchCh, ItemsOf(m)) \in Nat
  BY <1>1, SeqFinite
<1>5. CASE S!Take
  <2>. DEFINE one == IF Head(batchCh) \in ItemsOf(m) THEN 1 ELSE 0
  <2>1. batchCh # <<>> /\ Head(batchCh) \in Queued
    BY <1>1, <1>5, ChannelShape DEF S!Take
  <2>2. Among(Append(batch, Head(batchCh)), ItemsOf(m)) = Among(batch, ItemsOf(m)) + one
    BY <1>1, <2>1, AmongAppend
  <2>3. Among(Tail(batchCh), ItemsOf(m)) = Among(batchCh, ItemsOf(m)) - one
    BY <1>1, <2>1, AmongTail
  <2>4. one \in {0, 1}
    OBVIOUS
  <2>. HIDE DEF one
  <2>5. /\ rows' = rows /\ batch' = Append(batch, Head(batchCh)) /\ batchCh' = Tail(batchCh)
        /\ spc = "select" /\ spc' \in {"select", "acquire"}
    BY <1>5 DEF S!Take, S!StartFlush
  <2>. QED
    BY <1>4, <2>2, <2>3, <2>4, <2>5 DEF Copies, InTable, InBatch, InQueue
<1>6. CASE S!FlushTick \/ S!WriterStop \/ S!AcquireOk \/ S!AcquireFails
  <2>1. rows' = rows /\ batch' = batch /\ batchCh' = batchCh
    BY <1>6 DEF S!FlushTick, S!WriterStop, S!AcquireOk, S!AcquireFails
  <2>2. spc # "failCopy" /\ spc' # "failCopy"
    BY <1>6 DEF S!FlushTick, S!WriterStop, S!AcquireOk, S!AcquireFails, S!StartFlush
  <2>. QED
    BY <1>4, <2>1, <2>2 DEF Copies, InTable, InBatch, InQueue
<1>7. CASE S!CopyOk
  <2>1. /\ rows' = rows \o batch /\ batch' = <<>> /\ batchCh' = batchCh
        /\ spc = "copy" /\ spc' \in {"select", "exit"}
    BY <1>1, <1>7 DEF S!CopyOk, S!EndFlush
  <2>. QED
    BY <1>2, <1>3, <1>4, <2>1 DEF Copies, InTable, InBatch, InQueue
<1>8. CASE S!CopyFails
  <2>1. batchCh' = batchCh /\ spc = "copy" /\ spc' = "failCopy"
    BY <1>8 DEF S!CopyFails
  <2>2. /\ InQueue(m)' = Among(batchCh, ItemsOf(m)) /\ InQueue(m) = Among(batchCh, ItemsOf(m))
        /\ InBatch(m)' = 0 /\ InBatch(m) = Among(batch, ItemsOf(m))
    BY <2>1 DEF InQueue, InBatch
  <2>3. rows' = rows \/ rows' = rows \o batch
    BY <1>8 DEF S!CopyFails
  <2>4. /\ InTable(m) = Among(rows, ItemsOf(m))
        /\ \/ InTable(m)' = Among(rows, ItemsOf(m))
           \/ InTable(m)' = Among(rows, ItemsOf(m)) + Among(batch, ItemsOf(m))
    BY <1>3, <2>3 DEF InTable
  <2>. QED
    BY <1>4, <2>2, <2>4 DEF Copies
<1>9. CASE S!CountFailure
  <2>1. rows' = rows /\ batch' = <<>> /\ batchCh' = batchCh /\ spc' \in {"select", "exit"}
    BY <1>1, <1>9 DEF S!CountFailure, S!EndFlush
  <2>. QED
    BY <1>2, <1>4, <2>1 DEF Copies, InTable, InBatch, InQueue
<1>. QED
  BY <1>5, <1>6, <1>7, <1>8, <1>9 DEF S!BatchWriter

LEMMA AcceptAddsCopy ==
  ASSUME StoreTypes, NEW c, NEW x \in Measured, S!Accept(c, x), NEW m
  PROVE  /\ m = x => Copies(m)' = Copies(m) + 1
         /\ m # x => Copies(m)' = Copies(m)
<1>. DEFINE it == [m |-> x, serial |-> accepted + 1]
<1>1. it \in Queued /\ (it \in ItemsOf(m) <=> m = x)
  BY DEF StoreTypes, Queued, ItemsOf
<1>2. batchCh \in Seq(Queued) /\ batchCh' = Append(batchCh, it) /\ UNCHANGED <<rows, batch, spc>>
  BY DEF StoreTypes, S!Accept
<1>. HIDE DEF it
<1>3. InQueue(m)' = InQueue(m) + (IF m = x THEN 1 ELSE 0)
  BY <1>1, <1>2, AmongAppend DEF InQueue
<1>4. InTable(m)' = InTable(m) /\ InBatch(m)' = InBatch(m)
  BY <1>2 DEF InTable, InBatch
<1>. QED
  BY <1>3, <1>4, CopiesCounted DEF Copies

(* A frame nobody has handed to the storage yet, and a measurement that    *)
(* the demultiplexer has handed over and that the sink may hand over       *)
(* again.                                                                  *)
Holds(q, x) == \E i \in DOMAIN q : q[i] = x

Fresh(n) ==
  \/ n > frameNum
  \/ \E w \in FramerWorkers : fframe[w] = n
  \/ Holds(framerCh, n)
  \/ \E w \in FftWorkers : pframe[w] = n
  \/ Holds(fftCh, n)
  \/ \E w \in DemuxWorkers : dheld[w] = n /\ dpc[w] # "send"

Passed(m) ==
  \/ \E w \in DemuxWorkers : dpc[w] = "send" /\ D!Held(w) = m
  \/ Holds(measCh, m)
  \/ kheld = m

CopiesFollow ==
  \A m \in Measured :
    /\ Fresh(m.frame) => Copies(m) = 0
    /\ \A v \in BOOLEAN : Passed([frame |-> m.frame, valid |-> v])
                            => Copies(m) <= (IF v = m.valid THEN 1 ELSE 0)
    /\ Copies(m) <= (IF m.valid THEN 2 ELSE 1)

LEMMA HoldsAfter ==
  ASSUME NEW T, NEW q \in Seq(T), NEW y
  PROVE  /\ \A x \in T : Holds(Append(q, x), y) => Holds(q, y) \/ y = x
         /\ q # <<>> => (Holds(Tail(q), y) => Holds(q, y)) /\ Holds(q, Head(q))
<1>1. ASSUME NEW x \in T, Holds(Append(q, x), y) PROVE Holds(q, y) \/ y = x
  <2>1. PICK i \in DOMAIN Append(q, x) : Append(q, x)[i] = y
    BY <1>1 DEF Holds
  <2>2. i \in 1..Len(q) + 1 /\ DOMAIN q = 1..Len(q)
    BY <2>1
  <2>3. CASE i = Len(q) + 1
    BY <2>1, <2>3
  <2>4. CASE i # Len(q) + 1
    <3>1. i \in 1..Len(q) /\ q[i] = y
      BY <2>1, <2>2, <2>4
    <3>. QED
      BY <2>2, <3>1 DEF Holds
  <2>. QED
    BY <2>3, <2>4
<1>2. ASSUME q # <<>>, Holds(Tail(q), y) PROVE Holds(q, y)
  <2>1. PICK i \in DOMAIN Tail(q) : Tail(q)[i] = y
    BY <1>2 DEF Holds
  <2>2. i + 1 \in DOMAIN q /\ q[i + 1] = y
    BY <1>2, <2>1
  <2>. QED
    BY <2>2 DEF Holds
<1>3. ASSUME q # <<>> PROVE Holds(q, Head(q))
  <2>1. 1 \in DOMAIN q /\ Head(q) = q[1]
    BY <1>3
  <2>. QED
    BY <2>1 DEF Holds
<1>. QED
  BY <1>1, <1>2, <1>3

(* No step makes a frame fresh again.                                      *)
LEMMA FreshBefore ==
  ASSUME Types, [Next]_vars, NEW n \in FrameNumber, Fresh(n)'
  PROVE  Fresh(n)
<1>1. /\ framerCh \in Seq(FrameNumber) /\ fftCh \in Seq(FrameNumber)
      /\ fframe \in [FramerWorkers -> Nat] /\ pframe \in [FftWorkers -> Nat]
      /\ dheld \in [DemuxWorkers -> Nat] /\ dpc \in [DemuxWorkers -> D!DemuxPlaces]
      /\ frameNum \in Nat /\ n \in Nat /\ n # 0
  BY DEF Types, ChannelTypes, FramerTypes, ProcessorTypes, DemuxTypes, FrameNumber
<1>2. ASSUME NEW w \in FramerWorkers, FramerStep(w) PROVE Fresh(n)
  <2>1. UNCHANGED <<pframe, fftCh, dheld, dpc>>
    BY <1>2 DEF FramerStep, ffts, demuxes
  <2>2. CASE F!FramerReceive(w) \/ F!FramerStop(w) \/ F!RejectFrame(w)
    BY <2>1, <2>2 DEF Fresh, F!FramerReceive, F!FramerStop, F!RejectFrame
  <2>3. CASE F!ParseFrame(w)
    <3>1. /\ fframe' = [fframe EXCEPT ![w] = frameNum + 1]
          /\ frameNum' = frameNum + 1 /\ framerCh' = framerCh
      BY <2>3 DEF F!ParseFrame
    <3>2. ASSUME NEW v \in FramerWorkers, fframe'[v] = n PROVE fframe[v] = n \/ n > frameNum
      BY <1>1, <3>1, <3>2
    <3>3. n > frameNum' => n > frameNum
      BY <1>1, <3>1
    <3>. QED
      BY <2>1, <3>1, <3>2, <3>3 DEF Fresh
  <2>4. CASE F!FramerSend(w) \/ F!FramerAbandon(w) \/ F!FramerSkip(w)
    <3>1. /\ fframe' = [fframe EXCEPT ![w] = 0] /\ frameNum' = frameNum
          /\ framerCh' = framerCh \/ framerCh' = Append(framerCh, fframe[w])
          /\ fpc[w] = "send"
      BY <2>4 DEF F!FramerSend, F!FramerAbandon, F!FramerSkip, F!FramerLetGo, F!FramerGo
    <3>2. \A v \in FramerWorkers : fframe'[v] = n => fframe[v] = n
      BY <1>1, <3>1
    <3>3. fframe[w] \in FrameNumber
      BY <3>1 DEF Types, FramerTypes, FrameNumber
    <3>4. Holds(framerCh', n) => Holds(framerCh, n) \/ fframe[w] = n
      <4>1. Holds(Append(framerCh, fframe[w]), n) => Holds(framerCh, n) \/ n = fframe[w]
        BY <1>1, <3>3, HoldsAfter
      <4>. QED
        BY <3>1, <4>1
    <3>. QED
      BY <2>1, <3>1, <3>2, <3>4 DEF Fresh
  <2>. QED
    BY <1>2, <2>2, <2>3, <2>4 DEF FramerStep, F!FramerWork
<1>3. ASSUME NEW w \in FftWorkers, FftStep(w) PROVE Fresh(n)
  <2>1. UNCHANGED <<fframe, frameNum, dheld, dpc>>
    BY <1>3 DEF FftStep, framers, demuxes
  <2>2. CASE P!ProcessorReceive(w)
    <3>1. /\ framerCh # <<>> /\ framerCh' = Tail(framerCh) /\ fftCh' = fftCh
          /\ pframe' = [pframe EXCEPT ![w] = Head(framerCh)]
      BY <2>2 DEF P!ProcessorReceive
    <3>2. (Holds(framerCh', n) => Holds(framerCh, n)) /\ Holds(framerCh, Head(framerCh))
      BY <1>1, <3>1, HoldsAfter
    <3>3. \A v \in FftWorkers : pframe'[v] = n => pframe[v] = n \/ n = Head(framerCh)
      BY <1>1, <3>1
    <3>. QED
      BY <2>1, <3>1, <3>2, <3>3 DEF Fresh
  <2>3. CASE P!ProcessorStop(w) \/ P!TransformFrame(w)
    BY <2>1, <2>3 DEF Fresh, P!ProcessorStop, P!TransformFrame
  <2>4. CASE P!ProcessorSend(w) \/ P!ProcessorAbandon(w) \/ P!ProcessorSkip(w)
    <3>1. /\ pframe' = [pframe EXCEPT ![w] = 0] /\ framerCh' = framerCh
          /\ fftCh' = fftCh \/ fftCh' = Append(fftCh, pframe[w])
          /\ ppc[w] = "send"
      BY <2>4 DEF P!ProcessorSend, P!ProcessorAbandon, P!ProcessorSkip, P!ProcessorLetGo,
         P!ProcessorGo
    <3>2. \A v \in FftWorkers : pframe'[v] = n => pframe[v] = n
      BY <1>1, <3>1
    <3>3. pframe[w] \in FrameNumber
      BY <3>1 DEF Types, ProcessorTypes, FrameNumber
    <3>4. Holds(fftCh', n) => Holds(fftCh, n) \/ pframe[w] = n
      <4>1. Holds(Append(fftCh, pframe[w]), n) => Holds(fftCh, n) \/ n = pframe[w]
        BY <1>1, <3>3, HoldsAfter
      <4>. QED
        BY <3>1, <4>1
    <3>. QED
      BY <2>1, <3>1, <3>2, <3>4 DEF Fresh
  <2>. QED
    BY <1>3, <2>2, <2>3, <2>4 DEF FftStep, P!ProcessorWork
<1>4. ASSUME NEW w \in DemuxWorkers, DemuxStep(w) \/ DemuxStore(w) PROVE Fresh(n)
  <2>1. UNCHANGED <<fframe, frameNum, framerCh, pframe>>
    BY <1>4 DEF DemuxStep, DemuxStore, framers, ffts
  <2>2. CASE D!DemuxReceive(w)
    <3>1. /\ fftCh # <<>> /\ fftCh' = Tail(fftCh)
          /\ dheld' = [dheld EXCEPT ![w] = Head(fftCh)]
          /\ dpc' = [dpc EXCEPT ![w] = "gate"]
      BY <2>2 DEF D!DemuxReceive, D!Go
    <3>2. (Holds(fftCh', n) => Holds(fftCh, n)) /\ Holds(fftCh, Head(fftCh))
      BY <1>1, <3>1, HoldsAfter
    <3>3. ASSUME NEW v \in DemuxWorkers, dheld'[v] = n, dpc'[v] # "send"
          PROVE  (dheld[v] = n /\ dpc[v] # "send") \/ n = Head(fftCh)
      BY <1>1, <3>1, <3>3
    <3>. QED
      BY <2>1, <3>2, <3>3 DEF Fresh
  <2>3. CASE \/ D!DemuxStop(w) \/ D!PassGate(w) \/ D!SleepAtGate(w) \/ D!Increment(w)
             \/ D!ProcessFrame(w) \/ D!CountFrame(w) \/ D!CountMeasurement(w)
             \/ D!DemuxStored(w)
    <3>1. /\ fftCh' = fftCh /\ dheld' = dheld /\ dpc[w] # "send"
          /\ \E to \in D!DemuxPlaces : dpc' = [dpc EXCEPT ![w] = to]
      BY <2>3 DEF D!DemuxStop, D!PassGate, D!SleepAtGate, D!Increment, D!ProcessFrame,
         D!CountFrame, D!CountMeasurement, D!DemuxStored, D!Go, D!DemuxPlaces
    <3>2. \A v \in DemuxWorkers : dpc'[v] # "send" => dpc[v] # "send"
      BY <1>1, <3>1
    <3>. QED
      BY <2>1, <3>1, <3>2 DEF Fresh
  <2>4. CASE D!Decrement(w)
    <3>1. /\ fftCh' = fftCh /\ dheld' = dheld
          /\ \A v \in DemuxWorkers : dpc'[v] # "send" => dpc[v] # "send"
      BY <2>4 DEF D!Decrement
    <3>. QED
      BY <2>1, <3>1 DEF Fresh
  <2>5. CASE D!DemuxSend(w) \/ D!DemuxAbandon(w) \/ D!DemuxSkip(w)
    <3>1. /\ fftCh' = fftCh /\ dheld' = [dheld EXCEPT ![w] = 0]
          /\ \E to \in D!DemuxPlaces : dpc' = [dpc EXCEPT ![w] = to]
      BY <2>5 DEF D!DemuxSend, D!DemuxAbandon, D!DemuxSkip, D!LetGo, D!Go, D!DemuxPlaces
    <3>2. \A v \in DemuxWorkers :
            dheld'[v] = n /\ dpc'[v] # "send" => dheld[v] = n /\ dpc[v] # "send"
      BY <1>1, <3>1
    <3>. QED
      BY <2>1, <3>1, <3>2 DEF Fresh
  <2>6. CASE UNCHANGED <<fftCh, measCh, demuxes>>
    BY <2>1, <2>6 DEF Fresh, demuxes
  <2>. QED
    BY <1>4, <2>2, <2>3, <2>4, <2>5, <2>6 DEF DemuxStep, DemuxStore, D!DemuxWork
<1>5. ASSUME UNCHANGED <<framerCh, fftCh, framers, ffts, demuxes>> PROVE Fresh(n)
  BY <1>5 DEF Fresh, framers, ffts, demuxes
<1>6. ASSUME NEW w, ListenerStep(w) PROVE Fresh(n)
  BY <1>5, <1>6 DEF ListenerStep
<1>7. CASE MonitorStep \/ SinkStep \/ SinkStore \/ StorageStep \/ ListenerBind \/ Quiet
  BY <1>5, <1>7 DEF MonitorStep, SinkStep, SinkStore, StorageStep, ListenerBind, Quiet,
     components
<1>. QED
  BY <1>2, <1>3, <1>4, <1>6, <1>7, StepCases

(* A measurement that may still reach the storage through the sink was     *)
(* handed over by the demultiplexer in this step or earlier.               *)
LEMMA PassedBefore ==
  ASSUME Types, [Next]_vars, NEW m \in Measured, Passed(m)'
  PROVE  Passed(m) \/ Fresh(m.frame)
<1>1. /\ measCh \in Seq(Measured) /\ m.frame # 0
      /\ dheld \in [DemuxWorkers -> Nat] /\ dpc \in [DemuxWorkers -> D!DemuxPlaces]
      /\ dvalid \in [DemuxWorkers -> BOOLEAN]
  BY DEF Types, ChannelTypes, DemuxTypes, Measured, FrameNumber
<1>2. ASSUME NEW w \in DemuxWorkers, DemuxStep(w) \/ DemuxStore(w)
      PROVE  Passed(m) \/ Fresh(m.frame)
  <2>1. kheld' = kheld
    BY <1>2 DEF DemuxStep, DemuxStore, sinks
  <2>2. CASE D!DemuxStored(w)
    <3>1. /\ dpc[w] = "store" /\ dpc' = [dpc EXCEPT ![w] = "send"]
          /\ measCh' = measCh /\ dheld' = dheld /\ dvalid' = dvalid
      BY <2>2 DEF D!DemuxStored, D!Go
    <3>2. ASSUME NEW v \in DemuxWorkers, dpc'[v] = "send", D!Held(v)' = m
          PROVE  Passed(m) \/ Fresh(m.frame)
      <4>1. dheld[v] = m.frame /\ D!Held(v) = m
        BY <3>1, <3>2 DEF D!Held
      <4>2. CASE v = w
        BY <3>1, <4>1, <4>2 DEF Fresh
      <4>3. CASE v # w
        BY <1>1, <3>1, <3>2, <4>1, <4>3 DEF Passed
      <4>. QED
        BY <4>2, <4>3
    <3>. QED
      BY <2>1, <3>1, <3>2 DEF Passed
  <2>3. CASE D!DemuxSend(w) \/ D!DemuxAbandon(w) \/ D!DemuxSkip(w)
    <3>1. /\ dpc[w] = "send" /\ dheld' = [dheld EXCEPT ![w] = 0]
          /\ dvalid' = [dvalid EXCEPT ![w] = FALSE]
          /\ \E to \in D!DemuxPlaces : dpc' = [dpc EXCEPT ![w] = to]
          /\ measCh' = measCh \/ measCh' = Append(measCh, D!Held(w))
      BY <2>3 DEF D!DemuxSend, D!DemuxAbandon, D!DemuxSkip, D!LetGo, D!Go, D!DemuxPlaces
    <3>2. ASSUME NEW v \in DemuxWorkers, dpc'[v] = "send", D!Held(v)' = m
          PROVE  Passed(m)
      <4>1. dheld'[v] = m.frame
        BY <3>2 DEF D!Held
      <4>2. v # w
        BY <1>1, <3>1, <4>1
      <4>3. dpc[v] = "send" /\ D!Held(v) = m
        BY <1>1, <3>1, <3>2, <4>2 DEF D!Held
      <4>. QED
        BY <4>3 DEF Passed
    <3>3. ASSUME Holds(measCh', m) PROVE Passed(m)
      <4>1. D!Held(w) \in Measured
        BY <3>1, HeldIsMeasured
      <4>2. Holds(Append(measCh, D!Held(w)), m) => Holds(measCh, m) \/ m = D!Held(w)
        BY <1>1, <4>1, HoldsAfter
      <4>. QED
        BY <3>1, <3>3, <4>2 DEF Passed
    <3>. QED
      BY <2>1, <3>2, <3>3 DEF Passed
  <2>4. CASE \/ D!DemuxReceive(w) \/ D!DemuxStop(w) \/ D!PassGate(w) \/ D!SleepAtGate(w)
             \/ D!Increment(w) \/ D!ProcessFrame(w) \/ D!CountFrame(w)
             \/ D!CountMeasurement(w)
    <3>1. /\ measCh' = measCh /\ dpc'[w] # "send"
          /\ \A v \in DemuxWorkers : v # w =>
               dpc'[v] = dpc[v] /\ dheld'[v] = dheld[v] /\ dvalid'[v] = dvalid[v]
      BY <1>1, <2>4 DEF D!DemuxReceive, D!DemuxStop, D!PassGate, D!SleepAtGate,
         D!Increment, D!ProcessFrame, D!CountFrame, D!CountMeasurement, D!Go
    <3>2. \A v \in DemuxWorkers :
            dpc'[v] = "send" /\ D!Held(v)' = m => dpc[v] = "send" /\ D!Held(v) = m
      BY <3>1 DEF D!Held
    <3>. QED
      BY <2>1, <3>1, <3>2 DEF Passed
  <2>5. CASE D!Decrement(w)
    <3>1. /\ measCh' = measCh /\ dheld' = dheld /\ dvalid' = dvalid
          /\ \A v \in DemuxWorkers : dpc'[v] = "send" => dpc[v] = "send"
      BY <2>5 DEF D!Decrement
    <3>. QED
      BY <2>1, <3>1 DEF Passed, D!Held
  <2>6. CASE UNCHANGED <<fftCh, measCh, demuxes>>
    BY <2>1, <2>6 DEF Passed, D!Held, demuxes
  <2>. QED
    BY <1>2, <2>2, <2>3, <2>4, <2>5, <2>6 DEF DemuxStep, DemuxStore, D!DemuxWork
<1>3. CASE SinkStep \/ SinkStore
  <2>1. dheld' = dheld /\ dvalid' = dvalid /\ dpc' = dpc
    BY <1>3 DEF SinkStep, SinkStore, demuxes
  <2>2. CASE K!SinkReceive
    <3>1. /\ measCh # <<>> /\ measCh' = Tail(measCh)
          /\ kheld' = Head(measCh) \/ kheld' = kheld
      BY <2>2 DEF K!SinkReceive
    <3>2. (Holds(measCh', m) => Holds(measCh, m)) /\ Holds(measCh, Head(measCh))
      BY <1>1, <3>1, HoldsAfter
    <3>. QED
      BY <2>1, <3>1, <3>2 DEF Passed, D!Held
  <2>3. CASE K!SinkStop \/ K!SinkStored \/ UNCHANGED <<measCh, sinks>>
    <3>1. measCh' = measCh /\ (kheld' = kheld \/ kheld'.frame = 0)
      BY <2>3 DEF K!SinkStop, K!SinkStored, K!NoMeasurement, sinks
    <3>. QED
      BY <1>1, <2>1, <3>1 DEF Passed, D!Held
  <2>. QED
    BY <1>3, <2>2, <2>3 DEF SinkStep, SinkStore
<1>4. ASSUME UNCHANGED <<measCh, demuxes, sinks>> PROVE Passed(m)
  BY <1>4 DEF Passed, D!Held, demuxes, sinks
<1>5. ASSUME NEW w, ListenerStep(w) \/ FramerStep(w) \/ FftStep(w) PROVE Passed(m)
  BY <1>4, <1>5 DEF ListenerStep, FramerStep, FftStep
<1>6. CASE MonitorStep \/ StorageStep \/ ListenerBind \/ Quiet
  BY <1>4, <1>6 DEF MonitorStep, StorageStep, ListenerBind, Quiet, components
<1>. QED
  BY <1>2, <1>3, <1>5, <1>6, StepCases

(* A frame in the hands of the demultiplexer or of the sink is nowhere     *)
(* else.                                                                   *)
LEMMA SolePlace ==
  ASSUME Types, Located, NEW n \in FrameNumber, NEW k \in {5, 7}, Has(k, n) # 0
  PROVE  /\ n <= frameNum
         /\ ~(\E w \in FramerWorkers : fframe[w] = n) /\ ~Holds(framerCh, n)
         /\ ~(\E w \in FftWorkers : pframe[w] = n) /\ ~Holds(fftCh, n)
         /\ \A i \in DOMAIN measCh : measCh[i].frame # n
         /\ k = 5 => kheld.frame # n
         /\ k = 7 => \A w \in DemuxWorkers : dheld[w] # n
         /\ \A v, w \in DemuxWorkers : dheld[v] = n /\ dheld[w] = n => v = w
<1>1. PICK l \in 0..7 : IsIn(n, l)
  BY DEF Located
<1>2. l = k /\ n <= frameNum /\ \A i \in Places : Has(i, n) # 0 <=> i = k
  BY <1>1 DEF IsIn, Places
<1>3. Has(5, n) <= 1
  BY <1>1 DEF IsIn, Places
<1>4. \A v, w \in DemuxWorkers : dheld[v] = n /\ dheld[w] = n => v = w
  <2>. SUFFICES ASSUME NEW v \in DemuxWorkers, NEW w \in DemuxWorkers,
                       dheld[v] = n, dheld[w] = n
                PROVE  v = w
    OBVIOUS
  <2>1. IsFiniteSet(DOMAIN dheld) /\ DOMAIN dheld = DemuxWorkers
    BY GatewayAssumption DEF Types, DemuxTypes
  <2>2. dheld[v] \in {n} /\ dheld[w] \in {n} /\ Among(dheld, {n}) <= 1
    BY <1>3 DEF Has
  <2>. QED
    BY <2>1, <2>2, AmongUnique
<1>5. /\ ~(\E w \in FramerWorkers : fframe[w] = n)
      /\ ~(\E i \in DOMAIN framerCh : framerCh[i] = n)
      /\ ~(\E w \in FftWorkers : pframe[w] = n)
      /\ ~(\E i \in DOMAIN fftCh : fftCh[i] = n)
      /\ ~(\E i \in DOMAIN measCh : measCh[i].frame = n)
      /\ k = 5 => kheld.frame # n
      /\ k = 7 => ~(\E w \in DemuxWorkers : dheld[w] = n)
  BY <1>2, PlacesAreStages DEF Places
<1>. QED
  BY <1>2, <1>4, <1>5 DEF Holds

LEMMA CopiesCountedNext ==
  ASSUME StoreTypes', NEW m
  PROVE  Copies(m)' \in Nat
<1>1. InTable(m)' \in Nat /\ InQueue(m)' \in Nat /\ InBatch(m)' \in Nat
  BY SeqFinite DEF StoreTypes, InTable, InQueue, InBatch
<1>. QED
  BY <1>1 DEF Copies

(* A step in which no call is accepted adds no copy, and leaves what is    *)
(* fresh or passed as far as it was.                                       *)
LEMMA NoCopyNoChange ==
  ASSUME Types, Types', CopiesFollow, [Next]_vars, NEW m \in Measured,
         Copies(m)' <= Copies(m)
  PROVE  /\ Fresh(m.frame)' => Copies(m)' = 0
         /\ \A v \in BOOLEAN : Passed([frame |-> m.frame, valid |-> v])'
                                 => Copies(m)' <= (IF v = m.valid THEN 1 ELSE 0)
         /\ Copies(m)' <= (IF m.valid THEN 2 ELSE 1)
<1>1. Copies(m)' \in Nat /\ Copies(m) \in Nat /\ m.frame \in FrameNumber
  BY CopiesCounted, CopiesCountedNext DEF Types, Copies, Measured
<1>2. ASSUME Fresh(m.frame)' PROVE Copies(m)' = 0
  <2>1. Copies(m) = 0
    BY <1>1, <1>2, FreshBefore DEF CopiesFollow
  <2>. QED
    BY <1>1, <2>1
<1>3. ASSUME NEW v \in BOOLEAN, Passed([frame |-> m.frame, valid |-> v])'
      PROVE  Copies(m)' <= (IF v = m.valid THEN 1 ELSE 0)
  <2>. DEFINE p == [frame |-> m.frame, valid |-> v]
  <2>1. p \in Measured /\ p.frame = m.frame
    BY <1>1 DEF Measured
  <2>2. Passed(p) \/ Fresh(m.frame)
    BY <1>3, <2>1, PassedBefore
  <2>3. Copies(m) <= (IF v = m.valid THEN 1 ELSE 0)
    BY <1>1, <2>2 DEF CopiesFollow
  <2>. QED
    BY <1>1, <2>3
<1>4. Copies(m)' <= (IF m.valid THEN 2 ELSE 1)
  BY <1>1 DEF CopiesFollow
<1>. QED
  BY <1>2, <1>3, <1>4

(* The demultiplexer's call is accepted: the first copy.                   *)
LEMMA FirstCopy ==
  ASSUME Types, Types', Located, CopiesFollow, [Next]_vars,
         NEW w \in DemuxWorkers, DemuxStore(w), D!DemuxStored(w),
         S!Accept(w, D!Held(w)), NEW m \in Measured
  PROVE  /\ Fresh(m.frame)' => Copies(m)' = 0
         /\ \A v \in BOOLEAN : Passed([frame |-> m.frame, valid |-> v])'
                                 => Copies(m)' <= (IF v = m.valid THEN 1 ELSE 0)
         /\ Copies(m)' <= (IF m.valid THEN 2 ELSE 1)
<1>. DEFINE x == D!Held(w)
<1>1. dpc[w] = "store" /\ dpc' = [dpc EXCEPT ![w] = "send"]
  BY DEF D!DemuxStored, D!Go
<1>2. x \in Measured /\ x.frame = dheld[w] /\ x.valid = dvalid[w]
  BY <1>1, HeldIsMeasured DEF D!Held
<1>3. /\ m = x => Copies(m)' = Copies(m) + 1
      /\ m # x => Copies(m)' = Copies(m)
  BY <1>2, AcceptAddsCopy DEF Types
<1>4. Copies(m) \in Nat /\ m.frame \in FrameNumber
  BY CopiesCounted DEF Types, Copies, Measured
<1>5. CASE m.frame # x.frame
  <2>1. Copies(m)' <= Copies(m)
    BY <1>3, <1>4, <1>5
  <2>. QED
    BY <2>1, NoCopyNoChange
<1>6. CASE m.frame = x.frame
  <2>1. dheld[w] = m.frame
    BY <1>2, <1>6
  <2>2. Copies(m) = 0
    BY <1>1, <2>1 DEF CopiesFollow, Fresh
  <2>3. Has(5, m.frame) # 0
    BY <1>4, <2>1, PlacesAreStages
  <2>4. /\ m.frame <= frameNum
        /\ ~(\E v \in FramerWorkers : fframe[v] = m.frame) /\ ~Holds(framerCh, m.frame)
        /\ ~(\E v \in FftWorkers : pframe[v] = m.frame) /\ ~Holds(fftCh, m.frame)
        /\ \A i \in DOMAIN measCh : measCh[i].frame # m.frame
        /\ kheld.frame # m.frame
        /\ \A v \in DemuxWorkers : dheld[v] = m.frame => v = w
    BY <1>4, <2>1, <2>3, SolePlace
  <2>5. UNCHANGED <<frameNum, fframe, framerCh, pframe, fftCh, dheld, dvalid, measCh, kheld>>
    BY DEF DemuxStore, D!DemuxStored, framers, ffts, sinks
  <2>6. dpc'[w] = "send"
    BY <1>1 DEF Types, DemuxTypes
  <2>7. frameNum \in Nat /\ m.frame \in Nat
    BY <1>4 DEF Types, FramerTypes, FrameNumber
  <2>8. ~Fresh(m.frame)'
    BY <2>4, <2>5, <2>6, <2>7 DEF Fresh
  <2>9. ASSUME NEW v \in BOOLEAN, Passed([frame |-> m.frame, valid |-> v])'
        PROVE  v = x.valid
    <3>. DEFINE p == [frame |-> m.frame, valid |-> v]
    <3>1. ~Holds(measCh, p) /\ kheld # p
      BY <2>4 DEF Holds
    <3>2. PICK u \in DemuxWorkers : D!Held(u)' = p
      BY <2>5, <2>9, <3>1 DEF Passed
    <3>3. dheld[u] = m.frame /\ dvalid[u] = v
      BY <2>5, <3>2 DEF D!Held
    <3>. QED
      BY <1>2, <2>4, <3>3
  <2>10. m # x => m.valid # x.valid
    BY <1>2, <1>6 DEF Measured
  <2>11. m = x => Copies(m)' = 1
    BY <1>3, <2>2
  <2>12. m # x => Copies(m)' = 0
    BY <1>3, <2>2
  <2>. QED
    BY <2>8, <2>9, <2>10, <2>11, <2>12
<1>. QED
  BY <1>5, <1>6

(* The sink's call is accepted: the second copy, of a valid measurement.   *)
LEMMA SecondCopy ==
  ASSUME Types, Types', Located, CopiesFollow, [Next]_vars,
         SinkStore, K!SinkStored, S!Accept(Sinker, kheld), NEW m \in Measured
  PROVE  /\ Fresh(m.frame)' => Copies(m)' = 0
         /\ \A v \in BOOLEAN : Passed([frame |-> m.frame, valid |-> v])'
                                 => Copies(m)' <= (IF v = m.valid THEN 1 ELSE 0)
         /\ Copies(m)' <= (IF m.valid THEN 2 ELSE 1)
<1>1. kheld \in Measured /\ kheld.valid = TRUE
  BY DEF Types, SinkTypes, SinkStore, Measured
<1>2. /\ m = kheld => Copies(m)' = Copies(m) + 1
      /\ m # kheld => Copies(m)' = Copies(m)
  BY <1>1, AcceptAddsCopy DEF Types
<1>3. Copies(m) \in Nat /\ m.frame \in FrameNumber
  BY CopiesCounted DEF Types, Copies, Measured
<1>4. CASE m.frame # kheld.frame
  <2>1. Copies(m)' <= Copies(m)
    BY <1>2, <1>3, <1>4
  <2>. QED
    BY <2>1, NoCopyNoChange
<1>5. CASE m.frame = kheld.frame
  <2>1. Passed([frame |-> m.frame, valid |-> TRUE])
    BY <1>1, <1>5 DEF Passed, Measured
  <2>2. Copies(m) <= (IF TRUE = m.valid THEN 1 ELSE 0)
    BY <2>1 DEF CopiesFollow
  <2>3. Has(7, m.frame) # 0
    BY <1>3, <1>5, PlacesAreStages
  <2>4. /\ m.frame <= frameNum
        /\ ~(\E v \in FramerWorkers : fframe[v] = m.frame) /\ ~Holds(framerCh, m.frame)
        /\ ~(\E v \in FftWorkers : pframe[v] = m.frame) /\ ~Holds(fftCh, m.frame)
        /\ \A i \in DOMAIN measCh : measCh[i].frame # m.frame
        /\ \A v \in DemuxWorkers : dheld[v] # m.frame
    BY <1>3, <2>3, SolePlace
  <2>5. UNCHANGED <<frameNum, fframe, framerCh, pframe, fftCh, dheld, dvalid, dpc, measCh>>
    BY DEF SinkStore, K!SinkStored, framers, ffts, demuxes
  <2>6. kheld'.frame = 0 /\ m.frame # 0
    BY <1>3 DEF K!SinkStored, K!NoMeasurement, FrameNumber
  <2>7. frameNum \in Nat /\ m.frame \in Nat
    BY <1>3 DEF Types, FramerTypes, FrameNumber
  <2>8. ~Fresh(m.frame)'
    BY <2>4, <2>5, <2>7 DEF Fresh
  <2>9. ASSUME NEW v \in BOOLEAN PROVE ~Passed([frame |-> m.frame, valid |-> v])'
    <3>. DEFINE p == [frame |-> m.frame, valid |-> v]
    <3>1. p.frame = m.frame
      OBVIOUS
    <3>. HIDE DEF p
    <3>2. ~Holds(measCh, p) /\ kheld' # p
      BY <2>4, <2>6, <3>1 DEF Holds
    <3>3. \A u \in DemuxWorkers : D!Held(u)' # p
      BY <2>4, <2>5, <3>1 DEF D!Held
    <3>. QED
      BY <2>5, <3>2, <3>3 DEF Passed, p
  <2>10. Copies(m)' <= (IF m.valid THEN 2 ELSE 1)
    <3>1. CASE m = kheld
      BY <1>1, <1>2, <1>3, <2>2, <3>1
    <3>2. CASE m # kheld
      <4>1. Copies(m)' = Copies(m) /\ Copies(m) <= 1
        BY <1>2, <1>3, <2>2, <3>2
      <4>. QED
        BY <1>3, <4>1
    <3>. QED
      BY <3>1, <3>2
  <2>. QED
    BY <2>8, <2>9, <2>10
<1>. QED
  BY <1>4, <1>5

LEMMA CopiesFollowStep ==
  ASSUME Types, Types', Located, CopiesFollow, [Next]_vars
  PROVE  CopiesFollow'
<1>. SUFFICES ASSUME NEW m \in Measured
              PROVE  /\ Fresh(m.frame)' => Copies(m)' = 0
                     /\ \A v \in BOOLEAN : Passed([frame |-> m.frame, valid |-> v])'
                                 => Copies(m)' <= (IF v = m.valid THEN 1 ELSE 0)
                     /\ Copies(m)' <= (IF m.valid THEN 2 ELSE 1)
  BY DEF CopiesFollow
<1>0. StoreTypes /\ Copies(m) \in Nat
  BY CopiesCounted DEF Types, Copies
<1>1. ASSUME UNCHANGED <<batchCh, batch, spc, rows>> PROVE Copies(m)' <= Copies(m)
  <2>1. Copies(m)' = Copies(m)
    BY <1>1 DEF Copies, InTable, InBatch, InQueue
  <2>. QED
    BY <1>0, <2>1
<1>2. ASSUME NEW c, NEW x, S!RefuseCancelled(c, x) \/ S!CountRefusal(c) \/ S!RefuseFull(c, x)
      PROVE  Copies(m)' <= Copies(m)
  BY <1>1, <1>2 DEF S!RefuseCancelled, S!CountRefusal, S!RefuseFull, S!storageVars,
     S!queueVars
<1>3. ASSUME NEW w \in DemuxWorkers, DemuxStore(w)
      PROVE  (S!Accept(w, D!Held(w)) /\ D!DemuxStored(w)) \/ Copies(m)' <= Copies(m)
  BY <1>2, <1>3 DEF DemuxStore, Returns
<1>4. ASSUME SinkStore
      PROVE  (S!Accept(Sinker, kheld) /\ K!SinkStored) \/ Copies(m)' <= Copies(m)
  BY <1>2, <1>4 DEF SinkStore, Returns
<1>5. CASE StorageStep
  BY <1>0, <1>5, WriterMakesNoCopy, NoCopyNoChange DEF StorageStep
<1>6. ASSUME UNCHANGED stores PROVE Copies(m)' <= Copies(m)
  BY <1>1, <1>6 DEF stores
<1>7. ASSUME NEW w, ListenerStep(w) \/ FramerStep(w) \/ FftStep(w) \/ DemuxStep(w)
      PROVE  Copies(m)' <= Copies(m)
  BY <1>6, <1>7 DEF ListenerStep, FramerStep, FftStep, DemuxStep
<1>8. ASSUME MonitorStep \/ SinkStep \/ ListenerBind \/ Quiet PROVE Copies(m)' <= Copies(m)
  BY <1>6, <1>8 DEF MonitorStep, SinkStep, ListenerBind, Quiet, components
<1>9. CASE Copies(m)' <= Copies(m)
  BY <1>9, NoCopyNoChange
<1>10. CASE \E w \in DemuxWorkers : DemuxStore(w)
  BY <1>3, <1>9, <1>10, FirstCopy
<1>11. CASE SinkStore
  BY <1>4, <1>9, <1>11, SecondCopy
<1>. QED
  BY <1>5, <1>7, <1>8, <1>9, <1>10, <1>11, StepCases

LEMMA CopiesFollowInit == Init => CopiesFollow
<1>. SUFFICES ASSUME Init, NEW m \in Measured
              PROVE  Copies(m) = 0
  BY DEF CopiesFollow
<1>1. Among(<<>>, ItemsOf(m)) = 0
  BY FS_EmptySet DEF Among
<1>2. rows = <<>> /\ batch = <<>> /\ batchCh = <<>>
  BY DEF Init, S!StorageInit
<1>. QED
  BY <1>1, <1>2 DEF Copies, InTable, InBatch, InQueue

(* The storage's module counts with its own copy of the library's operator. *)
LEMMA SameCardinality ==
  ASSUME NEW A
  PROVE  S!Cardinality(A) = Cardinality(A)
BY Zenon DEF S!Cardinality, Cardinality

LEMMA FollowedIsBounded ==
  ASSUME Types, CopiesFollow
  PROVE  CopiesBounded
<1>. SUFFICES ASSUME NEW m \in StoredMeasurements
              PROVE  Cardinality({i \in DOMAIN rows : rows[i].m = m}) + S!Holding(S!Pending, m)
                       <= (IF m.valid THEN 2 ELSE 1)
                          + (IF spc = "failCopy" THEN S!Holding(batch, m) ELSE 0)
  BY DEF CopiesBounded
<1>1. m \in Measured
  BY GatewayAssumption DEF StoredMeasurements, Measured, FrameNumber
<1>2. ASSUME NEW q \in Seq(Queued)
      PROVE  Cardinality({i \in DOMAIN q : q[i].m = m}) = Among(q, ItemsOf(m))
  <2>1. \A i \in DOMAIN q : q[i] \in ItemsOf(m) <=> q[i].m = m
    BY DEF ItemsOf
  <2>2. {i \in DOMAIN q : q[i].m = m} = {i \in DOMAIN q : q[i] \in ItemsOf(m)}
    BY <2>1
  <2>. QED
    BY <2>2 DEF Among
<1>3. rows \in Seq(Queued) /\ batch \in Seq(Queued) /\ batchCh \in Seq(Queued)
  BY DEF Types, StoreTypes
<1>4. batch \o batchCh \in Seq(Queued)
  BY <1>3, ConcatProperties
<1>5. S!Holding(S!Pending, m) = Among(batch, ItemsOf(m)) + Among(batchCh, ItemsOf(m))
  <2>1. S!Holding(S!Pending, m) = Cardinality({i \in DOMAIN (batch \o batchCh) :
                                                 (batch \o batchCh)[i].m = m})
    BY SameCardinality DEF S!Holding, S!Pending
  <2>2. S!Holding(S!Pending, m) = Among(batch \o batchCh, ItemsOf(m))
    BY <1>2, <1>4, <2>1, Zenon
  <2>. QED
    BY <1>3, <2>2, AmongConcat
<1>6. S!Holding(batch, m) = Among(batch, ItemsOf(m))
  <2>1. S!Holding(batch, m) = Cardinality({i \in DOMAIN batch : batch[i].m = m})
    BY SameCardinality DEF S!Holding
  <2>. QED
    BY <1>2, <1>3, <2>1, Zenon
<1>7. Cardinality({i \in DOMAIN rows : rows[i].m = m}) = Among(rows, ItemsOf(m))
  BY <1>2, <1>3
<1>8. Copies(m) <= (IF m.valid THEN 2 ELSE 1)
  BY <1>1 DEF CopiesFollow
<1>9. /\ Among(rows, ItemsOf(m)) \in Nat /\ Among(batch, ItemsOf(m)) \in Nat
      /\ Among(batchCh, ItemsOf(m)) \in Nat
  BY <1>3, SeqFinite
<1>. QED
  BY <1>5, <1>6, <1>7, <1>8, <1>9 DEF Copies, InTable, InBatch, InQueue

(* The table and the storage's queue together never hold more than two     *)
(* copies of a valid measurement and one of an invalid one, whoever calls  *)
(* in which order and whatever the database answers: a frame comes to the  *)
(* demultiplexer's call once, to the sink's once, and the sink's only with *)
(* what the demultiplexer sent it as valid.                                *)
THEOREM GatewayCopiesBounded == Spec => []CopiesBounded
<1>1. Init => Types /\ Located /\ CopiesFollow
  BY TypesInit, LocatedInit, CopiesFollowInit
<1>2. Types /\ Located /\ CopiesFollow /\ [Next]_vars => Types' /\ Located' /\ CopiesFollow'
  BY TypesStep, FramesStep, LocatedStep, CopiesFollowStep
<1>3. Types /\ CopiesFollow => CopiesBounded
  BY FollowedIsBounded
<1>. QED
  BY <1>1, <1>2, <1>3, PTL DEF Spec

=============================================================================
