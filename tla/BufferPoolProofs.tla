-------------------------- MODULE BufferPoolProofs --------------------------
(***************************************************************************)
(* Proofs about the ownership of pooled objects, for any number of         *)
(* objects, workers and items and any channel capacity.                    *)
(*                                                                         *)
(* The inductive invariant adds that no reference count is ever positive   *)
(* (so Unref never clears an object) and that an object in a producer's    *)
(* hand has a count of 0 (so that what Put gives back is clean).           *)
(***************************************************************************)
EXTENDS BufferPool, TLAPS

CountsNeverPositive ==
  /\ \A b \in Objects : refCount[b] <= 0
  /\ \A p \in Holding : refCount[hand[p]] = 0

PoolInv ==
  /\ TypeOK
  /\ OneOwner
  /\ ReadsWhatWasSent
  /\ PoolIsClean
  /\ CountsNeverPositive

-----------------------------------------------------------------------------
LEMMA PoolInit == Init => PoolInv
<1> SUFFICES ASSUME Init PROVE PoolInv
  OBVIOUS
<1>1. TypeOK
  <2>1. ch \in Seq(Envelope) /\ Len(ch) <= ChCap
    BY PoolAssumption DEF Init
  <2>2. /\ have \in [Consumers -> Envelope \cup {NoEnvelope}]
        /\ \A c \in Consumers : have[c] = NoEnvelope <=> cpc[c] = "idle"
    BY DEF Init
  <2>3. /\ content \in [Objects -> Nat] /\ refCount \in [Objects -> Int]
        /\ filled \in Nat
    BY DEF Init
  <2>4. /\ bpc \in [Producers -> {"idle", "empty", "full", "exit"}]
        /\ cpc \in [Consumers -> {"idle", "got", "released"}]
    BY DEF Init
  <2>5. /\ hand \in [Producers -> Objects \cup {NoObject}]
        /\ \A p \in Producers : hand[p] = NoObject <=> bpc[p] \in {"idle", "exit"}
    BY DEF Init
  <2>6. unmade \subseteq Objects /\ free \subseteq Objects /\ stopping \in BOOLEAN
    BY Zenon DEF Init
  <2>7. QED
    BY <2>1, <2>2, <2>3, <2>4, <2>5, <2>6 DEF TypeOK
<1>2. Holding = {} /\ Using = {} /\ Len(ch) = 0
  BY DEF Init, Holding, Using
<1>3. OneOwner /\ ReadsWhatWasSent
  BY <1>2 DEF OneOwner, ReadsWhatWasSent
<1>4. PoolIsClean /\ CountsNeverPositive
  BY <1>2, <1>1 DEF Init, PoolIsClean, CountsNeverPositive
<1>5. QED
  BY <1>1, <1>3, <1>4 DEF PoolInv

-----------------------------------------------------------------------------
(* Each producer action.                                                   *)
LEMMA GetKeeps ==
  ASSUME PoolInv, NEW p \in Producers, Get(p)
  PROVE  PoolInv'
<1> USE DEF PoolInv, TypeOK, BGo
<1>1. PICK b \in free \cup unmade :
        /\ hand' = [hand EXCEPT ![p] = b]
        /\ free' = free \ {b}
        /\ unmade' = unmade \ {b}
  BY DEF Get
<1>2. b \in Objects /\ b # NoObject
  BY PoolAssumption
<1>3. Holding' = Holding \cup {p} /\ p \notin Holding /\ Using' = Using
  BY <1>1, <1>2 DEF Get, Holding, Using
<1>4. TypeOK'
  BY <1>1, <1>2 DEF Get
<1>5. OneOwner'
  BY <1>1, <1>2, <1>3 DEF Get, OneOwner, Holding
<1>6. ReadsWhatWasSent' /\ PoolIsClean' /\ CountsNeverPositive'
  BY <1>1, <1>2, <1>3 DEF Get, ReadsWhatWasSent, PoolIsClean, CountsNeverPositive, Holding
<1>7. QED
  BY <1>4, <1>5, <1>6

LEMMA FillKeeps ==
  ASSUME PoolInv, NEW p \in Producers, Fill(p)
  PROVE  PoolInv'
<1> USE DEF PoolInv, TypeOK, BGo
<1>1. hand[p] \in Objects /\ p \in Holding /\ Holding' = Holding /\ Using' = Using
  BY DEF Fill, Holding, Using
<1>2. TypeOK'
  BY <1>1 DEF Fill
<1>3. OneOwner'
  BY <1>1 DEF Fill, OneOwner
<1>4. \A b \in Objects : b # hand[p] => content'[b] = content[b]
  BY <1>1 DEF Fill
<1>5. ReadsWhatWasSent'
  <2>1. UNCHANGED <<ch, have>>
    BY DEF Fill
  <2>2. \A i \in 1..Len(ch) : ch[i].object \in Objects /\ ch[i].object # hand[p]
    <3> TAKE i \in 1..Len(ch)
    <3>1. ch[i] \in Envelope
      OBVIOUS
    <3>2. ch[i].object \in Objects
      BY <3>1 DEF Envelope
    <3>3. QED
      BY <1>1, <3>2 DEF OneOwner
  <2>3. \A c \in Using : have[c].object \in Objects /\ have[c].object # hand[p]
    <3> TAKE c \in Using
    <3>1. have[c] \in Envelope
      BY DEF Using
    <3>2. have[c].object \in Objects
      BY <3>1 DEF Envelope
    <3>3. QED
      BY <1>1, <3>2 DEF OneOwner
  <2>4. QED
    BY <1>1, <1>4, <2>1, <2>2, <2>3 DEF ReadsWhatWasSent
<1>6. PoolIsClean' /\ CountsNeverPositive'
  BY <1>1, <1>4 DEF Fill, PoolIsClean, CountsNeverPositive, OneOwner
<1>7. QED
  BY <1>2, <1>3, <1>5, <1>6

LEMMA SendKeeps ==
  ASSUME PoolInv, NEW p \in Producers, Send(p)
  PROVE  PoolInv'
<1> USE DEF PoolInv, TypeOK, BGo
<1> DEFINE e == [object |-> hand[p], item |-> content[hand[p]]]
<1>1. p \in Holding /\ hand[p] \in Objects /\ e \in Envelope
  BY DEF Send, Holding, Envelope
<1>2. Holding' = Holding \ {p} /\ Using' = Using
  BY DEF Send, Holding, Using
<1>3. /\ ch' \in Seq(Envelope)
      /\ Len(ch') = Len(ch) + 1
      /\ \A i \in 1..Len(ch) : ch'[i] = ch[i]
      /\ ch'[Len(ch) + 1] = e
  BY <1>1 DEF Send
<1>4. TypeOK'
  <2>1. ch' \in Seq(Envelope) /\ Len(ch') <= ChCap
    BY <1>3, PoolAssumption DEF Send
  <2>2. /\ bpc' \in [Producers -> {"idle", "empty", "full", "exit"}]
        /\ hand' \in [Producers -> Objects \cup {NoObject}]
        /\ \A q \in Producers : hand'[q] = NoObject <=> bpc'[q] \in {"idle", "exit"}
    BY DEF Send
  <2>3. UNCHANGED <<unmade, free, content, refCount, cpc, have, filled, stopping>>
    BY DEF Send, poolVars
  <2>4. QED
    BY <2>1, <2>2, <2>3
<1>5. OneOwner'
  BY <1>1, <1>2, <1>3 DEF Send, OneOwner, Holding, poolVars
<1>6. ReadsWhatWasSent'
  BY <1>1, <1>2, <1>3 DEF Send, ReadsWhatWasSent, poolVars
<1>7. PoolIsClean' /\ CountsNeverPositive'
  BY <1>2 DEF Send, PoolIsClean, CountsNeverPositive, poolVars, Holding
<1>8. QED
  BY <1>4, <1>5, <1>6, <1>7

LEMMA PutKeeps ==
  ASSUME PoolInv, NEW p \in Producers, Put(p)
  PROVE  PoolInv'
<1> USE DEF PoolInv, TypeOK, BGo
<1>1. p \in Holding /\ hand[p] \in Objects
  BY DEF Put, Holding
<1>2. Holding' = Holding \ {p} /\ Using' = Using
  BY DEF Put, Holding, Using
<1>3. TypeOK'
  BY <1>1 DEF Put
<1>4. OneOwner'
  BY <1>1, <1>2 DEF Put, OneOwner, Holding
<1>5. \A b \in Objects : b # hand[p] => content'[b] = content[b]
  BY <1>1 DEF Put
<1>6. ReadsWhatWasSent'
  <2>1. UNCHANGED <<ch, have>>
    BY DEF Put
  <2>2. \A i \in 1..Len(ch) : ch[i].object \in Objects /\ ch[i].object # hand[p]
    <3> TAKE i \in 1..Len(ch)
    <3>1. ch[i] \in Envelope
      OBVIOUS
    <3>2. ch[i].object \in Objects
      BY <3>1 DEF Envelope
    <3>3. QED
      BY <1>1, <3>2 DEF OneOwner
  <2>3. \A c \in Using : have[c].object \in Objects /\ have[c].object # hand[p]
    <3> TAKE c \in Using
    <3>1. have[c] \in Envelope
      BY DEF Using
    <3>2. have[c].object \in Objects
      BY <3>1 DEF Envelope
    <3>3. QED
      BY <1>1, <3>2 DEF OneOwner
  <2>4. QED
    BY <1>2, <1>5, <2>1, <2>2, <2>3 DEF ReadsWhatWasSent
<1>7. PoolIsClean' /\ CountsNeverPositive'
  BY <1>1, <1>2, <1>5 DEF Put, PoolIsClean, CountsNeverPositive, Holding
<1>8. QED
  BY <1>3, <1>4, <1>6, <1>7

-----------------------------------------------------------------------------
(* Each consumer action.                                                   *)
LEMMA ReceiveKeeps ==
  ASSUME PoolInv, NEW c \in Consumers, Receive(c)
  PROVE  PoolInv'
<1> USE DEF PoolInv, TypeOK, CGo
<1>1. /\ ch # <<>> /\ Head(ch) = ch[1] /\ ch[1] \in Envelope /\ Len(ch) >= 1
      /\ ch' \in Seq(Envelope)
      /\ Len(ch') = Len(ch) - 1
      /\ \A i \in 1..Len(ch') : ch'[i] = ch[i + 1] /\ i + 1 \in 1..Len(ch)
  BY DEF Receive
<1>2. have' = [have EXCEPT ![c] = ch[1]] /\ c \notin Using
  BY <1>1 DEF Receive, Using
<1>3. Using' = Using \cup {c} /\ Holding' = Holding
  BY DEF Receive, Using, Holding
<1>4. ch[1] # NoEnvelope
  BY <1>1, PoolAssumption DEF Envelope, NoEnvelope
<1>5. TypeOK'
  <2>1. ch' \in Seq(Envelope) /\ Len(ch') <= ChCap
    BY <1>1, PoolAssumption
  <2>2. have' \in [Consumers -> Envelope \cup {NoEnvelope}]
    BY <1>1, <1>2
  <2>3. cpc' = [cpc EXCEPT ![c] = "got"] /\ cpc' \in [Consumers -> {"idle", "got", "released"}]
    BY DEF Receive
  <2>4. \A d \in Consumers : have'[d] = NoEnvelope <=> cpc'[d] = "idle"
    BY <1>2, <1>4, <2>3
  <2>5. UNCHANGED <<unmade, free, content, refCount, bpc, hand, filled, stopping>>
    BY DEF Receive, poolVars
  <2>6. QED
    BY <2>1, <2>2, <2>3, <2>4, <2>5
<1>6. OneOwner'
  <2>1. /\ have'[c] = ch[1]
        /\ \A d \in Using : d # c /\ d \in Consumers /\ have'[d] = have[d]
    BY <1>2 DEF Using
  <2>2. UNCHANGED <<unmade, free, hand>>
    BY DEF Receive, poolVars
  <2>3. /\ \A p, q \in Holding' : hand'[p] = hand'[q] => p = q
        /\ \A p \in Holding' : hand'[p] \notin (free \cup unmade)'
    BY <1>3, <2>2 DEF OneOwner
  <2>4. \A i \in 1..Len(ch') :
          /\ ch'[i].object \notin (free \cup unmade)'
          /\ \A p \in Holding' : ch'[i].object # hand'[p]
          /\ \A j \in 1..Len(ch') : ch'[i].object = ch'[j].object => i = j
          /\ ch'[i].object # ch[1].object
    <3> TAKE i \in 1..Len(ch')
    <3>1. ch'[i] = ch[i + 1] /\ i + 1 \in 1..Len(ch) /\ 1 \in 1..Len(ch) /\ i + 1 # 1
      BY <1>1
    <3>2. /\ ch'[i].object \notin (free \cup unmade)'
          /\ \A p \in Holding' : ch'[i].object # hand'[p]
      BY <3>1, <1>3, <2>2 DEF OneOwner
    <3>3. ASSUME NEW j \in 1..Len(ch'), ch'[i].object = ch'[j].object
          PROVE  i = j
      <4>1. ch'[j] = ch[j + 1] /\ j + 1 \in 1..Len(ch)
        BY <1>1
      <4>2. i + 1 = j + 1
        BY <3>1, <3>3, <4>1 DEF OneOwner
      <4>3. QED
        BY <4>2
    <3>4. ch'[i].object # ch[1].object
      BY <3>1 DEF OneOwner
    <3>5. QED
      BY <3>2, <3>3, <3>4
  <2>5. \A d \in Using' :
          /\ have'[d].object \notin (free \cup unmade)'
          /\ \A p \in Holding' : have'[d].object # hand'[p]
    BY <1>1, <1>3, <2>1, <2>2 DEF OneOwner
  <2>6. \A d \in Using', i \in 1..Len(ch') : have'[d].object # ch'[i].object
    <3> TAKE d \in Using', i \in 1..Len(ch')
    <3>1. CASE d = c
      BY <3>1, <2>1, <2>4
    <3>2. CASE d # c
      <4>1. d \in Using /\ have'[d] = have[d]
        BY <3>2, <1>3, <2>1
      <4>2. ch'[i] = ch[i + 1] /\ i + 1 \in 1..Len(ch)
        BY <1>1
      <4>3. QED
        BY <4>1, <4>2 DEF OneOwner
    <3>3. QED
      BY <3>1, <3>2
  <2>7. \A d, g \in Using' : have'[d].object = have'[g].object => d = g
    BY <1>1, <1>3, <2>1 DEF OneOwner
  <2>8. QED
    BY <2>3, <2>4, <2>5, <2>6, <2>7 DEF OneOwner
<1>7. ReadsWhatWasSent'
  BY <1>1, <1>2, <1>3 DEF Receive, ReadsWhatWasSent, poolVars, Using
<1>8. PoolIsClean' /\ CountsNeverPositive'
  BY <1>3 DEF Receive, PoolIsClean, CountsNeverPositive, poolVars
<1>9. QED
  BY <1>5, <1>6, <1>7, <1>8

LEMMA UnrefKeeps ==
  ASSUME PoolInv, NEW c \in Consumers, Unref(c)
  PROVE  PoolInv'
<1> USE DEF PoolInv, TypeOK, CGo
<1> DEFINE b == have[c].object
<1>1. c \in Using /\ b \in Objects
  BY DEF Unref, Using, Envelope
<1>2. Using' = Using /\ Holding' = Holding
  BY DEF Unref, Using, Holding
<1>3. content' = content
  BY <1>1 DEF Unref, CountsNeverPositive
<1>4. TypeOK'
  BY <1>1, <1>3 DEF Unref
<1>5. OneOwner' /\ ReadsWhatWasSent'
  BY <1>2, <1>3 DEF Unref, OneOwner, ReadsWhatWasSent
<1>6. /\ refCount'[b] = refCount[b] - 1
      /\ \A o \in Objects : o # b => refCount'[o] = refCount[o]
  BY <1>1 DEF Unref
<1>7. PoolIsClean'
  BY <1>1, <1>3, <1>6 DEF Unref, PoolIsClean, OneOwner
<1>8. CountsNeverPositive'
  BY <1>1, <1>2, <1>6 DEF Unref, CountsNeverPositive, OneOwner, Holding
<1>9. QED
  BY <1>4, <1>5, <1>7, <1>8

LEMMA LastUseKeeps ==
  ASSUME PoolInv, NEW c \in Consumers, LastUse(c)
  PROVE  PoolInv'
<1> USE DEF PoolInv, TypeOK, CGo
<1>1. Using' = Using \ {c} /\ Holding' = Holding
  BY DEF LastUse, Using, Holding
<1>2. TypeOK'
  BY DEF LastUse, poolVars
<1>3. \A d \in Using' : d \in Using /\ have'[d] = have[d]
  BY <1>1 DEF LastUse, Using
<1>4. OneOwner' /\ ReadsWhatWasSent'
  <2>1. UNCHANGED <<unmade, free, content, hand, ch>>
    BY DEF LastUse, poolVars
  <2>2. OneOwner'
    <3>1. /\ \A p, q \in Holding' : hand'[p] = hand'[q] => p = q
          /\ \A i, j \in 1..Len(ch') : ch'[i].object = ch'[j].object => i = j
          /\ \A p \in Holding' : hand'[p] \notin (free \cup unmade)'
      BY <1>1, <2>1 DEF OneOwner
    <3>2. \A i \in 1..Len(ch') :
            /\ ch'[i].object \notin (free \cup unmade)'
            /\ \A p \in Holding' : ch'[i].object # hand'[p]
      BY <1>1, <2>1 DEF OneOwner
    <3>3. \A d, g \in Using' : have'[d].object = have'[g].object => d = g
      BY <1>3 DEF OneOwner
    <3>4. \A d \in Using' :
            /\ have'[d].object \notin (free \cup unmade)'
            /\ \A p \in Holding' : have'[d].object # hand'[p]
            /\ \A i \in 1..Len(ch') : have'[d].object # ch'[i].object
      BY <1>1, <1>3, <2>1 DEF OneOwner
    <3>5. QED
      BY <3>1, <3>2, <3>3, <3>4 DEF OneOwner
  <2>3. ReadsWhatWasSent'
    BY <1>1, <1>3, <2>1 DEF ReadsWhatWasSent
  <2>4. QED
    BY <2>2, <2>3
<1>5. PoolIsClean' /\ CountsNeverPositive'
  BY <1>1 DEF LastUse, PoolIsClean, CountsNeverPositive, poolVars
<1>6. QED
  BY <1>2, <1>4, <1>5

LEMMA OthersKeep ==
  ASSUME PoolInv,
         Collect \/ Stop \/ (\E p \in Producers : Quit(p)) \/ UNCHANGED vars
  PROVE  PoolInv'
<1> USE DEF PoolInv, TypeOK
<1>1. /\ free' \subseteq free
      /\ UNCHANGED <<unmade, content, refCount, hand, ch, cpc, have, filled>>
      /\ Holding' = Holding /\ Using' = Using
  BY DEF Collect, Stop, Quit, BGo, vars, poolVars, Holding, Using
<1>2. TypeOK'
  <2>1. /\ bpc' \in [Producers -> {"idle", "empty", "full", "exit"}]
        /\ stopping' \in BOOLEAN
        /\ \A p \in Producers : bpc'[p] \in {"idle", "exit"} <=> bpc[p] \in {"idle", "exit"}
    BY DEF Collect, Stop, Quit, BGo, vars
  <2>2. QED
    BY <1>1, <2>1
<1>3. OneOwner' /\ ReadsWhatWasSent'
  BY <1>1 DEF OneOwner, ReadsWhatWasSent
<1>4. PoolIsClean' /\ CountsNeverPositive'
  BY <1>1 DEF PoolIsClean, CountsNeverPositive
<1>5. QED
  BY <1>2, <1>3, <1>4

-----------------------------------------------------------------------------
LEMMA PoolStep == PoolInv /\ [Next]_vars => PoolInv'
BY GetKeeps, FillKeeps, SendKeeps, PutKeeps, ReceiveKeeps, UnrefKeeps,
   LastUseKeeps, OthersKeep DEF Next

LEMMA PoolInvariant == Spec => []PoolInv
BY PoolInit, PoolStep, PTL DEF Spec

(* Type correctness of the ownership protocol.                             *)
THEOREM PoolTypeCorrect == Spec => []TypeOK
BY PoolInvariant, PTL DEF PoolInv

(* No object ever has two owners.                                          *)
THEOREM PoolOneOwner == Spec => []OneOwner
BY PoolInvariant, PTL DEF PoolInv

(* What is read downstream, even after Unref, is what was sent.            *)
THEOREM PoolReadsWhatWasSent == Spec => []ReadsWhatWasSent
BY PoolInvariant, PTL DEF PoolInv

(* Pooled objects are clean, and a consumed object is never pooled again.  *)
THEOREM PoolClean == Spec => []PoolIsClean
BY PoolInvariant, PTL DEF PoolInv
=============================================================================
