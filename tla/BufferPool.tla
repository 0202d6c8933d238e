----------------------------- MODULE BufferPool -----------------------------
(***************************************************************************)
(* Who owns a pooled object.  The listener's UDP frames, the framer's raw  *)
(* frames and the processor's results follow one protocol: a worker of the *)
(* stage takes an object from its sync.Pool, fills it, and either sends it *)
(* to the next stage or, when that is full or the stage is stopping,       *)
(* clears it and puts it back; a worker of the next stage receives it,     *)
(* calls Unref once and may read it a little longer.  There is one such    *)
(* pool per instance of this module.                                       *)
(*                                                                         *)
(* The content of an object is the number of the item it was filled with,  *)
(* 0 when it has been cleared.  Objects start with a reference count of 0. *)
(***************************************************************************)
EXTENDS Integers, Sequences, FiniteSets

CONSTANTS
  Objects,     \* objects that the pool's New may ever make
  Producers,   \* workers of the stage that gets objects
  Consumers,   \* workers of the stage that receives them
  ChCap,       \* capacity of the channel between the two
  NoObject,    \* in nobody's hand
  MaxItems     \* bound: items filled in

ASSUME PoolAssumption ==
  /\ NoObject \notin Objects
  /\ ChCap \in Nat \ {0}
  /\ MaxItems \in Nat

VARIABLES
  unmade,    \* objects New has not made yet
  free,      \* objects in the sync.Pool
  content,   \* what each object holds
  refCount,  \* reference count of each object
  bpc,       \* where each producer is
  hand,      \* the object in each producer's hand
  ch,        \* the channel: objects, with the item each was sent for (history)
  cpc,       \* where each consumer is
  have,      \* what each consumer received last
  filled,    \* items filled in so far
  stopping   \* the producers' context is cancelled

poolVars == <<unmade, free, content, refCount>>
vars == <<poolVars, bpc, hand, ch, cpc, have, filled, stopping>>

Envelope == [object : Objects, item : Nat]
NoEnvelope == [object |-> NoObject, item |-> 0]

BGo(p, from, to) == bpc[p] = from /\ bpc' = [bpc EXCEPT ![p] = to]
CGo(c, from, to) == cpc[c] = from /\ cpc' = [cpc EXCEPT ![c] = to]

-----------------------------------------------------------------------------
(* A stopping worker may still get objects: it is only stopped where it    *)
(* looks at its context.                                                   *)
Quit(p) ==
  /\ stopping
  /\ BGo(p, "idle", "exit")
  /\ UNCHANGED <<poolVars, hand, ch, cpc, have, filled, stopping>>

(* Get: an object put back before, or a new one.                           *)
Get(p) ==
  /\ BGo(p, "idle", "empty")
  /\ \E b \in free \cup unmade :
       /\ hand' = [hand EXCEPT ![p] = b]
       /\ free' = free \ {b}
       /\ unmade' = unmade \ {b}
  /\ UNCHANGED <<content, refCount, ch, cpc, have, filled, stopping>>

Fill(p) ==
  /\ BGo(p, "empty", "full")
  /\ filled < MaxItems
  /\ filled' = filled + 1
  /\ content' = [content EXCEPT ![hand[p]] = filled + 1]
  /\ UNCHANGED <<unmade, free, refCount, hand, ch, cpc, have, stopping>>

SendAndPut(p) ==  \* mutant: a deferred Put also runs after the send
  /\ Len(ch) < ChCap
  /\ BGo(p, "full", "idle")
  /\ ch' = Append(ch, [object |-> hand[p], item |-> content[hand[p]]])
  /\ free' = free \cup {hand[p]}
  /\ hand' = [hand EXCEPT ![p] = NoObject]
  /\ UNCHANGED <<unmade, content, refCount, cpc, have, filled, stopping>>

Send(p) ==
  /\ Len(ch) < ChCap
  /\ BGo(p, "full", "idle")
  /\ ch' = Append(ch, [object |-> hand[p], item |-> content[hand[p]]])
  /\ hand' = [hand EXCEPT ![p] = NoObject]
  /\ UNCHANGED <<poolVars, cpc, have, filled, stopping>>

PutUncleared(p) ==  \* mutant: the clearing loop is gone
  /\ stopping \/ Len(ch) >= ChCap
  /\ BGo(p, "full", IF stopping THEN "exit" ELSE "idle")
  /\ free' = free \cup {hand[p]}
  /\ hand' = [hand EXCEPT ![p] = NoObject]
  /\ UNCHANGED <<unmade, content, refCount, ch, cpc, have, filled, stopping>>

(* Put, on the two paths that give an object up: the context is done, or   *)
(* the channel is full.                                                    *)
Put(p) ==
  /\ stopping \/ Len(ch) >= ChCap
  /\ BGo(p, "full", IF stopping THEN "exit" ELSE "idle")
  /\ content' = [content EXCEPT ![hand[p]] = 0]
  /\ free' = free \cup {hand[p]}
  /\ hand' = [hand EXCEPT ![p] = NoObject]
  /\ UNCHANGED <<unmade, refCount, ch, cpc, have, filled, stopping>>

Receive(c) ==
  /\ ch # <<>>
  /\ CGo(c, "idle", "got")
  /\ have' = [have EXCEPT ![c] = Head(ch)]
  /\ ch' = Tail(ch)
  /\ UNCHANGED <<poolVars, bpc, hand, filled, stopping>>

UnrefToPool(c) ==  \* mutant: Unref puts the object back, as a pool would want
  /\ CGo(c, "got", "released")
  /\ free' = free \cup {have[c].object}
  /\ content' = [content EXCEPT ![have[c].object] = 0]
  /\ UNCHANGED <<unmade, refCount, bpc, hand, ch, have, filled, stopping>>

(* Unref truncates the object when the count comes to exactly 0.  The code *)
(* never calls Ref on these objects, so the count goes from 0 to -1.       *)
Unref(c) ==
  LET b == have[c].object
  IN  /\ CGo(c, "got", "released")
      /\ refCount' = [refCount EXCEPT ![b] = @ - 1]
      /\ content' = IF refCount[b] - 1 = 0 THEN [content EXCEPT ![b] = 0] ELSE content
      /\ UNCHANGED <<unmade, free, bpc, hand, ch, have, filled, stopping>>

(* The last use, after Unref: the framer adds the frame's length to its    *)
(* counter.  Then the worker forgets the object.                           *)
LastUse(c) ==
  /\ CGo(c, "released", "idle")
  /\ have' = [have EXCEPT ![c] = NoEnvelope]
  /\ UNCHANGED <<poolVars, bpc, hand, ch, filled, stopping>>

(* The garbage collector may empty a sync.Pool.                            *)
Collect ==
  /\ \E b \in free : free' = free \ {b}
  /\ UNCHANGED <<unmade, content, refCount, bpc, hand, ch, cpc, have, filled, stopping>>

Stop ==
  /\ ~stopping
  /\ stopping' = TRUE
  /\ UNCHANGED <<poolVars, bpc, hand, ch, cpc, have, filled>>

Init ==
  /\ unmade = Objects
  /\ free = {}
  /\ content = [b \in Objects |-> 0]
  /\ refCount = [b \in Objects |-> 0]
  /\ bpc = [p \in Producers |-> "idle"]
  /\ hand = [p \in Producers |-> NoObject]
  /\ ch = <<>>
  /\ cpc = [c \in Consumers |-> "idle"]
  /\ have = [c \in Consumers |-> NoEnvelope]
  /\ filled = 0
  /\ stopping = FALSE

Next ==
  \/ \E p \in Producers : Quit(p) \/ Get(p) \/ Fill(p) \/ Send(p) \/ Put(p)
  \/ \E c \in Consumers : Receive(c) \/ Unref(c) \/ LastUse(c)
  \/ Collect \/ Stop

Spec == Init /\ [][Next]_vars

-----------------------------------------------------------------------------
TypeOK ==
  /\ unmade \subseteq Objects
  /\ free \subseteq Objects
  /\ content \in [Objects -> Nat]
  /\ refCount \in [Objects -> Int]
  /\ bpc \in [Producers -> {"idle", "empty", "full", "exit"}]
  /\ hand \in [Producers -> Objects \cup {NoObject}]
  /\ ch \in Seq(Envelope) /\ Len(ch) <= ChCap
  /\ cpc \in [Consumers -> {"idle", "got", "released"}]
  /\ have \in [Consumers -> Envelope \cup {NoEnvelope}]
  /\ filled \in Nat
  /\ stopping \in BOOLEAN
  /\ \A p \in Producers : hand[p] = NoObject <=> bpc[p] \in {"idle", "exit"}
  /\ \A c \in Consumers : have[c] = NoEnvelope <=> cpc[c] = "idle"

Holding == {p \in Producers : hand[p] # NoObject}
Using == {c \in Consumers : cpc[c] # "idle"}

(* An object has one owner: a producer's hand, the channel, a consumer     *)
(* (also after its Unref), or the pool; never two of them, and never two   *)
(* of the same kind.                                                       *)
OneOwner ==
  /\ \A p, q \in Holding : hand[p] = hand[q] => p = q
  /\ \A i, j \in 1..Len(ch) : ch[i].object = ch[j].object => i = j
  /\ \A c, d \in Using : have[c].object = have[d].object => c = d
  /\ \A p \in Holding : hand[p] \notin free \cup unmade
  /\ \A i \in 1..Len(ch) :
       /\ ch[i].object \notin free \cup unmade
       /\ \A p \in Holding : ch[i].object # hand[p]
  /\ \A c \in Using :
       /\ have[c].object \notin free \cup unmade
       /\ \A p \in Holding : have[c].object # hand[p]
       /\ \A i \in 1..Len(ch) : have[c].object # ch[i].object

(* A consumer reads what was sent to it, also between its Unref and its    *)
(* last use: nobody refills or clears the object under it.                 *)
ReadsWhatWasSent ==
  /\ \A i \in 1..Len(ch) : content[ch[i].object] = ch[i].item
  /\ \A c \in Using : content[have[c].object] = have[c].item

(* An object from the pool carries no residue of an earlier item, and one  *)
(* that was consumed is never pooled again: its count is -1 for good.  The *)
(* pools only recycle what was given up.                                   *)
PoolIsClean ==
  \A b \in free \cup unmade : content[b] = 0 /\ refCount[b] = 0
=============================================================================
