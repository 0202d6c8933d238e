----------------------------- MODULE PeakBuffer -----------------------------
(***************************************************************************)
(* The peak buffer of the FFT processor.  Every demultiplexer worker calls *)
(* DetectPeaks on the one processor, and every call detects into the array *)
(* behind p.peakBuf, without a lock: the slice header is the caller's own, *)
(* the array is shared until an append outgrows it.  The peak that ends in *)
(* the measurement is copied out of that array by Calculate.               *)
(*                                                                         *)
(* A cell stands for one PeakInfo: the words CFARDetect fills in (det) and *)
(* the words the subpixel pass fills in (sub), each given by the frame     *)
(* whose data they come from, 0 for a zero value.  The accesses race, so   *)
(* each word is read and written in a step of its own.                     *)
(***************************************************************************)
EXTENDS Integers, Sequences, FiniteSets

CONSTANTS
  PeakWorkers,   \* the callers: goroutines of the demultiplexer
  BufCap,        \* capacity of peakBuf; 100 in NewProcessor
  MaxPeaks,      \* bound: peaks found in one frame
  MaxPeakFrames  \* bound: frames

ASSUME PeakAssumption ==
  /\ IsFiniteSet(PeakWorkers)
  /\ BufCap \in Nat \ {0}
  /\ MaxPeaks \in Nat
  /\ MaxPeakFrames \in Nat

VARIABLES
  buf,     \* the shared array
  own,     \* the array a worker's slice moved to when it grew
  grown,   \* whether the worker's slice has moved
  ppc,     \* where each worker is
  frame,   \* the frame each worker works on
  n,       \* length of the worker's slice
  at,      \* the worker's position in the loop it is in
  kept,    \* peaks kept so far by the suppressor
  copy,    \* the peak a worker holds in a local variable
  taken,   \* frames taken so far
  met      \* history: frames in work at some time since the worker took its own

vars == <<buf, own, grown, ppc, frame, n, at, kept, copy, taken, met>>

Frames == 1..MaxPeakFrames
Zero == [det |-> 0, sub |-> 0]
PeakPlaces == {"idle", "detect", "literal", "move", "suppress", "compact1", "compact2",
               "enrich", "select", "copy1", "copy2", "done"}

Active == {w \in PeakWorkers : ppc[w] \notin {"idle", "done"}}

At(w, from) == ppc[w] = from
To(w, to) == ppc' = [ppc EXCEPT ![w] = to]

CellOf(w, k) == IF grown[w] THEN own[w][k] ELSE buf[k]

Put(w, k, field, v) ==
  IF grown[w]
    THEN own' = [own EXCEPT ![w][k] = [@ EXCEPT ![field] = v]] /\ UNCHANGED buf
    ELSE buf' = [buf EXCEPT ![k] = [@ EXCEPT ![field] = v]] /\ UNCHANGED own

-----------------------------------------------------------------------------
(* A worker enters DetectPeaks with the empty slice of p.peakBuf.          *)
EnterDetect(w) ==
  /\ At(w, "idle") \/ At(w, "done")
  /\ taken < MaxPeakFrames
  /\ taken' = taken + 1
  /\ frame' = [frame EXCEPT ![w] = taken + 1]
  /\ n' = [n EXCEPT ![w] = 0]
  /\ grown' = [grown EXCEPT ![w] = FALSE]
  /\ own' = [own EXCEPT ![w] = <<>>]
  /\ copy' = [copy EXCEPT ![w] = Zero]
  /\ met' = [v \in PeakWorkers |->
               CASE v = w -> UNION {met[u] \cup {frame[u]} : u \in Active}
                 [] v # w /\ v \in Active -> met[v] \cup {taken + 1}
                 [] OTHER -> met[v]]
  /\ To(w, "detect")
  /\ UNCHANGED <<buf, at, kept>>

(* CFARDetect: append, in the shared array while it has room.  The copy of *)
(* a literal into its slot is two words; the length is the worker's own.   *)
Found(w) ==
  /\ At(w, "detect")
  /\ n[w] < MaxPeaks
  /\ n[w] < BufCap \/ grown[w]
  /\ IF grown[w]
       THEN /\ own' = [own EXCEPT ![w] = Append(@, [det |-> frame[w], sub |-> 0])]
            /\ UNCHANGED buf
            /\ n' = [n EXCEPT ![w] = @ + 1]
            /\ UNCHANGED ppc
       ELSE /\ Put(w, n[w] + 1, "det", frame[w])
            /\ To(w, "literal")
            /\ UNCHANGED n
  /\ UNCHANGED <<grown, frame, at, kept, copy, taken, met>>

(* The rest of the literal.                                                *)
FoundRest(w) ==
  /\ At(w, "literal")
  /\ Put(w, n[w] + 1, "sub", 0)
  /\ n' = [n EXCEPT ![w] = @ + 1]
  /\ To(w, "detect")
  /\ UNCHANGED <<grown, frame, at, kept, copy, taken, met>>

(* An append to a full array moves the elements, one by one, to an array   *)
(* of the worker's own and appends there.                                  *)
Outgrow(w) ==
  /\ At(w, "detect")
  /\ n[w] = BufCap /\ n[w] < MaxPeaks /\ ~grown[w]
  /\ at' = [at EXCEPT ![w] = 1]
  /\ To(w, "move")
  /\ UNCHANGED <<buf, own, grown, frame, n, kept, copy, taken, met>>

MoveOne(w) ==
  /\ At(w, "move")
  /\ at[w] <= BufCap
  /\ own' = [own EXCEPT ![w] = Append(@, buf[at[w]])]
  /\ at' = [at EXCEPT ![w] = @ + 1]
  /\ UNCHANGED <<buf, grown, ppc, frame, n, kept, copy, taken, met>>

Moved(w) ==
  /\ At(w, "move")
  /\ at[w] > BufCap
  /\ own' = [own EXCEPT ![w] = Append(@, [det |-> frame[w], sub |-> 0])]
  /\ grown' = [grown EXCEPT ![w] = TRUE]
  /\ n' = [n EXCEPT ![w] = @ + 1]
  /\ To(w, "detect")
  /\ UNCHANGED <<buf, frame, at, kept, copy, taken, met>>

(* The scan of the grid ends.                                              *)
EndDetect(w) ==
  /\ At(w, "detect")
  /\ at' = [at EXCEPT ![w] = 1]
  /\ kept' = [kept EXCEPT ![w] = 0]
  /\ To(w, IF n[w] < 2 THEN "enrich" ELSE "suppress")
  /\ UNCHANGED <<buf, own, grown, frame, n, copy, taken, met>>

-----------------------------------------------------------------------------
(* The suppressor compacts the slice in place: it copies peak after peak   *)
(* and appends those it keeps to peaks[:0].  Which ones it keeps is left   *)
(* open, but for what Multipath shows: never none of them.                 *)
LoadPeak(w) ==
  /\ At(w, "suppress")
  /\ at[w] <= n[w]
  /\ copy' = [copy EXCEPT ![w] = CellOf(w, at[w])]
  /\ at' = [at EXCEPT ![w] = @ + 1]
  /\ \/ To(w, "compact1")
     \/ (at[w] < n[w] \/ kept[w] > 0) /\ To(w, "suppress")
  /\ UNCHANGED <<buf, own, grown, frame, n, kept, taken, met>>

StorePeak(w) ==
  /\ At(w, "compact1")
  /\ Put(w, kept[w] + 1, "det", copy[w].det)
  /\ To(w, "compact2")
  /\ UNCHANGED <<grown, frame, n, at, kept, copy, taken, met>>

StorePeakRest(w) ==
  /\ At(w, "compact2")
  /\ Put(w, kept[w] + 1, "sub", copy[w].sub)
  /\ kept' = [kept EXCEPT ![w] = @ + 1]
  /\ To(w, "suppress")
  /\ UNCHANGED <<grown, frame, n, at, copy, taken, met>>

EndSuppress(w) ==
  /\ At(w, "suppress")
  /\ at[w] > n[w]
  /\ n' = [n EXCEPT ![w] = kept[w]]
  /\ kept' = [kept EXCEPT ![w] = 0]
  /\ at' = [at EXCEPT ![w] = 1]
  /\ copy' = [copy EXCEPT ![w] = Zero]
  /\ To(w, "enrich")
  /\ UNCHANGED <<buf, own, grown, frame, taken, met>>

(* The subpixel pass: what it writes is computed from this frame's matrix. *)
EnrichFirstOnly(w) ==  \* mutant: only the first peak is refined
  /\ At(w, "enrich")
  /\ at[w] <= n[w]
  /\ Put(w, at[w], "sub", frame[w])
  /\ at' = [at EXCEPT ![w] = n[w] + 1]
  /\ UNCHANGED <<grown, ppc, frame, n, kept, copy, taken, met>>

Enrich(w) ==
  /\ At(w, "enrich")
  /\ at[w] <= n[w]
  /\ Put(w, at[w], "sub", frame[w])
  /\ at' = [at EXCEPT ![w] = @ + 1]
  /\ UNCHANGED <<grown, ppc, frame, n, kept, copy, taken, met>>

EndEnrich(w) ==
  /\ At(w, "enrich")
  /\ at[w] > n[w]
  /\ To(w, "select")
  /\ UNCHANGED <<buf, own, grown, frame, n, at, kept, copy, taken, met>>

(* selectValidPeak returns a pointer into the slice, or nil; Calculate     *)
(* dereferences it at its end.                                             *)
SelectAny(w) ==  \* mutant: the selection ranges over the whole array
  /\ At(w, "select")
  /\ IF n[w] > 0
       THEN \E k \in 1..(IF grown[w] THEN n[w] ELSE BufCap) :
              at' = [at EXCEPT ![w] = k] /\ To(w, "copy1")
       ELSE at' = at /\ To(w, "done")
  /\ UNCHANGED <<buf, own, grown, frame, n, kept, copy, taken, met>>

SelectPeak(w) ==
  /\ At(w, "select")
  /\ \/ \E k \in 1..n[w] : at' = [at EXCEPT ![w] = k] /\ To(w, "copy1")
     \/ at' = [at EXCEPT ![w] = 1] /\ To(w, "done")
  /\ UNCHANGED <<buf, own, grown, frame, n, kept, copy, taken, met>>

CopyPeak(w) ==
  /\ At(w, "copy1")
  /\ copy' = [copy EXCEPT ![w].det = CellOf(w, at[w]).det]
  /\ To(w, "copy2")
  /\ UNCHANGED <<buf, own, grown, frame, n, at, kept, taken, met>>

CopyPeakRest(w) ==
  /\ At(w, "copy2")
  /\ copy' = [copy EXCEPT ![w].sub = CellOf(w, at[w]).sub]
  /\ at' = [at EXCEPT ![w] = 1]
  /\ own' = [own EXCEPT ![w] = <<>>]
  /\ grown' = [grown EXCEPT ![w] = FALSE]
  /\ n' = [n EXCEPT ![w] = 0]
  /\ To(w, "done")
  /\ UNCHANGED <<buf, frame, kept, taken, met>>

Init ==
  /\ buf = [k \in 1..BufCap |-> Zero]
  /\ own = [w \in PeakWorkers |-> <<>>]
  /\ grown = [w \in PeakWorkers |-> FALSE]
  /\ ppc = [w \in PeakWorkers |-> "idle"]
  /\ frame = [w \in PeakWorkers |-> 0]
  /\ n = [w \in PeakWorkers |-> 0]
  /\ at = [w \in PeakWorkers |-> 1]
  /\ kept = [w \in PeakWorkers |-> 0]
  /\ copy = [w \in PeakWorkers |-> Zero]
  /\ taken = 0
  /\ met = [w \in PeakWorkers |-> {}]

PeakStep(w) ==
  \/ EnterDetect(w)
  \/ Found(w) \/ FoundRest(w) \/ Outgrow(w) \/ MoveOne(w) \/ Moved(w) \/ EndDetect(w)
  \/ LoadPeak(w) \/ StorePeak(w) \/ StorePeakRest(w) \/ EndSuppress(w)
  \/ Enrich(w) \/ EndEnrich(w)
  \/ SelectPeak(w) \/ CopyPeak(w) \/ CopyPeakRest(w)

Next == \E w \in PeakWorkers : PeakStep(w)

Spec == Init /\ [][Next]_vars

-----------------------------------------------------------------------------
Delivered(w) == ppc[w] = "done" /\ copy[w] # Zero

(* A frame that no other call overlapped is measured by a peak of its own, *)
(* with the subpixel values of its own: nothing that earlier frames left   *)
(* in the shared array shows through.  With one worker that is every       *)
(* frame; the shipped four workers give no such guarantee.                 *)
UndisturbedIsOwn ==
  \A w \in PeakWorkers :
    Delivered(w) /\ met[w] = {} => copy[w] = [det |-> frame[w], sub |-> frame[w]]

(* How far the race reaches: a measurement may carry the peak of another   *)
(* frame, or words of two, but only of frames whose calls overlapped its   *)
(* own, directly or through a chain of overlapping calls.                  *)
MixesOnlyOverlapping ==
  \A w \in PeakWorkers :
    Delivered(w) => {copy[w].det, copy[w].sub} \subseteq met[w] \cup {frame[w]} \cup {0}
=============================================================================
