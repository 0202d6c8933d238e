--------------------------- MODULE PeakBufferProofs ---------------------------
(***************************************************************************)
(* How far the race on the peak buffer reaches, for any workers, capacity  *)
(* and number of peaks.                                                    *)
(*                                                                         *)
(* All calls that are in work at one time have seen the same frames: each  *)
(* its own and those it met (Chain).  So a word that one of them writes    *)
(* into the shared array is a word that each of the others may find there, *)
(* and the part of the array behind a slice holds nothing else (Sound).    *)
(* A worker that has met nobody is alone (Meets), and what it finds is     *)
(* its own (Pure).                                                         *)
(***************************************************************************)
EXTENDS PeakBuffer, TLAPS

Cell == [det : Nat, sub : Nat]

Types ==
  /\ buf \in [1..BufCap -> Cell]
  /\ own \in [PeakWorkers -> Seq(Cell)]
  /\ grown \in [PeakWorkers -> BOOLEAN]
  /\ ppc \in [PeakWorkers -> PeakPlaces]
  /\ frame \in [PeakWorkers -> Nat]
  /\ n \in [PeakWorkers -> Nat]
  /\ at \in [PeakWorkers -> Nat]
  /\ kept \in [PeakWorkers -> Nat]
  /\ copy \in [PeakWorkers -> Cell]
  /\ taken \in Nat
  /\ met \in [PeakWorkers -> SUBSET Nat]

(* The frames that may show in what a worker reads.                        *)
Reach(w) == met[w] \cup {frame[w]}
Seen(w) == Reach(w) \cup {0}

Chain == \A u, w \in Active : Reach(u) = Reach(w)
Meets == \A u, w \in Active : u # w => frame[u] \in met[w]

(* The extent of a worker's slice and its position in it.                  *)
Shape(w) ==
  /\ IF grown[w] THEN n[w] <= Len(own[w]) ELSE n[w] <= BufCap
  /\ ~grown[w] /\ ppc[w] # "move" => own[w] = <<>>
  /\ grown[w] /\ ppc[w] = "detect" => Len(own[w]) = n[w]
  /\ ppc[w] = "literal" => ~grown[w] /\ n[w] < BufCap
  /\ ppc[w] = "move" =>
       ~grown[w] /\ n[w] = BufCap /\ at[w] = Len(own[w]) + 1 /\ at[w] <= BufCap + 1
  /\ ppc[w] = "suppress" => kept[w] < at[w] /\ at[w] <= n[w] + 1
  /\ ppc[w] \in {"compact1", "compact2"} => kept[w] + 1 < at[w] /\ at[w] <= n[w] + 1
  /\ ppc[w] = "enrich" => at[w] \in 1..(n[w] + 1)
  /\ ppc[w] \in {"copy1", "copy2"} => at[w] \in 1..n[w]

From(c, frames) == c.det \in frames /\ c.sub \in frames

(* What a worker at work can read: its slice, the half written literal     *)
(* behind it, the elements moved so far.                                   *)
SliceSound(w) ==
  /\ \A k \in 1..n[w] : From(CellOf(w, k), Seen(w))
  /\ ppc[w] = "literal" => buf[n[w] + 1].det \in Seen(w)
  /\ ppc[w] = "move" => \A k \in 1..Len(own[w]) : From(own[w][k], Seen(w))

Sound(w) ==
  /\ w \in Active => Shape(w) /\ SliceSound(w)
  /\ From(copy[w], Seen(w))

RaceInv ==
  /\ Types
  /\ Chain
  /\ Meets
  /\ \A w \in PeakWorkers : Sound(w)

(* What a worker has that met nobody: frames of its own, once the subpixel *)
(* pass has been there in both words.                                      *)
Alone(w) ==
  /\ \A k \in 1..n[w] : CellOf(w, k).det = frame[w]
  /\ ppc[w] = "literal" => buf[n[w] + 1].det = frame[w]
  /\ ppc[w] = "move" => \A k \in 1..Len(own[w]) : own[w][k].det = frame[w]
  /\ ppc[w] \in {"compact1", "compact2", "copy2"} => copy[w].det = frame[w]
  /\ ppc[w] \in {"detect", "literal", "move", "enrich", "select"} => copy[w] = Zero
  /\ ppc[w] = "enrich" => \A k \in 1..(at[w] - 1) : CellOf(w, k).sub = frame[w]
  /\ ppc[w] \in {"select", "copy1", "copy2"} => \A k \in 1..n[w] : CellOf(w, k).sub = frame[w]

Pure(w) ==
  met[w] = {} =>
    /\ w \in Active => Alone(w)
    /\ ppc[w] = "done" => copy[w] \in {Zero, [det |-> frame[w], sub |-> frame[w]]}

-----------------------------------------------------------------------------
(* Writing one word of one element of a slice.                             *)
With(c, field, v) ==
  IF field = "det" THEN [det |-> v, sub |-> c.sub] ELSE [det |-> c.det, sub |-> v]

LEMMA ExceptIsWith ==
  ASSUME NEW c \in Cell, NEW field \in {"det", "sub"}, NEW v \in Nat
  PROVE  /\ [c EXCEPT ![field] = v] = With(c, field, v)
         /\ With(c, field, v) \in Cell
<1>1. CASE field = "det"
  <2>1. [c EXCEPT ![field] = v] = [c EXCEPT !["det"] = v]
    BY <1>1
  <2>2. [c EXCEPT !.det = v] = [det |-> v, sub |-> c.sub]
    BY DEF Cell
  <2>3. With(c, field, v) = [det |-> v, sub |-> c.sub]
    BY <1>1 DEF With
  <2>4. [det |-> v, sub |-> c.sub] \in Cell
    BY DEF Cell
  <2>. QED
    BY <2>1, <2>2, <2>3, <2>4
<1>2. CASE field = "sub"
  <2>1. [c EXCEPT ![field] = v] = [c EXCEPT !["sub"] = v]
    BY <1>2
  <2>2. [c EXCEPT !.sub = v] = [det |-> c.det, sub |-> v]
    BY DEF Cell
  <2>3. With(c, field, v) = [det |-> c.det, sub |-> v]
    BY <1>2 DEF With
  <2>4. [det |-> c.det, sub |-> v] \in Cell
    BY DEF Cell
  <2>. QED
    BY <2>1, <2>2, <2>3, <2>4
<1>. QED
  BY <1>1, <1>2

(* The element at a position of a worker's slice, in any two states.       *)
View(b, o, g, w, k) == IF g[w] THEN o[w][k] ELSE b[k]

Extent(w) == IF grown[w] THEN Len(own[w]) ELSE BufCap

LEMMA PutEffect ==
  ASSUME Types, NEW w \in PeakWorkers, NEW k \in Nat \ {0}, k <= Extent(w),
         NEW field \in {"det", "sub"}, NEW v \in Nat, Put(w, k, field, v), grown' = grown
  PROVE  /\ buf' \in [1..BufCap -> Cell] /\ own' \in [PeakWorkers -> Seq(Cell)]
         /\ \A u \in PeakWorkers \ {w} : own'[u] = own[u]
         /\ Len(own'[w]) = Len(own[w])
         /\ ~grown[w] => own' = own
         /\ \A j \in 1..BufCap : buf'[j] \in {buf[j], With(buf[j], field, v)}
         /\ \A j \in 1..Extent(w) :
              View(buf', own', grown', w, j) =
                IF j = k THEN With(View(buf, own, grown, w, j), field, v)
                ELSE View(buf, own, grown, w, j)
<1>1. CASE grown[w]
  <2>1. k \in 1..Len(own[w]) /\ own[w] \in Seq(Cell) /\ own[w][k] \in Cell
    BY <1>1 DEF Types, Extent
  <2>2. [own[w][k] EXCEPT ![field] = v] = With(own[w][k], field, v)
        /\ With(own[w][k], field, v) \in Cell
    BY <2>1, ExceptIsWith
  <2>. DEFINE s == [own[w] EXCEPT ![k] = With(own[w][k], field, v)]
  <2>3. buf' = buf /\ own' = [own EXCEPT ![w] = s]
    BY <1>1, <2>1, <2>2 DEF Put, Types
  <2>4. s \in Seq(Cell) /\ Len(s) = Len(own[w])
        /\ \A j \in 1..Len(own[w]) :
             s[j] = IF j = k THEN With(own[w][k], field, v) ELSE own[w][j]
    BY <2>1, <2>2
  <2>. HIDE DEF s
  <2>5. own' \in [PeakWorkers -> Seq(Cell)] /\ own'[w] = s
        /\ \A u \in PeakWorkers \ {w} : own'[u] = own[u]
    BY <2>3, <2>4 DEF Types
  <2>. QED
    BY <1>1, <2>3, <2>4, <2>5 DEF Types, View, Extent
<1>2. CASE ~grown[w]
  <2>1. k \in 1..BufCap /\ buf[k] \in Cell
    BY <1>2, PeakAssumption DEF Types, Extent
  <2>2. [buf[k] EXCEPT ![field] = v] = With(buf[k], field, v)
        /\ With(buf[k], field, v) \in Cell
    BY <2>1, ExceptIsWith
  <2>3. own' = own /\ buf' = [buf EXCEPT ![k] = With(buf[k], field, v)]
    BY <1>2, <2>1, <2>2 DEF Put, Types
  <2>. QED
    BY <1>2, <2>1, <2>2, <2>3 DEF Types, View, Extent
<1>. QED
  BY <1>1, <1>2

-----------------------------------------------------------------------------
(* What a step of a worker at work leaves to the others.                   *)
Same(u) ==
  /\ own'[u] = own[u] /\ grown'[u] = grown[u] /\ ppc'[u] = ppc[u] /\ n'[u] = n[u]
  /\ at'[u] = at[u] /\ kept'[u] = kept[u] /\ copy'[u] = copy[u]

Wrote(w) ==
  \A k \in 1..BufCap : /\ buf'[k].det \in {buf[k].det} \cup Seen(w)
                       /\ buf'[k].sub \in {buf[k].sub} \cup Seen(w)

Deed(w) ==
  /\ w \in Active
  /\ Types'
  /\ frame' = frame /\ met' = met
  /\ \A u \in PeakWorkers \ {w} : Same(u)
  /\ Wrote(w)
  /\ Sound(w)'

LEMMA DeedKeeps ==
  ASSUME RaceInv, NEW w \in PeakWorkers, Deed(w)
  PROVE  RaceInv'
<1>1. Active' \subseteq Active
  BY DEF Deed, Same, Active
<1>2. \A u \in PeakWorkers : Reach(u)' = Reach(u) /\ Seen(u)' = Seen(u)
  BY DEF Deed, Reach, Seen
<1>3. Chain' /\ Meets'
  BY <1>1, <1>2 DEF RaceInv, Chain, Meets, Deed, Active
<1>4. ASSUME NEW u \in PeakWorkers \ {w}
      PROVE  Sound(u)'
  <2>1. Same(u) /\ Sound(u)
    BY <1>4 DEF Deed, RaceInv
  <2>2. From(copy[u], Seen(u))'
    BY <1>2, <2>1 DEF Same, Sound, From
  <2>3. ASSUME u \in Active'
        PROVE  Shape(u)' /\ SliceSound(u)'
    <3>1. u \in Active /\ Shape(u) /\ SliceSound(u)
      BY <1>1, <2>1, <2>3 DEF Sound
    <3>2. Shape(u)'
      BY <2>1, <3>1 DEF Shape, Same
    <3>3. Seen(u) = Seen(w)
      BY <3>1 DEF Deed, RaceInv, Chain, Seen
    <3>4. \A k \in 1..BufCap : From(buf[k], Seen(u)) => From(buf'[k], Seen(u))
      BY <3>3 DEF Deed, Wrote, From
    <3>5. \A k \in 1..BufCap : buf[k].det \in Seen(u) => buf'[k].det \in Seen(u)
      BY <3>3 DEF Deed, Wrote
    <3>6. n[u] \in Nat /\ BufCap \in Nat
      BY PeakAssumption DEF RaceInv, Types
    <3>7. \A k \in 1..n'[u] : From(CellOf(u, k)', Seen(u))
      <4>1. CASE grown[u]
        BY <2>1, <3>1, <4>1 DEF SliceSound, Same, CellOf
      <4>2. CASE ~grown[u]
        <5>1. \A k \in 1..n[u] : k \in 1..BufCap
          BY <3>1, <3>6, <4>2 DEF Shape
        <5>. QED
          BY <2>1, <3>1, <3>4, <4>2, <5>1 DEF SliceSound, Same, CellOf
      <4>. QED
        BY <4>1, <4>2
    <3>8. ppc'[u] = "literal" => buf'[n'[u] + 1].det \in Seen(u)
      <4>1. ppc[u] = "literal" => n[u] + 1 \in 1..BufCap
        BY <3>1, <3>6 DEF Shape
      <4>. QED
        BY <2>1, <3>1, <3>5, <4>1 DEF SliceSound, Same
    <3>9. ppc'[u] = "move" => \A k \in 1..Len(own'[u]) : From(own'[u][k], Seen(u))
      BY <2>1, <3>1 DEF SliceSound, Same
    <3>. QED
      BY <1>2, <3>2, <3>7, <3>8, <3>9 DEF SliceSound
  <2>. QED
    BY <2>2, <2>3 DEF Sound
<1>. QED
  BY <1>3, <1>4 DEF Deed, RaceInv

-----------------------------------------------------------------------------
(* What is known of a worker at work, piece by piece.                      *)
LEMMA AtWork ==
  ASSUME RaceInv, NEW w \in PeakWorkers, ppc[w] \notin {"idle", "done"}
  PROVE  /\ w \in Active /\ Shape(w) /\ SliceSound(w) /\ From(copy[w], Seen(w))
         /\ frame[w] \in Seen(w) /\ 0 \in Seen(w)
         /\ BufCap \in Nat \ {0} /\ n[w] \in Nat /\ at[w] \in Nat /\ kept[w] \in Nat
         /\ frame[w] \in Nat /\ copy[w] \in Cell /\ own[w] \in Seq(Cell)
         /\ grown[w] \in BOOLEAN
         /\ n[w] <= Extent(w) /\ Extent(w) \in Nat
         /\ \A k \in 1..Extent(w) : CellOf(w, k) \in Cell
<1>1. w \in Active /\ Sound(w) /\ Types
  BY DEF Active, RaceInv
<1>2. frame[w] \in Seen(w) /\ 0 \in Seen(w)
  BY DEF Seen, Reach
<1>3. BufCap \in Nat \ {0} /\ n[w] \in Nat /\ at[w] \in Nat /\ kept[w] \in Nat
      /\ frame[w] \in Nat /\ copy[w] \in Cell /\ own[w] \in Seq(Cell) /\ grown[w] \in BOOLEAN
  BY <1>1, PeakAssumption DEF Types
<1>4. n[w] <= Extent(w) /\ Extent(w) \in Nat
  BY <1>1, <1>3 DEF Sound, Shape, Extent
<1>5. \A k \in 1..Extent(w) : CellOf(w, k) \in Cell
  <2>1. \A k \in 1..Len(own[w]) : own[w][k] \in Cell
    BY <1>3
  <2>2. \A k \in 1..BufCap : buf[k] \in Cell
    BY <1>1 DEF Types
  <2>. QED
    BY <2>1, <2>2 DEF CellOf, Extent
<1>. QED
  BY <1>1, <1>2, <1>3, <1>4, <1>5 DEF Sound

LEMMA PutWrote ==
  ASSUME RaceInv, NEW w \in PeakWorkers, NEW field \in {"det", "sub"}, NEW v \in Seen(w),
         \A j \in 1..BufCap : buf'[j] \in {buf[j], With(buf[j], field, v)}
  PROVE  Wrote(w)
<1>1. \A j \in 1..BufCap :
        /\ With(buf[j], field, v).det \in {buf[j].det} \cup Seen(w)
        /\ With(buf[j], field, v).sub \in {buf[j].sub} \cup Seen(w)
  BY DEF With
<1>. QED
  BY <1>1 DEF Wrote

(* The two ways in which an append stays within its array.                 *)
LEMMA FoundInArray ==
  ASSUME RaceInv, NEW w \in PeakWorkers, Found(w), ~grown[w]
  PROVE  Deed(w)
<1>1. ppc[w] = "detect" /\ n[w] < BufCap /\ Types
  BY DEF Found, At, RaceInv
<1>2. /\ w \in Active /\ Shape(w) /\ SliceSound(w) /\ From(copy[w], Seen(w))
      /\ frame[w] \in Seen(w) /\ BufCap \in Nat \ {0} /\ n[w] \in Nat /\ frame[w] \in Nat
  BY <1>1, AtWork
<1>3. /\ Put(w, n[w] + 1, "det", frame[w]) /\ ppc' = [ppc EXCEPT ![w] = "literal"]
      /\ UNCHANGED <<n, grown, frame, at, kept, copy, taken, met>>
  BY DEF Found, To
<1>4. PICK k \in Nat \ {0} : k = n[w] + 1
  BY <1>2
<1>5. k <= Extent(w) /\ grown' = grown /\ Put(w, k, "det", frame[w])
  BY <1>1, <1>2, <1>3, <1>4 DEF Extent
<1>6. /\ buf' \in [1..BufCap -> Cell] /\ own' = own
      /\ \A j \in 1..BufCap : buf'[j] \in {buf[j], With(buf[j], "det", frame[w])}
      /\ \A j \in 1..BufCap :
           buf'[j] = IF j = k THEN With(buf[j], "det", frame[w]) ELSE buf[j]
  BY <1>1, <1>2, <1>5, PutEffect DEF View, Extent
<1>7. Wrote(w)
  BY <1>2, <1>6, PutWrote
<1>8. Types'
  BY <1>1, <1>3, <1>6 DEF Types, PeakPlaces
<1>9. Seen(w)' = Seen(w) /\ ppc'[w] = "literal"
  BY <1>1, <1>3 DEF Seen, Reach, Types
<1>10. Shape(w)'
  BY <1>1, <1>2, <1>3, <1>6, <1>9 DEF Shape
<1>11. SliceSound(w)'
  <2>1. \A j \in 1..n[w] : CellOf(w, j)' = CellOf(w, j)
    BY <1>1, <1>2, <1>3, <1>4, <1>6 DEF CellOf
  <2>2. buf'[n[w] + 1].det = frame[w]
    BY <1>1, <1>2, <1>4, <1>6 DEF With
  <2>. QED
    BY <1>2, <1>3, <1>9, <2>1, <2>2 DEF SliceSound
<1>12. \A u \in PeakWorkers \ {w} : Same(u)
  BY <1>1, <1>3, <1>6 DEF Same, Types
<1>. QED
  BY <1>2, <1>3, <1>7, <1>8, <1>9, <1>10, <1>11, <1>12 DEF Deed, Sound

LEMMA FoundInOwn ==
  ASSUME RaceInv, NEW w \in PeakWorkers, Found(w), grown[w]
  PROVE  Deed(w)
<1>. DEFINE new == [det |-> frame[w], sub |-> 0]
<1>1. ppc[w] = "detect" /\ Types
  BY DEF Found, At, RaceInv
<1>2. /\ w \in Active /\ Shape(w) /\ SliceSound(w) /\ From(copy[w], Seen(w))
      /\ frame[w] \in Seen(w) /\ 0 \in Seen(w) /\ n[w] \in Nat /\ frame[w] \in Nat
      /\ own[w] \in Seq(Cell)
  BY <1>1, AtWork
<1>3. /\ own' = [own EXCEPT ![w] = Append(@, new)] /\ n' = [n EXCEPT ![w] = @ + 1]
      /\ UNCHANGED <<buf, ppc, grown, frame, at, kept, copy, taken, met>>
  BY DEF Found
<1>4. /\ own'[w] = Append(own[w], new) /\ n'[w] = n[w] + 1
      /\ \A u \in PeakWorkers \ {w} : own'[u] = own[u] /\ n'[u] = n[u]
  BY <1>1, <1>3 DEF Types
<1>5. new \in Cell /\ Len(own[w]) = n[w]
  BY <1>1, <1>2 DEF Cell, Shape
<1>6. /\ own'[w] \in Seq(Cell) /\ Len(own'[w]) = n[w] + 1
      /\ \A j \in 1..(n[w] + 1) : own'[w][j] = IF j <= n[w] THEN own[w][j] ELSE new
  <2>. HIDE DEF new
  <2>. QED
    BY <1>2, <1>4, <1>5
<1>7. Types'
  <2>1. own' \in [PeakWorkers -> Seq(Cell)]
    BY <1>1, <1>3, <1>4, <1>6 DEF Types
  <2>. QED
    BY <1>1, <1>2, <1>3, <2>1 DEF Types
<1>8. Seen(w)' = Seen(w) /\ Wrote(w)
  BY <1>3 DEF Seen, Reach, Wrote
<1>9. Shape(w)'
  BY <1>1, <1>2, <1>3, <1>4, <1>6 DEF Shape
<1>10. SliceSound(w)'
  <2>1. From(new, Seen(w))
    BY <1>2 DEF From
  <2>2. \A j \in 1..n[w] : From(own[w][j], Seen(w))
    BY <1>2 DEF SliceSound, CellOf
  <2>3. \A j \in 1..(n[w] + 1) : From(own'[w][j], Seen(w))
    <3>. SUFFICES ASSUME NEW j \in 1..(n[w] + 1) PROVE From(own'[w][j], Seen(w))
      OBVIOUS
    <3>. HIDE DEF new
    <3>1. own'[w][j] = IF j <= n[w] THEN own[w][j] ELSE new
      BY <1>6
    <3>2. CASE j <= n[w]
      <4>1. j \in 1..n[w]
        BY <1>2, <3>2
      <4>. QED
        BY <2>2, <3>1, <3>2, <4>1
    <3>3. CASE ~(j <= n[w])
      BY <2>1, <3>1, <3>3
    <3>. QED
      BY <3>2, <3>3
  <2>. QED
    BY <1>1, <1>3, <1>4, <1>8, <2>3 DEF SliceSound, CellOf
<1>11. \A u \in PeakWorkers \ {w} : Same(u)
  BY <1>3, <1>4 DEF Same
<1>. QED
  BY <1>2, <1>3, <1>7, <1>8, <1>9, <1>10, <1>11 DEF Deed, Sound

LEMMA FoundRestDeed ==
  ASSUME RaceInv, NEW w \in PeakWorkers, FoundRest(w)
  PROVE  Deed(w)
<1>1. ppc[w] = "literal" /\ Types
  BY DEF FoundRest, At, RaceInv
<1>2. /\ w \in Active /\ Shape(w) /\ SliceSound(w) /\ From(copy[w], Seen(w))
      /\ 0 \in Seen(w) /\ BufCap \in Nat \ {0} /\ n[w] \in Nat
      /\ ~grown[w] /\ n[w] < BufCap /\ own[w] = <<>>
  BY <1>1, AtWork DEF Shape
<1>3. /\ Put(w, n[w] + 1, "sub", 0) /\ n' = [n EXCEPT ![w] = @ + 1]
      /\ ppc' = [ppc EXCEPT ![w] = "detect"]
      /\ UNCHANGED <<grown, frame, at, kept, copy, taken, met>>
  BY DEF FoundRest, To
<1>4. PICK k \in Nat \ {0} : k = n[w] + 1
  BY <1>2
<1>5. k <= Extent(w) /\ grown' = grown /\ Put(w, k, "sub", 0)
  BY <1>1, <1>2, <1>3, <1>4 DEF Extent
<1>6. /\ buf' \in [1..BufCap -> Cell] /\ own' = own
      /\ \A j \in 1..BufCap : buf'[j] \in {buf[j], With(buf[j], "sub", 0)}
      /\ \A j \in 1..BufCap : buf'[j] = IF j = k THEN With(buf[j], "sub", 0) ELSE buf[j]
  BY <1>1, <1>2, <1>5, PutEffect DEF View, Extent
<1>7. Wrote(w)
  BY <1>2, <1>6, PutWrote
<1>8. Types'
  <2>1. n' \in [PeakWorkers -> Nat]
    BY <1>1, <1>2, <1>3 DEF Types
  <2>2. ppc' \in [PeakWorkers -> PeakPlaces]
    BY <1>1, <1>3 DEF Types, PeakPlaces
  <2>. QED
    BY <1>1, <1>3, <1>6, <2>1, <2>2 DEF Types
<1>9. Seen(w)' = Seen(w) /\ ppc'[w] = "detect" /\ n'[w] = n[w] + 1
  BY <1>1, <1>3 DEF Seen, Reach, Types
<1>10. Shape(w)'
  BY <1>1, <1>2, <1>3, <1>6, <1>9 DEF Shape
<1>11. SliceSound(w)'
  <2>1. \A j \in 1..n[w] : From(buf'[j], Seen(w))
    BY <1>1, <1>2, <1>4, <1>6 DEF CellOf, SliceSound
  <2>2. From(buf'[n[w] + 1], Seen(w))
    BY <1>1, <1>2, <1>4, <1>6 DEF With, SliceSound, From
  <2>3. \A j \in 1..(n[w] + 1) : From(buf'[j], Seen(w))
    BY <1>2, <2>1, <2>2
  <2>. QED
    BY <1>2, <1>3, <1>9, <2>3 DEF SliceSound, CellOf
<1>12. \A u \in PeakWorkers \ {w} : Same(u)
  BY <1>1, <1>3, <1>6 DEF Same, Types
<1>. QED
  BY <1>2, <1>3, <1>7, <1>8, <1>9, <1>10, <1>11, <1>12 DEF Deed, Sound

(* An append that outgrows the array: the elements move, one at a time,    *)
(* with whatever they hold by then.                                        *)
LEMMA OutgrowDeed ==
  ASSUME RaceInv, NEW w \in PeakWorkers, Outgrow(w)
  PROVE  Deed(w)
<1>1. ppc[w] = "detect" /\ Types /\ ~grown[w] /\ n[w] = BufCap
  BY DEF Outgrow, At, RaceInv
<1>2. /\ w \in Active /\ Shape(w) /\ SliceSound(w) /\ From(copy[w], Seen(w))
      /\ BufCap \in Nat \ {0} /\ own[w] = <<>>
  BY <1>1, AtWork DEF Shape
<1>3. /\ at' = [at EXCEPT ![w] = 1] /\ ppc' = [ppc EXCEPT ![w] = "move"]
      /\ UNCHANGED <<buf, own, grown, frame, n, kept, copy, taken, met>>
  BY DEF Outgrow, To
<1>4. Types'
  BY <1>1, <1>3 DEF Types, PeakPlaces
<1>5. Seen(w)' = Seen(w) /\ ppc'[w] = "move" /\ at'[w] = 1 /\ Wrote(w)
  BY <1>1, <1>3 DEF Seen, Reach, Types, Wrote
<1>6. Shape(w)'
  BY <1>1, <1>2, <1>3, <1>5 DEF Shape
<1>7. SliceSound(w)'
  BY <1>1, <1>2, <1>3, <1>5 DEF SliceSound, CellOf
<1>8. \A u \in PeakWorkers \ {w} : Same(u)
  BY <1>1, <1>3 DEF Same, Types
<1>. QED
  BY <1>2, <1>3, <1>4, <1>5, <1>6, <1>7, <1>8 DEF Deed, Sound

LEMMA MoveOneDeed ==
  ASSUME RaceInv, NEW w \in PeakWorkers, MoveOne(w)
  PROVE  Deed(w)
<1>1. ppc[w] = "move" /\ Types /\ at[w] <= BufCap
  BY DEF MoveOne, At, RaceInv
<1>2. /\ w \in Active /\ Shape(w) /\ SliceSound(w) /\ From(copy[w], Seen(w))
      /\ BufCap \in Nat \ {0} /\ at[w] \in Nat /\ own[w] \in Seq(Cell)
      /\ ~grown[w] /\ n[w] = BufCap /\ at[w] = Len(own[w]) + 1
  BY <1>1, AtWork DEF Shape
<1>3. /\ own' = [own EXCEPT ![w] = Append(@, buf[at[w]])] /\ at' = [at EXCEPT ![w] = @ + 1]
      /\ UNCHANGED <<buf, grown, ppc, frame, n, kept, copy, taken, met>>
  BY DEF MoveOne
<1>4. /\ own'[w] = Append(own[w], buf[at[w]]) /\ at'[w] = at[w] + 1
      /\ \A u \in PeakWorkers \ {w} : own'[u] = own[u] /\ at'[u] = at[u]
  BY <1>1, <1>3 DEF Types
<1>5. buf[at[w]] \in Cell /\ From(buf[at[w]], Seen(w))
  <2>1. at[w] \in 1..BufCap
    BY <1>1, <1>2
  <2>. QED
    BY <1>1, <1>2, <2>1 DEF Types, SliceSound, CellOf
<1>6. /\ own'[w] \in Seq(Cell) /\ Len(own'[w]) = at[w]
      /\ \A j \in 1..at[w] : own'[w][j] = IF j < at[w] THEN own[w][j] ELSE buf[at[w]]
  BY <1>2, <1>4, <1>5
<1>7. Types'
  <2>1. own' \in [PeakWorkers -> Seq(Cell)]
    BY <1>1, <1>3, <1>4, <1>6 DEF Types
  <2>. QED
    BY <1>1, <1>2, <1>3, <2>1 DEF Types
<1>8. Seen(w)' = Seen(w) /\ Wrote(w)
  BY <1>3 DEF Seen, Reach, Wrote
<1>9. Shape(w)'
  BY <1>1, <1>2, <1>3, <1>4, <1>6 DEF Shape
<1>10. SliceSound(w)'
  <2>1. \A j \in 1..Len(own[w]) : From(own[w][j], Seen(w))
    BY <1>1, <1>2 DEF SliceSound
  <2>2. \A j \in 1..at[w] : From(own'[w][j], Seen(w))
    BY <1>2, <1>5, <1>6, <2>1
  <2>3. \A j \in 1..n[w] : CellOf(w, j)' = CellOf(w, j)
    BY <1>2, <1>3 DEF CellOf
  <2>. QED
    BY <1>1, <1>2, <1>3, <1>6, <1>8, <2>2, <2>3 DEF SliceSound
<1>11. \A u \in PeakWorkers \ {w} : Same(u)
  BY <1>3, <1>4 DEF Same
<1>. QED
  BY <1>2, <1>3, <1>7, <1>8, <1>9, <1>10, <1>11 DEF Deed, Sound

LEMMA MovedDeed ==
  ASSUME RaceInv, NEW w \in PeakWorkers, Moved(w)
  PROVE  Deed(w)
<1>. DEFINE new == [det |-> frame[w], sub |-> 0]
<1>1. ppc[w] = "move" /\ Types /\ at[w] > BufCap
  BY DEF Moved, At, RaceInv
<1>2. /\ w \in Active /\ Shape(w) /\ SliceSound(w) /\ From(copy[w], Seen(w))
      /\ frame[w] \in Seen(w) /\ 0 \in Seen(w) /\ frame[w] \in Nat
      /\ BufCap \in Nat \ {0} /\ at[w] \in Nat /\ n[w] \in Nat /\ own[w] \in Seq(Cell)
      /\ ~grown[w] /\ n[w] = BufCap /\ at[w] = Len(own[w]) + 1 /\ at[w] <= BufCap + 1
  BY <1>1, AtWork DEF Shape
<1>3. /\ own' = [own EXCEPT ![w] = Append(@, new)] /\ grown' = [grown EXCEPT ![w] = TRUE]
      /\ n' = [n EXCEPT ![w] = @ + 1] /\ ppc' = [ppc EXCEPT ![w] = "detect"]
      /\ UNCHANGED <<buf, frame, at, kept, copy, taken, met>>
  BY DEF Moved, To
<1>4. /\ own'[w] = Append(own[w], new) /\ n'[w] = n[w] + 1 /\ grown'[w] = TRUE
      /\ ppc'[w] = "detect"
      /\ \A u \in PeakWorkers \ {w} :
           own'[u] = own[u] /\ n'[u] = n[u] /\ grown'[u] = grown[u] /\ ppc'[u] = ppc[u]
  BY <1>1, <1>3 DEF Types
<1>5. new \in Cell /\ Len(own[w]) = n[w]
  BY <1>1, <1>2 DEF Cell
<1>6. /\ own'[w] \in Seq(Cell) /\ Len(own'[w]) = n[w] + 1
      /\ \A j \in 1..(n[w] + 1) : own'[w][j] = IF j <= n[w] THEN own[w][j] ELSE new
  <2>. HIDE DEF new
  <2>. QED
    BY <1>2, <1>4, <1>5
<1>7. Types'
  <2>1. own' \in [PeakWorkers -> Seq(Cell)]
    BY <1>1, <1>3, <1>4, <1>6 DEF Types
  <2>. QED
    BY <1>1, <1>2, <1>3, <2>1 DEF Types, PeakPlaces
<1>8. Seen(w)' = Seen(w) /\ Wrote(w)
  BY <1>3 DEF Seen, Reach, Wrote
<1>9. Shape(w)'
  BY <1>1, <1>2, <1>3, <1>4, <1>6 DEF Shape
<1>10. SliceSound(w)'
  <2>1. From(new, Seen(w))
    BY <1>2 DEF From
  <2>2. \A j \in 1..n[w] : From(own[w][j], Seen(w))
    BY <1>1, <1>2, <1>5 DEF SliceSound
  <2>3. \A j \in 1..(n[w] + 1) : From(own'[w][j], Seen(w))
    <3>. SUFFICES ASSUME NEW j \in 1..(n[w] + 1) PROVE From(own'[w][j], Seen(w))
      OBVIOUS
    <3>. HIDE DEF new
    <3>1. own'[w][j] = IF j <= n[w] THEN own[w][j] ELSE new
      BY <1>6
    <3>2. CASE j <= n[w]
      <4>1. j \in 1..n[w]
        BY <1>2, <3>2
      <4>. QED
        BY <2>2, <3>1, <3>2, <4>1
    <3>3. CASE ~(j <= n[w])
      BY <2>1, <3>1, <3>3
    <3>. QED
      BY <3>2, <3>3
  <2>. QED
    BY <1>4, <1>8, <2>3 DEF SliceSound, CellOf
<1>11. \A u \in PeakWorkers \ {w} : Same(u)
  BY <1>3, <1>4 DEF Same
<1>. QED
  BY <1>2, <1>3, <1>7, <1>8, <1>9, <1>10, <1>11 DEF Deed, Sound

LEMMA EndDetectDeed ==
  ASSUME RaceInv, NEW w \in PeakWorkers, EndDetect(w)
  PROVE  Deed(w)
<1>1. ppc[w] = "detect" /\ Types
  BY DEF EndDetect, At, RaceInv
<1>2. /\ w \in Active /\ Shape(w) /\ SliceSound(w) /\ From(copy[w], Seen(w)) /\ n[w] \in Nat
  BY <1>1, AtWork
<1>3. /\ at' = [at EXCEPT ![w] = 1] /\ kept' = [kept EXCEPT ![w] = 0]
      /\ ppc' = [ppc EXCEPT ![w] = IF n[w] < 2 THEN "enrich" ELSE "suppress"]
      /\ UNCHANGED <<buf, own, grown, frame, n, copy, taken, met>>
  BY DEF EndDetect, To
<1>4. Types'
  BY <1>1, <1>3 DEF Types, PeakPlaces
<1>5. /\ Seen(w)' = Seen(w) /\ at'[w] = 1 /\ kept'[w] = 0 /\ Wrote(w)
      /\ ppc'[w] \in {"enrich", "suppress"}
  BY <1>1, <1>3 DEF Seen, Reach, Types, Wrote
<1>6. Shape(w)'
  BY <1>1, <1>2, <1>3, <1>5 DEF Shape
<1>7. SliceSound(w)'
  BY <1>1, <1>2, <1>3, <1>5 DEF SliceSound, CellOf
<1>8. \A u \in PeakWorkers \ {w} : Same(u)
  BY <1>1, <1>3 DEF Same, Types
<1>. QED
  BY <1>2, <1>3, <1>4, <1>5, <1>6, <1>7, <1>8 DEF Deed, Sound

(* A word that the suppressor or the subpixel pass writes into the slice.  *)
LEMMA PutInSlice ==
  ASSUME RaceInv, NEW w \in PeakWorkers, ppc[w] \notin {"idle", "done"},
         NEW k \in 1..n[w], NEW field \in {"det", "sub"}, NEW v \in Seen(w), v \in Nat,
         Put(w, k, field, v), grown' = grown
  PROVE  /\ Wrote(w)
         /\ buf' \in [1..BufCap -> Cell] /\ own' \in [PeakWorkers -> Seq(Cell)]
         /\ \A u \in PeakWorkers \ {w} : own'[u] = own[u]
         /\ Len(own'[w]) = Len(own[w]) /\ (~grown[w] => own' = own)
         /\ \A j \in 1..n[w] : View(buf', own', grown', w, j) =
              IF j = k THEN With(CellOf(w, j), field, v) ELSE CellOf(w, j)
         /\ \A j \in 1..n[w] : From(View(buf', own', grown', w, j), Seen(w))
<1>1. /\ SliceSound(w) /\ n[w] \in Nat /\ n[w] <= Extent(w) /\ Extent(w) \in Nat /\ Types
  BY AtWork DEF RaceInv
<1>2. k \in Nat \ {0} /\ k <= Extent(w)
  BY <1>1
<1>3. /\ buf' \in [1..BufCap -> Cell] /\ own' \in [PeakWorkers -> Seq(Cell)]
      /\ \A u \in PeakWorkers \ {w} : own'[u] = own[u]
      /\ Len(own'[w]) = Len(own[w]) /\ (~grown[w] => own' = own)
      /\ \A j \in 1..BufCap : buf'[j] \in {buf[j], With(buf[j], field, v)}
      /\ \A j \in 1..Extent(w) : View(buf', own', grown', w, j) =
           IF j = k THEN With(View(buf, own, grown, w, j), field, v)
           ELSE View(buf, own, grown, w, j)
  BY <1>1, <1>2, PutEffect
<1>4. \A j : View(buf, own, grown, w, j) = CellOf(w, j)
  BY DEF View, CellOf
<1>5. \A j \in 1..n[w] : View(buf', own', grown', w, j) =
        IF j = k THEN With(CellOf(w, j), field, v) ELSE CellOf(w, j)
  BY <1>1, <1>3, <1>4
<1>6. \A j \in 1..n[w] : From(View(buf', own', grown', w, j), Seen(w))
  BY <1>1, <1>5 DEF With, From, SliceSound
<1>7. Wrote(w)
  BY <1>3, PutWrote
<1>. QED
  BY <1>3, <1>5, <1>6, <1>7

LEMMA LoadPeakDeed ==
  ASSUME RaceInv, NEW w \in PeakWorkers, LoadPeak(w)
  PROVE  Deed(w)
<1>1. ppc[w] = "suppress" /\ Types /\ at[w] <= n[w]
  BY DEF LoadPeak, At, RaceInv
<1>2. /\ w \in Active /\ Shape(w) /\ SliceSound(w) /\ n[w] \in Nat /\ at[w] \in Nat
      /\ kept[w] \in Nat /\ n[w] <= Extent(w) /\ Extent(w) \in Nat
      /\ kept[w] < at[w] /\ at[w] <= n[w] + 1
      /\ \A k \in 1..Extent(w) : CellOf(w, k) \in Cell
  BY <1>1, AtWork DEF Shape
<1>3. /\ copy' = [copy EXCEPT ![w] = CellOf(w, at[w])] /\ at' = [at EXCEPT ![w] = @ + 1]
      /\ \/ ppc' = [ppc EXCEPT ![w] = "compact1"]
         \/ ppc' = [ppc EXCEPT ![w] = "suppress"]
      /\ UNCHANGED <<buf, own, grown, frame, n, kept, taken, met>>
  BY DEF LoadPeak, To
<1>4. CellOf(w, at[w]) \in Cell /\ From(CellOf(w, at[w]), Seen(w))
  BY <1>1, <1>2 DEF SliceSound
<1>5. Types'
  <2>1. ppc' \in [PeakWorkers -> PeakPlaces]
    BY <1>1, <1>3 DEF Types, PeakPlaces
  <2>2. copy' \in [PeakWorkers -> Cell] /\ at' \in [PeakWorkers -> Nat]
    BY <1>1, <1>2, <1>3, <1>4 DEF Types
  <2>. QED
    BY <1>1, <1>3, <2>1, <2>2 DEF Types
<1>6. /\ Seen(w)' = Seen(w) /\ at'[w] = at[w] + 1 /\ Wrote(w)
      /\ ppc'[w] \in {"compact1", "suppress"} /\ copy'[w] = CellOf(w, at[w])
  BY <1>1, <1>3 DEF Seen, Reach, Types, Wrote
<1>7. Shape(w)'
  BY <1>1, <1>2, <1>3, <1>6 DEF Shape
<1>8. SliceSound(w)' /\ From(copy[w], Seen(w))'
  BY <1>2, <1>3, <1>4, <1>6 DEF SliceSound, CellOf, From
<1>9. \A u \in PeakWorkers \ {w} : Same(u)
  BY <1>1, <1>3 DEF Same, Types
<1>. QED
  BY <1>2, <1>3, <1>5, <1>6, <1>7, <1>8, <1>9 DEF Deed, Sound

LEMMA StorePeakDeed ==
  ASSUME RaceInv, NEW w \in PeakWorkers, StorePeak(w)
  PROVE  Deed(w)
<1>1. ppc[w] = "compact1" /\ Types
  BY DEF StorePeak, At, RaceInv
<1>2. /\ w \in Active /\ Shape(w) /\ From(copy[w], Seen(w)) /\ n[w] \in Nat /\ at[w] \in Nat
      /\ kept[w] \in Nat /\ copy[w] \in Cell /\ kept[w] + 1 < at[w] /\ at[w] <= n[w] + 1
  BY <1>1, AtWork DEF Shape
<1>3. /\ Put(w, kept[w] + 1, "det", copy[w].det) /\ ppc' = [ppc EXCEPT ![w] = "compact2"]
      /\ UNCHANGED <<grown, frame, n, at, kept, copy, taken, met>>
  BY DEF StorePeak, To
<1>4. kept[w] + 1 \in 1..n[w] /\ copy[w].det \in Seen(w) /\ copy[w].det \in Nat
  BY <1>2 DEF From, Cell
<1>5. /\ Wrote(w) /\ buf' \in [1..BufCap -> Cell] /\ own' \in [PeakWorkers -> Seq(Cell)]
      /\ \A u \in PeakWorkers \ {w} : own'[u] = own[u]
      /\ Len(own'[w]) = Len(own[w]) /\ (~grown[w] => own' = own)
      /\ \A j \in 1..n[w] : From(View(buf', own', grown', w, j), Seen(w))
  BY <1>1, <1>3, <1>4, PutInSlice
<1>6. Types'
  BY <1>1, <1>3, <1>5 DEF Types, PeakPlaces
<1>7. Seen(w)' = Seen(w) /\ ppc'[w] = "compact2"
  BY <1>1, <1>3 DEF Seen, Reach, Types
<1>8. Shape(w)'
  BY <1>1, <1>2, <1>3, <1>5, <1>7 DEF Shape
<1>9. SliceSound(w)'
  BY <1>3, <1>5, <1>7 DEF SliceSound, CellOf, View
<1>10. \A u \in PeakWorkers \ {w} : Same(u)
  BY <1>1, <1>3, <1>5 DEF Same, Types
<1>. QED
  BY <1>2, <1>3, <1>5, <1>6, <1>7, <1>8, <1>9, <1>10 DEF Deed, Sound

LEMMA StorePeakRestDeed ==
  ASSUME RaceInv, NEW w \in PeakWorkers, StorePeakRest(w)
  PROVE  Deed(w)
<1>1. ppc[w] = "compact2" /\ Types
  BY DEF StorePeakRest, At, RaceInv
<1>2. /\ w \in Active /\ Shape(w) /\ From(copy[w], Seen(w)) /\ n[w] \in Nat /\ at[w] \in Nat
      /\ kept[w] \in Nat /\ copy[w] \in Cell /\ kept[w] + 1 < at[w] /\ at[w] <= n[w] + 1
  BY <1>1, AtWork DEF Shape
<1>3. /\ Put(w, kept[w] + 1, "sub", copy[w].sub) /\ ppc' = [ppc EXCEPT ![w] = "suppress"]
      /\ kept' = [kept EXCEPT ![w] = @ + 1]
      /\ UNCHANGED <<grown, frame, n, at, copy, taken, met>>
  BY DEF StorePeakRest, To
<1>4. kept[w] + 1 \in 1..n[w] /\ copy[w].sub \in Seen(w) /\ copy[w].sub \in Nat
  BY <1>2 DEF From, Cell
<1>5. /\ Wrote(w) /\ buf' \in [1..BufCap -> Cell] /\ own' \in [PeakWorkers -> Seq(Cell)]
      /\ \A u \in PeakWorkers \ {w} : own'[u] = own[u]
      /\ Len(own'[w]) = Len(own[w]) /\ (~grown[w] => own' = own)
      /\ \A j \in 1..n[w] : From(View(buf', own', grown', w, j), Seen(w))
  BY <1>1, <1>3, <1>4, PutInSlice
<1>6. Types'
  <2>1. kept' \in [PeakWorkers -> Nat]
    BY <1>1, <1>2, <1>3 DEF Types
  <2>. QED
    BY <1>1, <1>3, <1>5, <2>1 DEF Types, PeakPlaces
<1>7. Seen(w)' = Seen(w) /\ ppc'[w] = "suppress" /\ kept'[w] = kept[w] + 1
  BY <1>1, <1>3 DEF Seen, Reach, Types
<1>8. Shape(w)'
  BY <1>1, <1>2, <1>3, <1>5, <1>7 DEF Shape
<1>9. SliceSound(w)'
  BY <1>3, <1>5, <1>7 DEF SliceSound, CellOf, View
<1>10. \A u \in PeakWorkers \ {w} : Same(u)
  BY <1>1, <1>3, <1>5 DEF Same, Types
<1>. QED
  BY <1>2, <1>3, <1>5, <1>6, <1>7, <1>8, <1>9, <1>10 DEF Deed, Sound

LEMMA EndSuppressDeed ==
  ASSUME RaceInv, NEW w \in PeakWorkers, EndSuppress(w)
  PROVE  Deed(w)
<1>1. ppc[w] = "suppress" /\ Types /\ at[w] > n[w]
  BY DEF EndSuppress, At, RaceInv
<1>2. /\ w \in Active /\ Shape(w) /\ SliceSound(w) /\ n[w] \in Nat /\ at[w] \in Nat
      /\ kept[w] \in Nat /\ 0 \in Seen(w) /\ kept[w] <= n[w]
      /\ own[w] \in Seq(Cell) /\ BufCap \in Nat
  BY <1>1, AtWork DEF Shape
<1>3. /\ n' = [n EXCEPT ![w] = kept[w]] /\ kept' = [kept EXCEPT ![w] = 0]
      /\ at' = [at EXCEPT ![w] = 1] /\ copy' = [copy EXCEPT ![w] = Zero]
      /\ ppc' = [ppc EXCEPT ![w] = "enrich"]
      /\ UNCHANGED <<buf, own, grown, frame, taken, met>>
  BY DEF EndSuppress, To
<1>4. Zero \in Cell
  BY DEF Zero, Cell
<1>5. Types'
  BY <1>1, <1>2, <1>3, <1>4 DEF Types, PeakPlaces
<1>6. /\ Seen(w)' = Seen(w) /\ n'[w] = kept[w] /\ at'[w] = 1 /\ copy'[w] = Zero
      /\ ppc'[w] = "enrich" /\ Wrote(w)
  BY <1>1, <1>3 DEF Seen, Reach, Types, Wrote
<1>7. Shape(w)'
  BY <1>1, <1>2, <1>3, <1>6 DEF Shape
<1>8. SliceSound(w)' /\ From(copy[w], Seen(w))'
  BY <1>2, <1>3, <1>6 DEF SliceSound, CellOf, From, Zero
<1>9. \A u \in PeakWorkers \ {w} : Same(u)
  BY <1>1, <1>3 DEF Same, Types
<1>. QED
  BY <1>2, <1>3, <1>5, <1>6, <1>7, <1>8, <1>9 DEF Deed, Sound

LEMMA EnrichDeed ==
  ASSUME RaceInv, NEW w \in PeakWorkers, Enrich(w)
  PROVE  Deed(w)
<1>1. ppc[w] = "enrich" /\ Types /\ at[w] <= n[w]
  BY DEF Enrich, At, RaceInv
<1>2. /\ w \in Active /\ Shape(w) /\ From(copy[w], Seen(w)) /\ n[w] \in Nat /\ at[w] \in Nat
      /\ frame[w] \in Seen(w) /\ frame[w] \in Nat /\ at[w] \in 1..(n[w] + 1)
  BY <1>1, AtWork DEF Shape
<1>3. /\ Put(w, at[w], "sub", frame[w]) /\ at' = [at EXCEPT ![w] = @ + 1]
      /\ UNCHANGED <<grown, ppc, frame, n, kept, copy, taken, met>>
  BY DEF Enrich
<1>4. at[w] \in 1..n[w]
  BY <1>1, <1>2
<1>5. /\ Wrote(w) /\ buf' \in [1..BufCap -> Cell] /\ own' \in [PeakWorkers -> Seq(Cell)]
      /\ \A u \in PeakWorkers \ {w} : own'[u] = own[u]
      /\ Len(own'[w]) = Len(own[w]) /\ (~grown[w] => own' = own)
      /\ \A j \in 1..n[w] : From(View(buf', own', grown', w, j), Seen(w))
  BY <1>1, <1>2, <1>3, <1>4, PutInSlice
<1>6. Types'
  <2>1. at' \in [PeakWorkers -> Nat]
    BY <1>1, <1>2, <1>3 DEF Types
  <2>. QED
    BY <1>1, <1>3, <1>5, <2>1 DEF Types, PeakPlaces
<1>7. Seen(w)' = Seen(w) /\ at'[w] = at[w] + 1
  BY <1>1, <1>3 DEF Seen, Reach, Types
<1>8. Shape(w)'
  BY <1>1, <1>2, <1>3, <1>4, <1>5, <1>7 DEF Shape
<1>9. SliceSound(w)'
  BY <1>1, <1>3, <1>5, <1>7 DEF SliceSound, CellOf, View
<1>10. \A u \in PeakWorkers \ {w} : Same(u)
  BY <1>1, <1>3, <1>5 DEF Same, Types
<1>. QED
  BY <1>2, <1>3, <1>5, <1>6, <1>7, <1>8, <1>9, <1>10 DEF Deed, Sound

LEMMA EndEnrichDeed ==
  ASSUME RaceInv, NEW w \in PeakWorkers, EndEnrich(w)
  PROVE  Deed(w)
<1>1. ppc[w] = "enrich" /\ Types
  BY DEF EndEnrich, At, RaceInv
<1>2. w \in Active /\ Shape(w) /\ SliceSound(w) /\ From(copy[w], Seen(w))
  BY <1>1, AtWork
<1>3. /\ ppc' = [ppc EXCEPT ![w] = "select"]
      /\ UNCHANGED <<buf, own, grown, frame, n, at, kept, copy, taken, met>>
  BY DEF EndEnrich, To
<1>4. Types'
  BY <1>1, <1>3 DEF Types, PeakPlaces
<1>5. Seen(w)' = Seen(w) /\ ppc'[w] = "select" /\ Wrote(w)
  BY <1>1, <1>3 DEF Seen, Reach, Types, Wrote
<1>6. Shape(w)'
  BY <1>1, <1>2, <1>3, <1>5 DEF Shape
<1>7. SliceSound(w)'
  BY <1>2, <1>3, <1>5 DEF SliceSound, CellOf
<1>8. \A u \in PeakWorkers \ {w} : Same(u)
  BY <1>1, <1>3 DEF Same, Types
<1>. QED
  BY <1>2, <1>3, <1>4, <1>5, <1>6, <1>7, <1>8 DEF Deed, Sound

LEMMA SelectPeakDeed ==
  ASSUME RaceInv, NEW w \in PeakWorkers, SelectPeak(w)
  PROVE  Deed(w)
<1>1. ppc[w] = "select" /\ Types
  BY DEF SelectPeak, At, RaceInv
<1>2. /\ w \in Active /\ Shape(w) /\ SliceSound(w) /\ From(copy[w], Seen(w)) /\ n[w] \in Nat
  BY <1>1, AtWork
<1>3. UNCHANGED <<buf, own, grown, frame, n, kept, copy, taken, met>>
  BY DEF SelectPeak
<1>4. PICK k \in Nat, place \in {"copy1", "done"} :
        /\ at' = [at EXCEPT ![w] = k] /\ ppc' = [ppc EXCEPT ![w] = place]
        /\ place = "copy1" => k \in 1..n[w]
  BY <1>2 DEF SelectPeak, To
<1>5. Types'
  BY <1>1, <1>3, <1>4 DEF Types, PeakPlaces
<1>6. Seen(w)' = Seen(w) /\ ppc'[w] = place /\ at'[w] = k /\ Wrote(w)
  BY <1>1, <1>3, <1>4 DEF Seen, Reach, Types, Wrote
<1>7. Shape(w)'
  BY <1>1, <1>2, <1>3, <1>4, <1>6 DEF Shape
<1>8. SliceSound(w)'
  BY <1>2, <1>3, <1>6 DEF SliceSound, CellOf
<1>9. \A u \in PeakWorkers \ {w} : Same(u)
  BY <1>1, <1>3, <1>4 DEF Same, Types
<1>. QED
  BY <1>2, <1>3, <1>5, <1>6, <1>7, <1>8, <1>9 DEF Deed, Sound

(* Calculate copies the words of the peak it was given the address of.     *)
LEMMA CopyPeakDeed ==
  ASSUME RaceInv, NEW w \in PeakWorkers, CopyPeak(w)
  PROVE  /\ Deed(w)
         /\ copy'[w] = [det |-> CellOf(w, at[w]).det, sub |-> copy[w].sub]
<1>1. ppc[w] = "copy1" /\ Types
  BY DEF CopyPeak, At, RaceInv
<1>2. /\ w \in Active /\ Shape(w) /\ SliceSound(w) /\ From(copy[w], Seen(w)) /\ n[w] \in Nat
      /\ copy[w] \in Cell /\ n[w] <= Extent(w) /\ Extent(w) \in Nat /\ at[w] \in 1..n[w]
      /\ \A k \in 1..Extent(w) : CellOf(w, k) \in Cell
  BY <1>1, AtWork DEF Shape
<1>3. PICK c : c = CellOf(w, at[w])
  OBVIOUS
<1>4. /\ copy' = [copy EXCEPT ![w].det = c.det] /\ ppc' = [ppc EXCEPT ![w] = "copy2"]
      /\ UNCHANGED <<buf, own, grown, frame, n, at, kept, taken, met>>
  BY <1>3 DEF CopyPeak, To
<1>5. c \in Cell /\ From(c, Seen(w))
  BY <1>2, <1>3 DEF SliceSound
<1>6. copy'[w] = [det |-> c.det, sub |-> copy[w].sub]
      /\ \A u \in PeakWorkers \ {w} : copy'[u] = copy[u]
  BY <1>1, <1>4 DEF Types, Cell
<1>7. copy' \in [PeakWorkers -> Cell]
  <2>1. [det |-> c.det, sub |-> copy[w].sub] \in Cell
    BY <1>2, <1>5 DEF Cell
  <2>. QED
    BY <1>1, <1>4, <1>6, <2>1 DEF Types
<1>8. Types'
  BY <1>1, <1>4, <1>7 DEF Types, PeakPlaces
<1>9. Seen(w)' = Seen(w) /\ ppc'[w] = "copy2" /\ Wrote(w)
  BY <1>1, <1>4 DEF Seen, Reach, Types, Wrote
<1>10. Shape(w)'
  BY <1>1, <1>2, <1>4, <1>9 DEF Shape
<1>11. SliceSound(w)' /\ From(copy[w], Seen(w))'
  BY <1>2, <1>4, <1>5, <1>6, <1>9 DEF SliceSound, CellOf, From
<1>12. \A u \in PeakWorkers \ {w} : Same(u)
  BY <1>1, <1>4, <1>6 DEF Same, Types
<1>. QED
  BY <1>2, <1>3, <1>4, <1>6, <1>8, <1>9, <1>10, <1>11, <1>12 DEF Deed, Sound

LEMMA CopyPeakRestDeed ==
  ASSUME RaceInv, NEW w \in PeakWorkers, CopyPeakRest(w)
  PROVE  /\ Deed(w)
         /\ copy'[w] = [det |-> copy[w].det, sub |-> CellOf(w, at[w]).sub]
<1>1. ppc[w] = "copy2" /\ Types
  BY DEF CopyPeakRest, At, RaceInv
<1>2. /\ w \in Active /\ Shape(w) /\ SliceSound(w) /\ From(copy[w], Seen(w)) /\ n[w] \in Nat
      /\ copy[w] \in Cell /\ n[w] <= Extent(w) /\ Extent(w) \in Nat /\ at[w] \in 1..n[w]
      /\ \A k \in 1..Extent(w) : CellOf(w, k) \in Cell
  BY <1>1, AtWork DEF Shape
<1>3. PICK c : c = CellOf(w, at[w])
  OBVIOUS
<1>4. /\ copy' = [copy EXCEPT ![w].sub = c.sub] /\ ppc' = [ppc EXCEPT ![w] = "done"]
      /\ at' = [at EXCEPT ![w] = 1] /\ own' = [own EXCEPT ![w] = <<>>]
      /\ grown' = [grown EXCEPT ![w] = FALSE] /\ n' = [n EXCEPT ![w] = 0]
      /\ UNCHANGED <<buf, frame, kept, taken, met>>
  BY <1>3 DEF CopyPeakRest, To
<1>5. c \in Cell /\ From(c, Seen(w))
  BY <1>2, <1>3 DEF SliceSound
<1>6. copy'[w] = [det |-> copy[w].det, sub |-> c.sub]
      /\ \A u \in PeakWorkers \ {w} : copy'[u] = copy[u]
  BY <1>1, <1>4 DEF Types, Cell
<1>7. copy' \in [PeakWorkers -> Cell]
  <2>1. [det |-> copy[w].det, sub |-> c.sub] \in Cell
    BY <1>2, <1>5 DEF Cell
  <2>. QED
    BY <1>1, <1>4, <1>6, <2>1 DEF Types
<1>8. Types'
  BY <1>1, <1>4, <1>7 DEF Types, PeakPlaces
<1>9. Seen(w)' = Seen(w) /\ ppc'[w] = "done" /\ Wrote(w)
  BY <1>1, <1>4 DEF Seen, Reach, Types, Wrote
<1>10. w \notin Active' /\ From(copy[w], Seen(w))'
  BY <1>2, <1>5, <1>6, <1>9 DEF From, Active
<1>11. \A u \in PeakWorkers \ {w} : Same(u)
  BY <1>1, <1>4, <1>6 DEF Same, Types
<1>. QED
  BY <1>2, <1>3, <1>4, <1>6, <1>8, <1>9, <1>10, <1>11 DEF Deed, Sound

-----------------------------------------------------------------------------
(* A new call meets those at work: it has seen what they have seen, they   *)
(* see its frame.                                                          *)
LEMMA EnterTypes ==
  ASSUME RaceInv, NEW w \in PeakWorkers, EnterDetect(w)
  PROVE  /\ Types'
         /\ ppc[w] \in {"idle", "done"} /\ ppc'[w] = "detect"
         /\ buf' = buf /\ frame'[w] = taken + 1 /\ n'[w] = 0 /\ grown'[w] = FALSE
         /\ own'[w] = <<>> /\ copy'[w] = Zero
         /\ met'[w] = UNION {met[u] \cup {frame[u]} : u \in Active}
         /\ \A u \in PeakWorkers \ {w} : Same(u) /\ frame'[u] = frame[u]
         /\ \A u \in PeakWorkers \ {w} :
              met'[u] = IF u \in Active THEN met[u] \cup {taken + 1} ELSE met[u]
<1>1. Types /\ ppc[w] \in {"idle", "done"} /\ taken \in Nat
  BY DEF EnterDetect, At, RaceInv, Types
<1>. DEFINE all == UNION {met[u] \cup {frame[u]} : u \in Active}
<1>2. /\ taken' = taken + 1 /\ frame' = [frame EXCEPT ![w] = taken + 1]
      /\ n' = [n EXCEPT ![w] = 0] /\ grown' = [grown EXCEPT ![w] = FALSE]
      /\ own' = [own EXCEPT ![w] = <<>>] /\ copy' = [copy EXCEPT ![w] = Zero]
      /\ met' = [v \in PeakWorkers |->
                   CASE v = w -> all
                     [] v # w /\ v \in Active -> met[v] \cup {taken + 1}
                     [] OTHER -> met[v]]
      /\ ppc' = [ppc EXCEPT ![w] = "detect"]
      /\ UNCHANGED <<buf, at, kept>>
  BY DEF EnterDetect, To
<1>3. all \in SUBSET Nat
  BY <1>1 DEF Types, Active
<1>. HIDE DEF all
<1>4. met'[w] = all
  BY <1>2
<1>5. \A u \in PeakWorkers \ {w} :
        met'[u] = IF u \in Active THEN met[u] \cup {taken + 1} ELSE met[u]
  BY <1>2
<1>6. met' \in [PeakWorkers -> SUBSET Nat]
  <2>1. \A u \in PeakWorkers : met'[u] \in SUBSET Nat
    <3>. SUFFICES ASSUME NEW u \in PeakWorkers PROVE met'[u] \in SUBSET Nat
      OBVIOUS
    <3>1. CASE u = w
      BY <1>3, <1>4, <3>1
    <3>2. CASE u # w
      <4>1. met[u] \subseteq Nat /\ taken + 1 \in Nat
        BY <1>1 DEF Types
      <4>. QED
        BY <1>5, <3>2, <4>1
    <3>. QED
      BY <3>1, <3>2
  <2>. QED
    BY <1>2, <2>1
<1>7. Zero \in Cell
  BY DEF Zero, Cell
<1>8. Types'
  <2>1. /\ frame' \in [PeakWorkers -> Nat] /\ n' \in [PeakWorkers -> Nat]
        /\ grown' \in [PeakWorkers -> BOOLEAN] /\ taken' \in Nat
    BY <1>1, <1>2 DEF Types
  <2>2. ppc' \in [PeakWorkers -> PeakPlaces]
    BY <1>1, <1>2 DEF Types, PeakPlaces
  <2>3. own' \in [PeakWorkers -> Seq(Cell)]
    <3>1. <<>> \in Seq(Cell)
      OBVIOUS
    <3>. QED
      BY <1>1, <1>2, <3>1 DEF Types
  <2>4. copy' \in [PeakWorkers -> Cell]
    BY <1>1, <1>2, <1>7 DEF Types
  <2>5. /\ buf' \in [1..BufCap -> Cell] /\ at' \in [PeakWorkers -> Nat]
        /\ kept' \in [PeakWorkers -> Nat]
    BY <1>1, <1>2 DEF Types
  <2>. QED
    BY <1>6, <2>1, <2>2, <2>3, <2>4, <2>5, Zenon DEF Types
<1>9. /\ ppc'[w] = "detect" /\ frame'[w] = taken + 1 /\ n'[w] = 0 /\ grown'[w] = FALSE
      /\ own'[w] = <<>> /\ copy'[w] = Zero
  BY <1>1, <1>2 DEF Types
<1>10. \A u \in PeakWorkers \ {w} : Same(u) /\ frame'[u] = frame[u]
  BY <1>1, <1>2 DEF Types, Same
<1>. QED
  BY <1>1, <1>2, <1>4, <1>5, <1>8, <1>9, <1>10 DEF all

LEMMA EnterKeeps ==
  ASSUME RaceInv, NEW w \in PeakWorkers, EnterDetect(w)
  PROVE  RaceInv'
<1>1. /\ Types' /\ ppc[w] \in {"idle", "done"} /\ ppc'[w] = "detect"
      /\ buf' = buf /\ frame'[w] = taken + 1 /\ n'[w] = 0 /\ grown'[w] = FALSE
      /\ own'[w] = <<>> /\ copy'[w] = Zero
      /\ met'[w] = UNION {met[u] \cup {frame[u]} : u \in Active}
      /\ \A u \in PeakWorkers \ {w} : Same(u) /\ frame'[u] = frame[u]
      /\ \A u \in PeakWorkers \ {w} :
           met'[u] = IF u \in Active THEN met[u] \cup {taken + 1} ELSE met[u]
  BY EnterTypes
<1>2. w \notin Active /\ Active' = Active \cup {w}
  BY <1>1 DEF Active, Same
<1>3. \A u \in Active : u \in PeakWorkers \ {w} /\ Reach(u)' = Reach(u) \cup {taken + 1}
  BY <1>1, <1>2 DEF Active, Reach
<1>4. \A u \in Active : Reach(w)' = Reach(u) \cup {taken + 1}
  <2>1. Reach(w)' = (UNION {Reach(u) : u \in Active}) \cup {taken + 1}
    BY <1>1 DEF Reach
  <2>2. \A u \in Active : UNION {Reach(v) : v \in Active} = Reach(u)
    BY DEF RaceInv, Chain
  <2>. QED
    BY <2>1, <2>2
<1>5. Chain'
  <2>1. \A u, v \in Active : Reach(u)' = Reach(v)'
    BY <1>3 DEF RaceInv, Chain
  <2>2. \A u \in Active : Reach(u)' = Reach(w)'
    BY <1>3, <1>4
  <2>. QED
    BY <1>2, <2>1, <2>2 DEF Chain
<1>6. Meets'
  <2>1. \A u, v \in Active : u # v => frame'[u] \in met'[v]
    BY <1>1, <1>3 DEF RaceInv, Meets
  <2>2. \A u \in Active : frame'[u] \in met'[w] /\ frame'[w] \in met'[u]
    <3>. SUFFICES ASSUME NEW u \in Active PROVE frame'[u] \in met'[w] /\ frame'[w] \in met'[u]
      OBVIOUS
    <3>1. u \in PeakWorkers \ {w} /\ frame'[u] = frame[u]
      BY <1>1, <1>3
    <3>2. frame[u] \in met'[w]
      BY <1>1
    <3>3. taken + 1 \in met'[u]
      BY <1>1, <3>1
    <3>. QED
      BY <1>1, <3>1, <3>2, <3>3
  <2>. QED
    BY <1>2, <2>1, <2>2 DEF Meets
<1>7. Sound(w)'
  <2>1. From(copy[w], Seen(w))'
    BY <1>1 DEF From, Seen, Zero
  <2>2. Shape(w)'
    BY <1>1, PeakAssumption DEF Shape
  <2>3. SliceSound(w)'
    BY <1>1 DEF SliceSound
  <2>. QED
    BY <2>1, <2>2, <2>3 DEF Sound
<1>8. ASSUME NEW u \in PeakWorkers \ {w}
      PROVE  Sound(u)'
  <2>1. Same(u) /\ Sound(u) /\ frame'[u] = frame[u]
    BY <1>1, <1>8 DEF RaceInv
  <2>2. Seen(u) \subseteq Seen(u)'
    BY <1>1, <1>8 DEF Seen, Reach
  <2>3. From(copy[u], Seen(u))'
    BY <2>1, <2>2 DEF Same, Sound, From
  <2>4. ASSUME u \in Active'
        PROVE  Shape(u)' /\ SliceSound(u)'
    <3>1. Shape(u) /\ SliceSound(u)
      BY <1>2, <1>8, <2>1, <2>4 DEF Sound
    <3>2. Shape(u)'
      BY <2>1, <3>1 DEF Shape, Same
    <3>3. \A k : CellOf(u, k)' = CellOf(u, k)
      BY <1>1, <2>1 DEF CellOf, Same
    <3>4. SliceSound(u)'
      BY <1>1, <2>1, <2>2, <3>1, <3>3 DEF SliceSound, Same, From
    <3>. QED
      BY <3>2, <3>4
  <2>. QED
    BY <2>3, <2>4 DEF Sound
<1>. QED
  BY <1>1, <1>5, <1>6, <1>7, <1>8 DEF RaceInv

LEMMA WorkIsDeed ==
  ASSUME RaceInv, NEW w \in PeakWorkers, PeakStep(w), ~EnterDetect(w)
  PROVE  Deed(w)
BY FoundInArray, FoundInOwn, FoundRestDeed, OutgrowDeed, MoveOneDeed, MovedDeed, EndDetectDeed,
   LoadPeakDeed, StorePeakDeed, StorePeakRestDeed, EndSuppressDeed, EnrichDeed, EndEnrichDeed,
   SelectPeakDeed, CopyPeakDeed, CopyPeakRestDeed, Zenon DEF PeakStep

LEMMA RaceInit == Init => RaceInv
<1>. SUFFICES ASSUME Init PROVE RaceInv
  OBVIOUS
<1>1. Types
  <2>1. Zero \in Cell /\ <<>> \in Seq(Cell)
    BY DEF Zero, Cell
  <2>. QED
    BY <2>1 DEF Init, Types, PeakPlaces
<1>2. Active = {}
  BY DEF Init, Active
<1>3. \A w \in PeakWorkers : From(copy[w], Seen(w))
  BY DEF Init, From, Zero, Seen
<1>. QED
  BY <1>1, <1>2, <1>3 DEF RaceInv, Chain, Meets, Sound

LEMMA RaceStep == RaceInv /\ [Next]_vars => RaceInv'
<1>. SUFFICES ASSUME RaceInv, [Next]_vars PROVE RaceInv'
  OBVIOUS
<1>1. ASSUME NEW w \in PeakWorkers, PeakStep(w)
      PROVE  RaceInv'
  BY <1>1, EnterKeeps, WorkIsDeed, DeedKeeps
<1>2. CASE UNCHANGED vars
  BY <1>2 DEF vars, RaceInv, Types, Chain, Meets, Sound, Shape, SliceSound, Reach, Seen, From,
              CellOf, Active
<1>. QED
  BY <1>1, <1>2 DEF Next

(* The array is shared without a lock, yet a measurement carries only      *)
(* words of frames whose calls were in work together with its own,         *)
(* directly or through others; whatever the workers and the capacity.      *)
THEOREM PeakMixesOnlyOverlapping == Spec => []MixesOnlyOverlapping
<1>1. RaceInv => MixesOnlyOverlapping
  BY DEF RaceInv, Sound, From, Seen, Reach, MixesOnlyOverlapping
<1>. QED
  BY <1>1, RaceInit, RaceStep, PTL DEF Spec

-----------------------------------------------------------------------------
(* A worker that met nobody: what its own steps make of its slice.         *)
OwnPeak(w) == [det |-> frame[w], sub |-> frame[w]]

Clear(w) ==
  /\ w \in Active => Alone(w)
  /\ ppc[w] = "done" => copy[w] \in {Zero, OwnPeak(w)}

LEMMA FoundClear ==
  ASSUME RaceInv, NEW w \in PeakWorkers, Alone(w), Found(w)
  PROVE  Clear(w)'
<1>1. ppc[w] = "detect" /\ Types /\ n[w] \in Nat /\ frame[w] \in Nat /\ BufCap \in Nat
  BY PeakAssumption DEF Found, At, RaceInv, Types
<1>2. Shape(w) /\ copy[w] = Zero
  BY <1>1, AtWork DEF Alone
<1>3. CASE ~grown[w]
  <2>1. /\ Put(w, n[w] + 1, "det", frame[w]) /\ ppc' = [ppc EXCEPT ![w] = "literal"]
        /\ n[w] < BufCap /\ UNCHANGED <<n, grown, frame, copy>>
    BY <1>3 DEF Found, To
  <2>2. PICK k \in Nat \ {0} : k = n[w] + 1
    BY <1>1
  <2>3. k <= Extent(w) /\ Put(w, k, "det", frame[w])
    BY <1>1, <1>3, <2>1, <2>2 DEF Extent
  <2>4. \A j \in 1..BufCap : buf'[j] = IF j = k THEN With(buf[j], "det", frame[w]) ELSE buf[j]
    BY <1>1, <1>3, <2>1, <2>3, PutEffect DEF View, Extent
  <2>5. ppc'[w] = "literal" /\ n'[w] = n[w] /\ copy'[w] = Zero /\ frame'[w] = frame[w]
    BY <1>1, <1>2, <2>1 DEF Types
  <2>6. \A j \in 1..n[w] : CellOf(w, j)'.det = frame[w]
    BY <1>1, <1>3, <2>1, <2>2, <2>4 DEF Alone, CellOf
  <2>7. buf'[n[w] + 1].det = frame[w]
    <3>1. k \in 1..BufCap /\ buf'[k] = With(buf[k], "det", frame[w])
      BY <1>1, <2>1, <2>2, <2>4
    <3>. QED
      BY <2>2, <3>1 DEF With
  <2>. QED
    BY <2>5, <2>6, <2>7 DEF Clear, Alone
<1>4. CASE grown[w]
  <2>. DEFINE new == [det |-> frame[w], sub |-> 0]
  <2>1. /\ own' = [own EXCEPT ![w] = Append(@, new)] /\ n' = [n EXCEPT ![w] = @ + 1]
        /\ UNCHANGED <<ppc, grown, frame, copy>>
    BY <1>4 DEF Found
  <2>2. /\ own'[w] = Append(own[w], new) /\ n'[w] = n[w] + 1 /\ own[w] \in Seq(Cell)
        /\ Len(own[w]) = n[w] /\ new \in Cell
    BY <1>1, <1>2, <1>4, <2>1 DEF Types, Shape, Cell
  <2>3. \A j \in 1..(n[w] + 1) : own'[w][j] = IF j <= n[w] THEN own[w][j] ELSE new
    <3>. HIDE DEF new
    <3>. QED
      BY <1>1, <2>2
  <2>4. \A j \in 1..n[w] : own[w][j].det = frame[w]
    BY <1>4 DEF Alone, CellOf
  <2>5. \A j \in 1..(n[w] + 1) : own'[w][j].det = frame[w]
    BY <1>1, <2>3, <2>4
  <2>. QED
    BY <1>1, <1>2, <1>4, <2>1, <2>2, <2>5 DEF Clear, Alone, CellOf
<1>. QED
  BY <1>3, <1>4

LEMMA FoundRestClear ==
  ASSUME RaceInv, NEW w \in PeakWorkers, Alone(w), FoundRest(w)
  PROVE  Clear(w)'
<1>1. ppc[w] = "literal" /\ Types /\ n[w] \in Nat /\ BufCap \in Nat
  BY PeakAssumption DEF FoundRest, At, RaceInv, Types
<1>2. Shape(w) /\ copy[w] = Zero /\ ~grown[w] /\ n[w] < BufCap
  BY <1>1, AtWork DEF Alone, Shape
<1>3. /\ Put(w, n[w] + 1, "sub", 0) /\ ppc' = [ppc EXCEPT ![w] = "detect"]
      /\ n' = [n EXCEPT ![w] = @ + 1] /\ UNCHANGED <<grown, frame, copy>>
  BY DEF FoundRest, To
<1>4. PICK k \in Nat \ {0} : k = n[w] + 1
  BY <1>1
<1>5. k <= Extent(w) /\ Put(w, k, "sub", 0)
  BY <1>1, <1>2, <1>3, <1>4 DEF Extent
<1>6. \A j \in 1..BufCap : buf'[j] = IF j = k THEN With(buf[j], "sub", 0) ELSE buf[j]
  BY <1>1, <1>2, <1>3, <1>5, PutEffect DEF View, Extent
<1>7. \A j \in 1..(n[w] + 1) : buf[j].det = frame[w]
  BY <1>1, <1>2 DEF Alone, CellOf
<1>8. \A j \in 1..(n[w] + 1) : buf'[j].det = frame[w]
  <2>1. \A j : With(buf[j], "sub", 0).det = buf[j].det
    BY DEF With
  <2>. QED
    BY <1>1, <1>2, <1>6, <1>7, <2>1
<1>. QED
  BY <1>1, <1>2, <1>3, <1>8 DEF Clear, Alone, CellOf, Types

LEMMA MovingClear ==
  ASSUME RaceInv, NEW w \in PeakWorkers, Alone(w), Outgrow(w) \/ MoveOne(w) \/ Moved(w)
  PROVE  Clear(w)'
<1>1. /\ Types /\ n[w] \in Nat /\ at[w] \in Nat /\ frame[w] \in Nat /\ BufCap \in Nat
      /\ ppc[w] \in {"detect", "move"}
  BY PeakAssumption DEF Outgrow, MoveOne, Moved, At, RaceInv, Types
<1>2. /\ Shape(w) /\ copy[w] = Zero /\ own[w] \in Seq(Cell)
  BY <1>1, AtWork DEF Alone
<1>3. CASE Outgrow(w)
  <2>1. own[w] = <<>>
    BY <1>2, <1>3 DEF Outgrow, At, Shape
  <2>2. ppc'[w] = "move" /\ UNCHANGED <<buf, own, grown, frame, n, copy>>
    BY <1>1, <1>3 DEF Outgrow, To, Types
  <2>. QED
    BY <1>2, <2>1, <2>2 DEF Clear, Alone, CellOf
<1>4. CASE MoveOne(w)
  <2>1. /\ ppc[w] = "move" /\ at[w] \in 1..BufCap /\ n[w] = BufCap /\ ~grown[w]
        /\ at[w] = Len(own[w]) + 1
    BY <1>1, <1>2, <1>4 DEF MoveOne, At, Shape
  <2>2. own'[w] = Append(own[w], buf[at[w]]) /\ UNCHANGED <<buf, grown, ppc, frame, n, copy>>
    BY <1>1, <1>4 DEF MoveOne, Types
  <2>3. buf[at[w]] \in Cell /\ buf[at[w]].det = frame[w]
    BY <1>1, <2>1 DEF Types, Alone, CellOf
  <2>4. /\ Len(own'[w]) = at[w]
        /\ \A j \in 1..at[w] : own'[w][j] = IF j < at[w] THEN own[w][j] ELSE buf[at[w]]
    BY <1>2, <2>1, <2>2, <2>3
  <2>5. \A j \in 1..Len(own[w]) : own[w][j].det = frame[w]
    BY <2>1 DEF Alone
  <2>6. \A j \in 1..at[w] : own'[w][j].det = frame[w]
    BY <1>1, <1>2, <2>1, <2>3, <2>4, <2>5
  <2>. QED
    BY <1>2, <2>1, <2>2, <2>4, <2>6 DEF Clear, Alone, CellOf
<1>5. CASE Moved(w)
  <2>. DEFINE new == [det |-> frame[w], sub |-> 0]
  <2>1. ppc[w] = "move" /\ Len(own[w]) = n[w]
    BY <1>1, <1>2, <1>5 DEF Moved, At, Shape
  <2>2. /\ own'[w] = Append(own[w], new) /\ n'[w] = n[w] + 1 /\ grown'[w] /\ ppc'[w] = "detect"
        /\ UNCHANGED <<frame, copy>>
    BY <1>1, <1>5 DEF Moved, To, Types
  <2>3. new \in Cell
    BY <1>1 DEF Cell
  <2>4. \A j \in 1..(n[w] + 1) : own'[w][j] = IF j <= n[w] THEN own[w][j] ELSE new
    <3>. HIDE DEF new
    <3>. QED
      BY <1>1, <1>2, <2>1, <2>2, <2>3
  <2>5. \A j \in 1..n[w] : own[w][j].det = frame[w]
    BY <2>1 DEF Alone
  <2>6. \A j \in 1..(n[w] + 1) : own'[w][j].det = frame[w]
    BY <1>1, <2>4, <2>5
  <2>. QED
    BY <1>2, <2>2, <2>6 DEF Clear, Alone, CellOf
<1>. QED
  BY <1>3, <1>4, <1>5

LEMMA ScanClear ==
  ASSUME RaceInv, NEW w \in PeakWorkers, Alone(w),
         EndDetect(w) \/ EndSuppress(w) \/ EndEnrich(w) \/ SelectPeak(w)
  PROVE  Clear(w)'
<1>1. /\ Types /\ n[w] \in Nat /\ at[w] \in Nat /\ kept[w] \in Nat
      /\ ppc[w] \in {"detect", "suppress", "enrich", "select"}
  BY DEF EndDetect, EndSuppress, EndEnrich, SelectPeak, At, RaceInv, Types
<1>2. Shape(w)
  BY <1>1, AtWork
<1>3. \A j \in 1..n[w] : CellOf(w, j).det = frame[w]
  BY DEF Alone
<1>4. CASE EndDetect(w)
  <2>1. /\ ppc'[w] \in {"enrich", "suppress"} /\ at'[w] = 1 /\ copy[w] = Zero
        /\ UNCHANGED <<buf, own, grown, frame, n, copy>>
    BY <1>1, <1>4 DEF EndDetect, At, To, Types, Alone
  <2>. QED
    BY <1>3, <2>1 DEF Clear, Alone, CellOf
<1>5. CASE EndSuppress(w)
  <2>1. kept[w] <= n[w]
    BY <1>1, <1>2, <1>5 DEF EndSuppress, At, Shape
  <2>2. /\ ppc'[w] = "enrich" /\ at'[w] = 1 /\ copy'[w] = Zero /\ n'[w] = kept[w]
        /\ UNCHANGED <<buf, own, grown, frame>>
    BY <1>1, <1>5 DEF EndSuppress, To, Types
  <2>3. \A j \in 1..kept[w] : CellOf(w, j).det = frame[w]
    BY <1>1, <1>3, <2>1
  <2>. QED
    BY <2>2, <2>3 DEF Clear, Alone, CellOf
<1>6. CASE EndEnrich(w)
  <2>1. ppc[w] = "enrich" /\ at[w] - 1 = n[w] /\ copy[w] = Zero
    BY <1>1, <1>2, <1>6 DEF EndEnrich, At, Shape, Alone
  <2>2. ppc'[w] = "select" /\ UNCHANGED <<buf, own, grown, frame, n, copy>>
    BY <1>1, <1>6 DEF EndEnrich, To, Types
  <2>3. \A j \in 1..n[w] : CellOf(w, j).sub = frame[w]
    BY <2>1 DEF Alone
  <2>. QED
    BY <1>3, <2>1, <2>2, <2>3 DEF Clear, Alone, CellOf
<1>7. CASE SelectPeak(w)
  <2>1. ppc'[w] \in {"copy1", "done"} /\ UNCHANGED <<buf, own, grown, frame, n, copy>>
    BY <1>1, <1>7 DEF SelectPeak, To, Types
  <2>2. copy[w] = Zero /\ \A j \in 1..n[w] : CellOf(w, j).sub = frame[w]
    BY <1>7 DEF SelectPeak, At, Alone
  <2>. QED
    BY <1>3, <2>1, <2>2 DEF Clear, Alone, CellOf
<1>. QED
  BY <1>4, <1>5, <1>6, <1>7

LEMMA CompactClear ==
  ASSUME RaceInv, NEW w \in PeakWorkers, Alone(w),
         LoadPeak(w) \/ StorePeak(w) \/ StorePeakRest(w)
  PROVE  Clear(w)'
<1>1. /\ Types /\ n[w] \in Nat /\ at[w] \in Nat /\ kept[w] \in Nat /\ frame[w] \in Nat
      /\ ppc[w] \in {"suppress", "compact1", "compact2"}
  BY DEF LoadPeak, StorePeak, StorePeakRest, At, RaceInv, Types
<1>2. /\ Shape(w) /\ copy[w] \in Cell /\ From(copy[w], Seen(w))
  BY <1>1, AtWork
<1>3. \A j \in 1..n[w] : CellOf(w, j).det = frame[w]
  BY DEF Alone
<1>4. CASE LoadPeak(w)
  <2>1. at[w] \in 1..n[w]
    BY <1>1, <1>2, <1>4 DEF LoadPeak, At, Shape
  <2>2. PICK c : c = CellOf(w, at[w])
    OBVIOUS
  <2>3. copy' = [copy EXCEPT ![w] = c] /\ UNCHANGED <<buf, own, grown, frame, n>>
        /\ ppc'[w] \in {"compact1", "suppress"}
    BY <1>1, <1>4, <2>2 DEF LoadPeak, To, Types
  <2>4. copy'[w].det = frame[w]
    BY <1>1, <1>3, <2>1, <2>2, <2>3 DEF Types
  <2>. QED
    BY <1>3, <2>3, <2>4 DEF Clear, Alone, CellOf
<1>5. CASE StorePeak(w)
  <2>1. /\ Put(w, kept[w] + 1, "det", copy[w].det) /\ ppc'[w] = "compact2"
        /\ UNCHANGED <<grown, frame, n, copy>> /\ ppc[w] = "compact1"
    BY <1>1, <1>5 DEF StorePeak, At, To, Types
  <2>2. kept[w] + 1 \in 1..n[w] /\ copy[w].det \in Nat /\ copy[w].det \in Seen(w)
        /\ copy[w].det = frame[w]
    BY <1>1, <1>2, <2>1 DEF Shape, Cell, From, Alone
  <2>3. \A j \in 1..n[w] : View(buf', own', grown', w, j) =
          IF j = kept[w] + 1 THEN With(CellOf(w, j), "det", copy[w].det) ELSE CellOf(w, j)
    BY <1>1, <2>1, <2>2, PutInSlice
  <2>4. \A c : With(c, "det", copy[w].det).det = frame[w]
    BY <2>2 DEF With
  <2>5. \A j \in 1..n[w] : View(buf', own', grown', w, j).det = frame[w]
    BY <1>3, <2>3, <2>4
  <2>. QED
    BY <2>1, <2>2, <2>5 DEF Clear, Alone, CellOf, View
<1>6. CASE StorePeakRest(w)
  <2>1. /\ Put(w, kept[w] + 1, "sub", copy[w].sub) /\ ppc'[w] = "suppress"
        /\ UNCHANGED <<grown, frame, n, copy>> /\ ppc[w] = "compact2"
    BY <1>1, <1>6 DEF StorePeakRest, At, To, Types
  <2>2. kept[w] + 1 \in 1..n[w] /\ copy[w].sub \in Nat /\ copy[w].sub \in Seen(w)
    BY <1>1, <1>2, <2>1 DEF Shape, Cell, From
  <2>3. \A j \in 1..n[w] : View(buf', own', grown', w, j) =
          IF j = kept[w] + 1 THEN With(CellOf(w, j), "sub", copy[w].sub) ELSE CellOf(w, j)
    BY <1>1, <2>1, <2>2, PutInSlice
  <2>4. \A c : With(c, "sub", copy[w].sub).det = c.det
    BY DEF With
  <2>5. \A j \in 1..n[w] : View(buf', own', grown', w, j).det = frame[w]
    BY <1>3, <2>3, <2>4
  <2>. QED
    BY <2>1, <2>5 DEF Clear, Alone, CellOf, View
<1>. QED
  BY <1>4, <1>5, <1>6

LEMMA EnrichClear ==
  ASSUME RaceInv, NEW w \in PeakWorkers, Alone(w), Enrich(w)
  PROVE  Clear(w)'
<1>1. /\ Types /\ n[w] \in Nat /\ at[w] \in Nat /\ frame[w] \in Nat /\ ppc[w] = "enrich"
      /\ at[w] <= n[w]
  BY DEF Enrich, At, RaceInv, Types
<1>2. /\ at[w] \in 1..n[w] /\ frame[w] \in Seen(w)
  BY <1>1, AtWork DEF Shape
<1>3. /\ Put(w, at[w], "sub", frame[w]) /\ at'[w] = at[w] + 1
      /\ UNCHANGED <<grown, ppc, frame, n, copy>>
  BY <1>1 DEF Enrich, Types
<1>4. \A j \in 1..n[w] : View(buf', own', grown', w, j) =
        IF j = at[w] THEN With(CellOf(w, j), "sub", frame[w]) ELSE CellOf(w, j)
  BY <1>1, <1>2, <1>3, PutInSlice
<1>5. \A c : With(c, "sub", frame[w]).det = c.det /\ With(c, "sub", frame[w]).sub = frame[w]
  BY DEF With
<1>6. /\ \A j \in 1..n[w] : CellOf(w, j).det = frame[w]
      /\ \A j \in 1..(at[w] - 1) : CellOf(w, j).sub = frame[w]
      /\ copy[w] = Zero
  BY <1>1 DEF Alone
<1>7. \A j \in 1..n[w] : View(buf', own', grown', w, j).det = frame[w]
  BY <1>4, <1>5, <1>6
<1>8. \A j \in 1..at[w] : View(buf', own', grown', w, j).sub = frame[w]
  BY <1>1, <1>2, <1>4, <1>5, <1>6
<1>9. \A j \in 1..(at'[w] - 1) : View(buf', own', grown', w, j).sub = frame[w]
  BY <1>1, <1>3, <1>8
<1>. QED
  BY <1>1, <1>3, <1>6, <1>7, <1>9 DEF Clear, Alone, CellOf, View

LEMMA CopyClear ==
  ASSUME RaceInv, NEW w \in PeakWorkers, Alone(w), CopyPeak(w) \/ CopyPeakRest(w)
  PROVE  Clear(w)'
<1>1. Types /\ n[w] \in Nat /\ ppc[w] \in {"copy1", "copy2"}
  BY DEF CopyPeak, CopyPeakRest, At, RaceInv, Types
<1>2. at[w] \in 1..n[w]
  BY <1>1, AtWork DEF Shape
<1>3. /\ \A j \in 1..n[w] : CellOf(w, j).det = frame[w]
      /\ \A j \in 1..n[w] : CellOf(w, j).sub = frame[w]
  BY <1>1 DEF Alone
<1>4. CellOf(w, at[w]).det = frame[w] /\ CellOf(w, at[w]).sub = frame[w]
  BY <1>2, <1>3
<1>5. CASE CopyPeak(w)
  <2>1. copy'[w] = [det |-> CellOf(w, at[w]).det, sub |-> copy[w].sub]
    BY <1>5, CopyPeakDeed
  <2>2. ppc'[w] = "copy2" /\ UNCHANGED <<buf, own, grown, frame, n>>
    BY <1>1, <1>5 DEF CopyPeak, To, Types
  <2>3. copy'[w].det = frame[w]
    BY <1>4, <2>1
  <2>. QED
    BY <1>3, <2>2, <2>3 DEF Clear, Alone, CellOf
<1>6. CASE CopyPeakRest(w)
  <2>1. copy'[w] = [det |-> copy[w].det, sub |-> CellOf(w, at[w]).sub]
    BY <1>6, CopyPeakRestDeed
  <2>2. ppc'[w] = "done" /\ UNCHANGED frame /\ ppc[w] = "copy2"
    BY <1>1, <1>6 DEF CopyPeakRest, At, To, Types
  <2>3. copy[w].det = frame[w]
    BY <2>2 DEF Alone
  <2>4. copy'[w] = OwnPeak(w)'
    BY <1>4, <2>1, <2>2, <2>3 DEF OwnPeak
  <2>. QED
    BY <2>2, <2>4 DEF Clear, Active
<1>. QED
  BY <1>5, <1>6

-----------------------------------------------------------------------------
LEMMA WorkKeepsPure ==
  ASSUME RaceInv, NEW w \in PeakWorkers, PeakStep(w), ~EnterDetect(w), NEW u \in PeakWorkers,
         Pure(u)
  PROVE  Pure(u)'
<1>1. Deed(w)
  BY WorkIsDeed
<1>2. met' = met /\ frame' = frame /\ w \in Active
  BY <1>1 DEF Deed
<1>. SUFFICES ASSUME met[u] = {}
              PROVE  Clear(u)'
  BY <1>2 DEF Pure, Clear, OwnPeak
<1>3. CASE u = w
  <2>1. Alone(w)
    BY <1>2, <1>3 DEF Pure
  <2>. QED
    BY <1>3, <2>1, FoundClear, FoundRestClear, MovingClear, ScanClear, CompactClear, EnrichClear,
       CopyClear, Zenon DEF PeakStep
<1>4. CASE u # w
  <2>1. u \notin Active
    BY <1>2, <1>4 DEF RaceInv, Meets
  <2>2. Same(u)
    BY <1>1, <1>4 DEF Deed
  <2>. QED
    BY <1>2, <2>1, <2>2 DEF Pure, Clear, OwnPeak, Same, Active
<1>. QED
  BY <1>3, <1>4

LEMMA EnterKeepsPure ==
  ASSUME RaceInv, NEW w \in PeakWorkers, EnterDetect(w), NEW u \in PeakWorkers, Pure(u)
  PROVE  Pure(u)'
<1>1. /\ ppc'[w] = "detect" /\ n'[w] = 0 /\ copy'[w] = Zero
      /\ \A v \in PeakWorkers \ {w} : Same(v) /\ frame'[v] = frame[v]
      /\ \A v \in PeakWorkers \ {w} :
           met'[v] = IF v \in Active THEN met[v] \cup {taken + 1} ELSE met[v]
  BY EnterTypes
<1>2. CASE u = w
  BY <1>1, <1>2 DEF Pure, Alone
<1>3. CASE u # w
  <2>1. CASE u \in Active
    BY <1>1, <1>3, <2>1 DEF Pure
  <2>2. CASE u \notin Active
    BY <1>1, <1>3, <2>2 DEF Pure, Same, Active
  <2>. QED
    BY <2>1, <2>2
<1>. QED
  BY <1>2, <1>3

PureInv == RaceInv /\ \A w \in PeakWorkers : Pure(w)

LEMMA PureInit == Init => PureInv
<1>1. Init => \A w \in PeakWorkers : Pure(w)
  BY DEF Init, Pure, Active
<1>. QED
  BY <1>1, RaceInit DEF PureInv

LEMMA PureStep == PureInv /\ [Next]_vars => PureInv'
<1>. SUFFICES ASSUME PureInv, [Next]_vars PROVE PureInv'
  OBVIOUS
<1>1. RaceInv'
  BY RaceStep DEF PureInv
<1>2. ASSUME NEW w \in PeakWorkers, PeakStep(w), NEW u \in PeakWorkers
      PROVE  Pure(u)'
  BY <1>2, EnterKeepsPure, WorkKeepsPure DEF PureInv
<1>3. ASSUME UNCHANGED vars, NEW u \in PeakWorkers
      PROVE  Pure(u)'
  BY <1>3 DEF PureInv, vars, Pure, Alone, Active, CellOf
<1>. QED
  BY <1>1, <1>2, <1>3 DEF PureInv, Next

(* A call that no other overlapped measures a peak of its own frame, with  *)
(* the subpixel values of its own, whatever earlier frames and longer      *)
(* slices left behind in the array.                                        *)
THEOREM PeakUndisturbedIsOwn == Spec => []UndisturbedIsOwn
<1>1. PureInv => UndisturbedIsOwn
  BY DEF PureInv, Pure, UndisturbedIsOwn, Delivered
<1>. QED
  BY <1>1, PureInit, PureStep, PTL DEF Spec
=============================================================================
