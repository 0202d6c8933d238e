------------------------------ MODULE FftProofs ------------------------------
(***************************************************************************)
(* Proofs about the algorithms that work on one frame: what becomes of a   *)
(* datagram, what the framer reads in it, the sweep of the multipath       *)
(* suppressor, and the detection of peaks, of which the sweep is a stage.  *)
(* Frames has no state in common with the other two.                       *)
(***************************************************************************)
EXTENDS Frames, Detection, FiniteSetTheorems, WellFoundedInduction, TLAPS

-----------------------------------------------------------------------------
(* Sums.  The folds of the library are defined by recursion over a set, and *)
(* an induction is an appeal to a smallest set for which a claim fails.    *)

LEMMA LeastNatural ==
  ASSUME NEW T, T \subseteq Nat, T # {}
  PROVE  \E n \in T : \A m \in T : n <= m
<1>1. \E x \in T : \A y \in T : <<y, x>> \notin OpToRel(<, Nat)
  BY NatLessThanWellFounded, WFMin
<1>2. \A x, y \in Nat : x < y => <<x, y>> \in OpToRel(<, Nat)
  BY DEF OpToRel
<1>3. \E x \in T : \A y \in T : ~(y < x)
  BY <1>1, <1>2
<1>. QED  BY <1>3

Chosen(s) == CHOOSE x \in s : TRUE

(* The equation of a sum over the subsets of S that h satisfies.           *)
Sums(h, f, D) ==
  h = [s \in D |-> IF s = {} THEN 0 ELSE f[Chosen(s)] + h[s \ {Chosen(s)}]]

SmallSubsets(S, n) == {s \in SUBSET S : Cardinality(s) <= n}

LEMMA WithoutChosen ==
  ASSUME NEW s, IsFiniteSet(s), s # {}
  PROVE  /\ Chosen(s) \in s
         /\ IsFiniteSet(s \ {Chosen(s)})
         /\ Cardinality(s) \in Nat /\ Cardinality(s) > 0
         /\ Cardinality(s \ {Chosen(s)}) = Cardinality(s) - 1
<1>1. Chosen(s) \in s
  BY DEF Chosen
<1>2. Cardinality(s) \in Nat /\ Cardinality(s) # 0
  BY FS_CardinalityType, FS_EmptySet
<1>3. IsFiniteSet(s \ {Chosen(s)}) /\ Cardinality(s \ {Chosen(s)}) = Cardinality(s) - 1
  BY <1>1, FS_RemoveElement
<1>. QED  BY <1>1, <1>2, <1>3

LEMMA SumsExist ==
  ASSUME NEW f, NEW S, IsFiniteSet(S)
  PROVE  \E h : Sums(h, f, SUBSET S)
<1>. DEFINE Lacking(n) == ~ \E h : Sums(h, f, SmallSubsets(S, n))
            T == {n \in Nat : Lacking(n)}
<1>0. \A s \in SUBSET S : IsFiniteSet(s) /\ Cardinality(s) \in Nat
  BY FS_Subset, FS_CardinalityType
<1>1. T = {}
  <2>. SUFFICES ASSUME T # {} PROVE FALSE
    OBVIOUS
  <2>1. PICK n \in T : \A m \in T : n <= m
    <3>. HIDE DEF Lacking
    <3>. QED  BY LeastNatural
  <2>2. n # 0
    <3>1. SmallSubsets(S, 0) = {{}}
      BY <1>0, FS_EmptySet DEF SmallSubsets
    <3>2. Sums([s \in {{}} |-> 0], f, {{}})
      BY DEF Sums
    <3>. QED  BY <2>1, <3>1, <3>2
  <2>3. n \in Nat /\ n - 1 \in Nat /\ n - 1 \notin T
    BY <2>1, <2>2
  <2>4. PICK h : Sums(h, f, SmallSubsets(S, n - 1))
    BY <2>3
  <2>. DEFINE k == [s \in SmallSubsets(S, n) |->
                      IF s = {} THEN 0 ELSE f[Chosen(s)] + h[s \ {Chosen(s)}]]
  <2>5. \A s \in SmallSubsets(S, n) : s # {} =>
          /\ s \ {Chosen(s)} \in SmallSubsets(S, n - 1)
          /\ s \ {Chosen(s)} \in SmallSubsets(S, n)
    <3>. SUFFICES ASSUME NEW s \in SmallSubsets(S, n), s # {}
                  PROVE  /\ s \ {Chosen(s)} \in SmallSubsets(S, n - 1)
                         /\ s \ {Chosen(s)} \in SmallSubsets(S, n)
      OBVIOUS
    <3>1. s \in SUBSET S /\ Cardinality(s) <= n /\ IsFiniteSet(s)
      BY <1>0 DEF SmallSubsets
    <3>2. Cardinality(s) \in Nat /\ Cardinality(s \ {Chosen(s)}) = Cardinality(s) - 1
      BY <3>1, WithoutChosen
    <3>. QED  BY <2>3, <3>1, <3>2 DEF SmallSubsets
  <2>6. \A s \in SmallSubsets(S, n - 1) : k[s] = h[s]
    <3>1. \A s \in SmallSubsets(S, n - 1) : s \in SmallSubsets(S, n)
      BY <1>0, <2>3 DEF SmallSubsets
    <3>2. \A s \in SmallSubsets(S, n - 1) :
            h[s] = IF s = {} THEN 0 ELSE f[Chosen(s)] + h[s \ {Chosen(s)}]
      BY <2>4 DEF Sums
    <3>. QED  BY <3>1, <3>2
  <2>7. \A s \in SmallSubsets(S, n) : s # {} => h[s \ {Chosen(s)}] = k[s \ {Chosen(s)}]
    BY <2>5, <2>6
  <2>8. Sums(k, f, SmallSubsets(S, n))
    BY <2>7 DEF Sums
  <2>. QED  BY <2>1, <2>8
<1>2. Cardinality(S) \in Nat /\ SmallSubsets(S, Cardinality(S)) = SUBSET S
  BY <1>0, FS_Subset, FS_CardinalityType DEF SmallSubsets
<1>3. \E h : Sums(h, f, SmallSubsets(S, Cardinality(S)))
  BY <1>1, <1>2
<1>. QED  BY <1>2, <1>3

(* Induction over the subsets of a finite set: of those for which a claim  *)
(* fails one is smallest.                                                  *)
LEMMA SmallestSet ==
  ASSUME NEW S, IsFiniteSet(S), NEW C, C \subseteq SUBSET S, C # {}
  PROVE  \E s \in C : \A t \in SUBSET S : Cardinality(t) < Cardinality(s) => t \notin C
<1>. DEFINE T == {Cardinality(s) : s \in C}
<1>1. \A s \in SUBSET S : Cardinality(s) \in Nat
  BY FS_Subset, FS_CardinalityType
<1>2. T \subseteq Nat /\ T # {}
  BY <1>1
<1>3. PICK n \in T : \A m \in T : n <= m
  BY <1>2, LeastNatural
<1>4. PICK s \in C : Cardinality(s) = n
  BY <1>3
<1>5. \A t \in C : Cardinality(s) <= Cardinality(t)
  BY <1>3, <1>4
<1>. QED  BY <1>1, <1>4, <1>5

LEMMA SumsAgree ==
  ASSUME NEW f, NEW S, IsFiniteSet(S), NEW T \in SUBSET S, NEW h, NEW k,
         Sums(h, f, SUBSET S), Sums(k, f, SUBSET T)
  PROVE  h[T] = k[T]
<1>. DEFINE C == {s \in SUBSET T : h[s] # k[s]}
<1>. SUFFICES ASSUME C # {} PROVE FALSE
  OBVIOUS
<1>1. IsFiniteSet(T) /\ \A s \in SUBSET T : IsFiniteSet(s)
  BY FS_Subset
<1>2. PICK s \in C : \A t \in SUBSET T : Cardinality(t) < Cardinality(s) => t \notin C
  <2>1. C \subseteq SUBSET T
    OBVIOUS
  <2>. HIDE DEF C
  <2>. QED  BY <1>1, <2>1, SmallestSet
<1>3. /\ h[s] = IF s = {} THEN 0 ELSE f[Chosen(s)] + h[s \ {Chosen(s)}]
      /\ k[s] = IF s = {} THEN 0 ELSE f[Chosen(s)] + k[s \ {Chosen(s)}]
  BY DEF Sums
<1>4. s # {}
  BY <1>3
<1>5. Cardinality(s \ {Chosen(s)}) < Cardinality(s)
  <2>1. IsFiniteSet(s)
    BY <1>1
  <2>2. /\ Cardinality(s) \in Nat
        /\ Cardinality(s \ {Chosen(s)}) = Cardinality(s) - 1
    BY <1>4, <2>1, WithoutChosen
  <2>. QED  BY <2>2
<1>6. h[s \ {Chosen(s)}] = k[s \ {Chosen(s)}]
  BY <1>2, <1>5
<1>. QED  BY <1>3, <1>4, <1>6

LEMMA SumEquation ==
  ASSUME NEW f, NEW S, IsFiniteSet(S)
  PROVE  SumFunctionOnSet(f, S) =
           IF S = {} THEN 0 ELSE f[Chosen(S)] + SumFunctionOnSet(f, S \ {Chosen(S)})
<1>. DEFINE SumsOver(T) == CHOOSE h : Sums(h, f, SUBSET T)
<1>1. \A T \in SUBSET S : Sums(SumsOver(T), f, SUBSET T)
  <2>1. \A T \in SUBSET S : \E h : Sums(h, f, SUBSET T)
    BY FS_Subset, SumsExist
  <2>. QED  BY <2>1
<1>2. \A T : SumFunctionOnSet(f, T) = SumsOver(T)[T]
  BY DEF SumFunctionOnSet, FoldFunctionOnSet, MapThenFoldSet, Sums, Chosen
<1>. DEFINE R == S \ {Chosen(S)}
<1>3. SumsOver(S)[S] = IF S = {} THEN 0 ELSE f[Chosen(S)] + SumsOver(S)[R]
  <2>1. Sums(SumsOver(S), f, SUBSET S)
    BY <1>1
  <2>. HIDE DEF SumsOver
  <2>. QED  BY <2>1 DEF Sums
<1>4. SumsOver(S)[R] = SumsOver(R)[R]
  <2>. HIDE DEF SumsOver
  <2>1. R \in SUBSET S
    OBVIOUS
  <2>2. Sums(SumsOver(S), f, SUBSET S) /\ Sums(SumsOver(R), f, SUBSET R)
    BY <1>1, <2>1
  <2>. HIDE DEF R
  <2>. QED  BY <2>1, <2>2, SumsAgree
<1>. QED  BY <1>2, <1>3, <1>4

LEMMA SumStep ==
  ASSUME NEW f, NEW S, IsFiniteSet(S), NEW s, s \subseteq S
  PROVE  \/ s = {} /\ SumFunctionOnSet(f, s) = 0
         \/ /\ Chosen(s) \in s /\ s \ {Chosen(s)} \in SUBSET S
            /\ Cardinality(s \ {Chosen(s)}) < Cardinality(s)
            /\ Cardinality(s \ {Chosen(s)}) \in Nat
            /\ Cardinality(s) = Cardinality(s \ {Chosen(s)}) + 1
            /\ SumFunctionOnSet(f, s) = f[Chosen(s)] + SumFunctionOnSet(f, s \ {Chosen(s)})
<1>1. IsFiniteSet(s)
  BY FS_Subset
<1>2. CASE s = {}
  BY <1>1, <1>2, SumEquation
<1>3. CASE s # {}
  <2>1. SumFunctionOnSet(f, s) = f[Chosen(s)] + SumFunctionOnSet(f, s \ {Chosen(s)})
    BY <1>1, <1>3, SumEquation
  <2>2. /\ Chosen(s) \in s /\ Cardinality(s) \in Nat /\ Cardinality(s) > 0
        /\ Cardinality(s \ {Chosen(s)}) = Cardinality(s) - 1
    BY <1>1, <1>3, WithoutChosen
  <2>3. /\ Cardinality(s \ {Chosen(s)}) < Cardinality(s)
        /\ Cardinality(s \ {Chosen(s)}) \in Nat
        /\ Cardinality(s) = Cardinality(s \ {Chosen(s)}) + 1
    BY <2>2
  <2>. QED  BY <2>1, <2>2, <2>3
<1>. QED  BY <1>2, <1>3

LEMMA SumNatural ==
  ASSUME NEW f, NEW S, IsFiniteSet(S), \A x \in S : f[x] \in Nat
  PROVE  SumFunctionOnSet(f, S) \in Nat
<1>. DEFINE C == {s \in SUBSET S : SumFunctionOnSet(f, s) \notin Nat}
<1>. SUFFICES ASSUME C # {} PROVE FALSE
  OBVIOUS
<1>1. PICK s \in C : \A t \in SUBSET S : Cardinality(t) < Cardinality(s) => t \notin C
  <2>1. C \subseteq SUBSET S
    OBVIOUS
  <2>. HIDE DEF C
  <2>. QED  BY <2>1, SmallestSet
<1>2. CASE s = {} /\ SumFunctionOnSet(f, s) = 0
  BY <1>2
<1>3. CASE /\ Chosen(s) \in s /\ s \ {Chosen(s)} \in SUBSET S
           /\ Cardinality(s \ {Chosen(s)}) < Cardinality(s)
           /\ SumFunctionOnSet(f, s) = f[Chosen(s)] + SumFunctionOnSet(f, s \ {Chosen(s)})
  <2>1. SumFunctionOnSet(f, s \ {Chosen(s)}) \in Nat
    BY <1>1, <1>3
  <2>2. f[Chosen(s)] \in Nat
    BY <1>3
  <2>. QED  BY <1>3, <2>1, <2>2
<1>. QED  BY <1>2, <1>3, SumStep

LEMMA SumInteger ==
  ASSUME NEW f, NEW S, IsFiniteSet(S), \A x \in S : f[x] \in Int
  PROVE  SumFunctionOnSet(f, S) \in Int
<1>. DEFINE C == {s \in SUBSET S : SumFunctionOnSet(f, s) \notin Int}
<1>. SUFFICES ASSUME C # {} PROVE FALSE
  OBVIOUS
<1>1. PICK s \in C : \A t \in SUBSET S : Cardinality(t) < Cardinality(s) => t \notin C
  <2>1. C \subseteq SUBSET S
    OBVIOUS
  <2>. HIDE DEF C
  <2>. QED  BY <2>1, SmallestSet
<1>2. CASE s = {} /\ SumFunctionOnSet(f, s) = 0
  BY <1>2
<1>3. CASE /\ Chosen(s) \in s /\ s \ {Chosen(s)} \in SUBSET S
           /\ Cardinality(s \ {Chosen(s)}) < Cardinality(s)
           /\ SumFunctionOnSet(f, s) = f[Chosen(s)] + SumFunctionOnSet(f, s \ {Chosen(s)})
  <2>1. SumFunctionOnSet(f, s \ {Chosen(s)}) \in Int
    BY <1>1, <1>3
  <2>2. f[Chosen(s)] \in Int
    BY <1>3
  <2>. QED  BY <1>3, <2>1, <2>2
<1>. QED  BY <1>2, <1>3, SumStep

LEMMA SumConstant ==
  ASSUME NEW f, NEW S, IsFiniteSet(S), NEW c \in Int, \A x \in S : f[x] = c
  PROVE  SumFunctionOnSet(f, S) = c * Cardinality(S)
<1>. DEFINE C == {s \in SUBSET S : SumFunctionOnSet(f, s) # c * Cardinality(s)}
<1>. SUFFICES ASSUME C # {} PROVE FALSE
  OBVIOUS
<1>1. PICK s \in C : \A t \in SUBSET S : Cardinality(t) < Cardinality(s) => t \notin C
  <2>1. C \subseteq SUBSET S
    OBVIOUS
  <2>. HIDE DEF C
  <2>. QED  BY <2>1, SmallestSet
<1>2. CASE s = {} /\ SumFunctionOnSet(f, s) = 0
  BY <1>2, FS_EmptySet
<1>3. CASE /\ Chosen(s) \in s /\ s \ {Chosen(s)} \in SUBSET S
           /\ Cardinality(s \ {Chosen(s)}) < Cardinality(s)
           /\ Cardinality(s \ {Chosen(s)}) \in Nat
           /\ Cardinality(s) = Cardinality(s \ {Chosen(s)}) + 1
           /\ SumFunctionOnSet(f, s) = f[Chosen(s)] + SumFunctionOnSet(f, s \ {Chosen(s)})
  <2>. DEFINE n == Cardinality(s \ {Chosen(s)})
  <2>1. SumFunctionOnSet(f, s \ {Chosen(s)}) = c * n
    BY <1>1, <1>3
  <2>2. f[Chosen(s)] = c
    BY <1>3
  <2>3. n \in Nat /\ Cardinality(s) = n + 1 /\ SumFunctionOnSet(f, s) = c + c * n
    BY <1>3, <2>1, <2>2
  <2>. HIDE DEF n
  <2>4. c + c * n = c * (n + 1)
    BY <2>3
  <2>. QED  BY <2>3, <2>4
<1>. QED  BY <1>2, <1>3, SumStep

LEMMA SumBounded ==
  ASSUME NEW f, NEW h, NEW a \in Nat, NEW S, IsFiniteSet(S),
         \A x \in S : f[x] \in Nat /\ h[x] \in Nat /\ f[x] <= a * h[x]
  PROVE  SumFunctionOnSet(f, S) <= a * SumFunctionOnSet(h, S)
<1>. DEFINE C == {s \in SUBSET S : ~(SumFunctionOnSet(f, s) <= a * SumFunctionOnSet(h, s))}
<1>. SUFFICES ASSUME C # {} PROVE FALSE
  OBVIOUS
<1>1. PICK s \in C : \A t \in SUBSET S : Cardinality(t) < Cardinality(s) => t \notin C
  <2>1. C \subseteq SUBSET S
    OBVIOUS
  <2>. HIDE DEF C
  <2>. QED  BY <2>1, SmallestSet
<1>2. CASE s = {}
  <2>1. SumFunctionOnSet(f, s) = 0 /\ SumFunctionOnSet(h, s) = 0
    BY <1>2, FS_EmptySet, SumEquation
  <2>. QED  BY <2>1
<1>3. CASE s # {}
  <2>. DEFINE x == Chosen(s)
              r == s \ {Chosen(s)}
              sf == SumFunctionOnSet(f, r)
              sh == SumFunctionOnSet(h, r)
  <2>1. /\ x \in s /\ r \in SUBSET S /\ Cardinality(r) < Cardinality(s)
        /\ SumFunctionOnSet(f, s) = f[x] + sf
    BY <1>3, SumStep
  <2>2. SumFunctionOnSet(h, s) = h[x] + sh
    BY <1>3, SumStep
  <2>3. sf <= a * sh
    BY <1>1, <2>1
  <2>4. f[x] \in Nat /\ h[x] \in Nat /\ f[x] <= a * h[x]
    BY <2>1
  <2>5. IsFiniteSet(r) /\ \A y \in r : f[y] \in Nat /\ h[y] \in Nat
    BY <2>1, FS_Subset
  <2>6. sf \in Nat /\ sh \in Nat
    BY <2>5, SumNatural
  <2>. HIDE DEF x, r, sf, sh
  <2>7. f[x] + sf <= a * (h[x] + sh)
    <3>1. a * (h[x] + sh) = a * h[x] + a * sh
      BY <2>4, <2>6
    <3>. QED  BY <2>3, <2>4, <2>6, <3>1
  <2>. QED  BY <2>1, <2>2, <2>7
<1>. QED  BY <1>2, <1>3

LEMMA SumTakeOut ==
  ASSUME NEW f, NEW S, IsFiniteSet(S), \A x \in S : f[x] \in Int, NEW e \in S
  PROVE  SumFunctionOnSet(f, S) = f[e] + SumFunctionOnSet(f, S \ {e})
<1>. DEFINE Out(s, x) == SumFunctionOnSet(f, s) = f[x] + SumFunctionOnSet(f, s \ {x})
            C == {s \in SUBSET S : \E x \in s : ~Out(s, x)}
<1>. SUFFICES ASSUME C # {} PROVE FALSE
  OBVIOUS
<1>1. PICK s \in C : \A t \in SUBSET S : Cardinality(t) < Cardinality(s) => t \notin C
  <2>1. C \subseteq SUBSET S
    OBVIOUS
  <2>. HIDE DEF C
  <2>. QED  BY <2>1, SmallestSet
<1>2. PICK x \in s : ~Out(s, x)
  OBVIOUS
<1>. DEFINE y == Chosen(s)
<1>3. /\ s \in SUBSET S /\ x \in S
      /\ y \in s /\ s \ {y} \in SUBSET S
      /\ Cardinality(s \ {y}) < Cardinality(s)
      /\ Out(s, y)
  BY <1>2, SumStep
<1>4. x # y
  BY <1>2, <1>3
<1>5. Out(s \ {y}, x)
  BY <1>1, <1>2, <1>3, <1>4
<1>6. Out(s \ {x}, y)
  <2>1. IsFiniteSet(s)
    BY <1>3, FS_Subset
  <2>2. Cardinality(s) \in Nat /\ Cardinality(s \ {x}) = Cardinality(s) - 1
    BY <1>2, <2>1, FS_RemoveElement, FS_CardinalityType
  <2>3. s \ {x} \in SUBSET S /\ Cardinality(s \ {x}) < Cardinality(s)
    BY <1>3, <2>2
  <2>. QED  BY <1>1, <1>3, <1>4, <2>3
<1>7. (s \ {x}) \ {y} = (s \ {y}) \ {x}
  OBVIOUS
<1>8. f[x] \in Int /\ f[y] \in Int /\ SumFunctionOnSet(f, (s \ {x}) \ {y}) \in Int
  <2>1. (s \ {x}) \ {y} \subseteq S
    BY <1>3
  <2>2. IsFiniteSet((s \ {x}) \ {y}) /\ \A z \in (s \ {x}) \ {y} : f[z] \in Int
    BY <2>1, FS_Subset
  <2>. QED  BY <1>3, <2>2, SumInteger
<1>. DEFINE rest == SumFunctionOnSet(f, (s \ {x}) \ {y})
<1>9. /\ SumFunctionOnSet(f, s) = f[y] + SumFunctionOnSet(f, s \ {y})
      /\ SumFunctionOnSet(f, s \ {y}) = f[x] + rest
      /\ SumFunctionOnSet(f, s \ {x}) = f[y] + rest
  BY <1>3, <1>5, <1>6, <1>7
<1>10. rest \in Int
  BY <1>8
<1>. HIDE DEF rest, y
<1>11. SumFunctionOnSet(f, s) = f[x] + SumFunctionOnSet(f, s \ {x})
  BY <1>8, <1>9, <1>10
<1>. QED  BY <1>2, <1>11

LEMMA RestSmaller ==
  ASSUME NEW S, IsFiniteSet(S), NEW s, s \subseteq S, s # {}
  PROVE  /\ Chosen(s) \in s /\ s \ {Chosen(s)} \in SUBSET S
         /\ Cardinality(s \ {Chosen(s)}) < Cardinality(s)
<1>1. IsFiniteSet(s)
  BY FS_Subset
<1>2. Chosen(s) \in s
  BY <1>1, WithoutChosen
<1>3. /\ Cardinality(s) \in Nat
      /\ Cardinality(s \ {Chosen(s)}) = Cardinality(s) - 1
  BY <1>1, WithoutChosen
<1>. QED  BY <1>2, <1>3

LEMMA SumRest ==
  ASSUME NEW f, NEW S, IsFiniteSet(S), NEW s, s \subseteq S, s # {}
  PROVE  SumFunctionOnSet(f, s) = f[Chosen(s)] + SumFunctionOnSet(f, s \ {Chosen(s)})
BY SumStep, Zenon

LEMMA SumLinear ==
  ASSUME NEW f, NEW h, NEW k, NEW a \in Int, NEW b \in Int, NEW S, IsFiniteSet(S),
         \A x \in S : h[x] \in Int /\ k[x] \in Int /\ f[x] = a * h[x] + b * k[x]
  PROVE  SumFunctionOnSet(f, S) = a * SumFunctionOnSet(h, S) + b * SumFunctionOnSet(k, S)
<1>. DEFINE Equal(s) ==
              SumFunctionOnSet(f, s) = a * SumFunctionOnSet(h, s) + b * SumFunctionOnSet(k, s)
            C == {s \in SUBSET S : ~Equal(s)}
<1>. SUFFICES ASSUME C # {} PROVE FALSE
  OBVIOUS
<1>1. PICK s \in C : \A t \in SUBSET S : Cardinality(t) < Cardinality(s) => t \notin C
  <2>1. C \subseteq SUBSET S
    OBVIOUS
  <2>. HIDE DEF C
  <2>. QED  BY <2>1, SmallestSet
<1>2. CASE s = {}
  <2>1. SumFunctionOnSet(f, s) = 0 /\ SumFunctionOnSet(h, s) = 0 /\ SumFunctionOnSet(k, s) = 0
    BY <1>2, FS_EmptySet, SumEquation
  <2>2. Equal(s)
    BY <2>1
  <2>. QED  BY <2>2
<1>3. CASE s # {}
  <2>. DEFINE x == Chosen(s)
              r == s \ {Chosen(s)}
              sh == SumFunctionOnSet(h, r)
              sk == SumFunctionOnSet(k, r)
  <2>. s \subseteq S
    OBVIOUS
  <2>1. x \in s /\ r \in SUBSET S /\ Cardinality(r) < Cardinality(s)
    BY <1>3, RestSmaller, Zenon
  <2>2. SumFunctionOnSet(f, s) = f[x] + SumFunctionOnSet(f, r)
    BY <1>3, SumRest, Zenon
  <2>3. SumFunctionOnSet(h, s) = h[x] + sh
    BY <1>3, SumRest, Zenon
  <2>4. SumFunctionOnSet(k, s) = k[x] + sk
    BY <1>3, SumRest, Zenon
  <2>5. /\ x \in s /\ r \in SUBSET S /\ Cardinality(r) < Cardinality(s)
        /\ SumFunctionOnSet(f, s) = f[x] + SumFunctionOnSet(f, r)
        /\ SumFunctionOnSet(h, s) = h[x] + sh /\ SumFunctionOnSet(k, s) = k[x] + sk
    BY <2>1, <2>2, <2>3, <2>4, Zenon
  <2>6. SumFunctionOnSet(f, r) = a * sh + b * sk
    BY <1>1, <2>5
  <2>7. h[x] \in Int /\ k[x] \in Int /\ f[x] = a * h[x] + b * k[x]
    BY <2>5
  <2>8. IsFiniteSet(r) /\ \A y \in r : h[y] \in Int /\ k[y] \in Int
    BY <2>5, FS_Subset
  <2>9. sh \in Int /\ sk \in Int
    BY <2>8, SumInteger
  <2>. HIDE DEF x, r, sh, sk
  <2>10. (a * h[x] + b * k[x]) + (a * sh + b * sk) = a * (h[x] + sh) + b * (k[x] + sk)
    BY <2>7, <2>9
  <2>11. Equal(s)
    BY <2>5, <2>6, <2>7, <2>10
  <2>. QED  BY <2>11
<1>. QED  BY <1>2, <1>3

LEMMA SumSame ==
  ASSUME NEW f, NEW h, NEW S, IsFiniteSet(S), \A x \in S : h[x] \in Int /\ f[x] = h[x]
  PROVE  SumFunctionOnSet(f, S) = SumFunctionOnSet(h, S) /\ SumFunctionOnSet(h, S) \in Int
<1>1. \A x \in S : f[x] = 1 * h[x] + 0 * h[x]
  OBVIOUS
<1>2. SumFunctionOnSet(h, S) \in Int
  BY SumInteger
<1>3. SumFunctionOnSet(f, S) = 1 * SumFunctionOnSet(h, S) + 0 * SumFunctionOnSet(h, S)
  BY <1>1, SumLinear
<1>. QED  BY <1>2, <1>3

(* Sums over an interval from zero.                                        *)
LEMMA SumLast ==
  ASSUME NEW n \in Nat, NEW f, \A x \in 0..n : f[x] \in Int
  PROVE  /\ SumFunctionOnSet(f, 0..n) = f[n] + SumFunctionOnSet(f, 0..(n - 1))
         /\ SumFunctionOnSet(f, 0..(n - 1)) \in Int
<1>. DEFINE T == 0..n
<1>1. IsFiniteSet(T) /\ n \in T /\ T \ {n} = 0..(n - 1)
  <2>1. IsFiniteSet(0..n)
    BY FS_Interval
  <2>2. n \in T /\ T \ {n} = 0..(n - 1)
    OBVIOUS
  <2>. QED  BY <2>1, <2>2
<1>2. IsFiniteSet(0..(n - 1)) /\ \A x \in 0..(n - 1) : f[x] \in Int
  BY FS_Interval
<1>3. SumFunctionOnSet(f, 0..(n - 1)) \in Int
  BY <1>2, SumInteger
<1>4. \A x \in T : f[x] \in Int
  OBVIOUS
<1>. HIDE DEF T
<1>5. SumFunctionOnSet(f, T) = f[n] + SumFunctionOnSet(f, T \ {n})
  BY <1>1, <1>4, SumTakeOut
<1>. QED  BY <1>1, <1>3, <1>5 DEF T

LEMMA SumOfNone == ASSUME NEW f PROVE SumFunctionOnSet(f, 0..(-1)) = 0
<1>1. 0..(-1) = {}
  OBVIOUS
<1>. QED  BY <1>1, SumEquation, FS_EmptySet

ByParity(f, s, e, o) ==
  /\ \A x \in 0..(2 * s - 1) : f[x] \in Int
  /\ \A t \in 0..(s - 1) : e[t] = f[2 * t] /\ o[t] = f[2 * t + 1]

LEMMA SumHalves ==
  ASSUME NEW s \in Nat, NEW f, NEW e, NEW o, ByParity(f, s, e, o)
  PROVE  SumFunctionOnSet(f, 0..(2 * s - 1)) =
           SumFunctionOnSet(e, 0..(s - 1)) + SumFunctionOnSet(o, 0..(s - 1))
<1>. DEFINE F(n) == SumFunctionOnSet(f, 0..n)
            E(n) == SumFunctionOnSet(e, 0..n)
            O(n) == SumFunctionOnSet(o, 0..n)
            T == {k \in 0..s : F(2 * k - 1) # E(k - 1) + O(k - 1)}
<1>0. s \in 0..s
  OBVIOUS
<1>. USE DEF ByParity
<1>. SUFFICES ASSUME T # {} PROVE FALSE
  BY <1>0, Zenon
<1>1. PICK k \in T : \A m \in T : k <= m
  <2>1. T \subseteq Nat
    OBVIOUS
  <2>. HIDE DEF T
  <2>. QED  BY <2>1, LeastNatural
<1>2. k \in 0..s
  OBVIOUS
<1>3. k # 0
  <2>1. F(-1) = 0 /\ E(-1) = 0 /\ O(-1) = 0
    BY SumOfNone
  <2>2. 2 * 0 - 1 = -1 /\ 0 - 1 = -1
    OBVIOUS
  <2>. HIDE DEF F, E, O
  <2>. QED  BY <2>1, <2>2
<1>4. F(2 * (k - 1) - 1) = E((k - 1) - 1) + O((k - 1) - 1)
  <2>1. k - 1 \in 0..s /\ ~(k <= k - 1)
    BY <1>2, <1>3
  <2>. HIDE DEF F, E, O
  <2>. QED  BY <1>1, <2>1
<1>. HIDE DEF T
<1>5. /\ F(2 * k - 1) = f[2 * k - 1] + F((2 * k - 1) - 1) /\ F((2 * k - 1) - 1) \in Int
  <2>1. 2 * k - 1 \in Nat /\ \A x \in 0..(2 * k - 1) : f[x] \in Int
    BY <1>2, <1>3
  <2>. QED  BY <2>1, SumLast
<1>6. /\ F(2 * k - 2) = f[2 * k - 2] + F((2 * k - 2) - 1) /\ F((2 * k - 2) - 1) \in Int
  <2>1. 2 * k - 2 \in Nat /\ \A x \in 0..(2 * k - 2) : f[x] \in Int
    BY <1>2, <1>3
  <2>. QED  BY <2>1, SumLast
<1>7. /\ E(k - 1) = e[k - 1] + E((k - 1) - 1) /\ E((k - 1) - 1) \in Int
      /\ O(k - 1) = o[k - 1] + O((k - 1) - 1) /\ O((k - 1) - 1) \in Int
  <2>1. k - 1 \in Nat /\ \A x \in 0..(k - 1) : e[x] \in Int /\ o[x] \in Int
    BY <1>2, <1>3
  <2>. QED  BY <2>1, SumLast
<1>8. e[k - 1] = f[2 * k - 2] /\ o[k - 1] = f[2 * k - 1]
      /\ f[2 * k - 2] \in Int /\ f[2 * k - 1] \in Int
  <2>1. k - 1 \in 0..(s - 1) /\ 2 * (k - 1) = 2 * k - 2 /\ 2 * (k - 1) + 1 = 2 * k - 1
        /\ 2 * k - 2 \in 0..(2 * s - 1) /\ 2 * k - 1 \in 0..(2 * s - 1)
    BY <1>2, <1>3
  <2>. QED  BY <2>1
<1>9. (2 * k - 1) - 1 = 2 * k - 2 /\ (2 * k - 2) - 1 = 2 * (k - 1) - 1
  BY <1>2
<1>. HIDE DEF F, E, O
<1>10. F(2 * k - 1) = E(k - 1) + O(k - 1)
  BY <1>4, <1>5, <1>6, <1>7, <1>8, <1>9
<1>. QED  BY <1>1, <1>10 DEF T

-----------------------------------------------------------------------------
(* A configuration once the unset numbers have their defaults.             *)
Geometry == [ hdr : Nat, bits : Nat \ {0}, samples : Nat, chirps : Nat, rx : Nat,
              range : Nat \ {0}, doppler : Nat \ {0}, guard : Nat \ {0},
              hann : BOOLEAN, shift : BOOLEAN ]

LEMMA GeometriesTyped == Geometries \subseteq Geometry
<1>. SUFFICES ASSUME NEW file \in Files PROVE SetDefaults(file) \in Geometry
  BY DEF Geometries
<1>1. file \in File
  BY FramesAssumption
<1>2. /\ file.hdr \in Nat /\ file.bits \in Nat /\ file.samples \in Nat /\ file.chirps \in Nat
      /\ file.rx \in Nat /\ file.range \in Nat /\ file.doppler \in Nat /\ file.guard \in Nat
      /\ file.hann \in BOOLEAN /\ file.shift \in BOOLEAN
  BY <1>1 DEF File
<1>3. /\ OrDefault(file.hdr, 64) \in Nat /\ OrDefault(file.bits, 16) \in Nat \ {0}
      /\ OrDefault(file.range, 256) \in Nat \ {0} /\ OrDefault(file.doppler, 64) \in Nat \ {0}
      /\ OrDefault(file.guard, 2) \in Nat \ {0}
  BY <1>2 DEF OrDefault
<1>. QED  BY <1>2, <1>3 DEF SetDefaults, Geometry

LEMMA WidthKnown == Width \in {12, 14, 16}
BY DEF Width, WidthOf

-----------------------------------------------------------------------------
(* A datagram leads to no detection in any width above four bits.  The     *)
(* invariant remembers what the framer knew when it read a sample: the     *)
(* datagram was complete and the first channel fitted in a row.  The copy  *)
(* into RangeDoppler bounds the matrix by the pool's few rows, so one with *)
(* an interior, of four bins at least each way, takes four chirps of four  *)
(* samples; five bits for each of these, read at sixteen at most, are more *)
(* samples than a row of one chirp has.                                    *)

Silent == \A row \in DOMAIN IFData : \A k \in DOMAIN IFData[row] : IFData[row][k] = 0

FirstRowFits ==
  /\ g.rx > 0 /\ g.chirps > 0 /\ g.samples > 0
  /\ ~Incomplete
  /\ Extracted(0) <= g.samples

FramesInv ==
  /\ g \in Geometries
  /\ datagram.length \in Nat
  /\ Parsed => Silent \/ FirstRowFits
  /\ pc = "done" => CopyFits

-----------------------------------------------------------------------------
(* A size above two is at least four.                                      *)
LEMMA SizeAboveTwo ==
  ASSUME NEW n \in Sizes, n > 2
  PROVE  n >= 4
<1>1. n \in Nat /\ (n = 1 \/ n % 2 = 0)
  BY TransformAssumption
<1>. QED  BY <1>1

LEMMA ProductsGrow ==
  ASSUME NEW a \in Nat, NEW b \in Nat, NEW c \in Nat, NEW d \in Nat, a <= b, c <= d
  PROVE  a * c <= b * d
<1>1. a * c <= b * c
  BY SMT
<1>2. b * c <= b * d
  BY SMT
<1>. QED  BY <1>1, <1>2

(* Two and a half bytes for each sample of a chirp of four samples or more *)
(* are, at sixteen bits, at least one sample too many.                     *)
LEMMA BytesOverflowRow ==
  ASSUME NEW s \in Nat, s >= 4, NEW m \in Nat, m >= 20 * s,
         NEW len \in Nat, len >= m \div 8, NEW width \in {12, 14, 16}
  PROVE  (8 * len) \div width \in Nat /\ (8 * len) \div width > s
<1>1. len >= 2 * s + 2
  BY SMT
<1>2. CASE width = 12
  BY <1>1, <1>2, SMT
<1>3. CASE width = 14
  BY <1>1, <1>3, SMT
<1>4. CASE width = 16
  BY <1>1, <1>4, SMT
<1>. QED  BY <1>2, <1>3, <1>4

LEMMA FirstRowBoundsMatrix ==
  ASSUME g \in Geometries, datagram.length \in Nat, FirstRowFits, CopyFits, g.bits > 4
  PROVE  ~Scannable
<1>. SUFFICES ASSUME Scannable PROVE FALSE
  OBVIOUS
<1>. DEFINE n == g.samples * g.chirps
            m == SampleCount(g)
            len == datagram.length - g.hdr
<1>1. /\ g.hdr \in Nat /\ g.bits \in Nat /\ g.samples \in Nat /\ g.chirps \in Nat
      /\ g.rx \in Nat /\ g.range \in Nat /\ g.doppler \in Nat /\ g.guard \in Nat \ {0}
  BY GeometriesTyped DEF Geometry
<1>2. g.range >= 4 /\ g.doppler >= 4
  <2>1. g.range > 2 /\ g.doppler > 2
    BY <1>1 DEF Scannable
  <2>. QED  BY <2>1, SizeAboveTwo, TransformAssumption
<1>3. g.chirps >= 4 /\ g.samples >= 4
  <2>1. g.doppler <= g.chirps /\ g.range <= g.samples
    BY <1>1 DEF CopyFits, PoolRows, PoolCols, FirstRowFits
  <2>. QED  BY <1>1, <1>2, <2>1
<1>4. n \in Nat /\ n >= 4 * g.samples
  BY <1>1, <1>3, ProductsGrow
<1>5. m \in Nat /\ m >= n
  <2>1. n \in Nat /\ m = g.rx * n
    BY <1>1, SMT DEF SampleCount
  <2>2. 1 * n <= g.rx * n
    BY <1>1, <2>1, ProductsGrow DEF FirstRowFits
  <2>. QED  BY <1>1, <2>1, <2>2, SMT
<1>6. m * g.bits \in Nat /\ m * g.bits >= 20 * g.samples
  <2>1. (4 * g.samples) * 5 <= m * g.bits
    BY <1>1, <1>4, <1>5, ProductsGrow
  <2>. QED  BY <1>1, <1>5, <2>1
<1>7. len \in Nat /\ len >= (m * g.bits) \div 8
  <2>1. (m * g.bits) \div 8 \in Nat
    BY <1>6, SMT
  <2>2. datagram.length >= g.hdr + (m * g.bits) \div 8
    BY <1>1, <1>5, <2>1 DEF FirstRowFits, Incomplete, ExpectedSize
  <2>. QED  BY <1>1, <2>1, <2>2, SMT
<1>8. (8 * len) \div Width \in Nat /\ (8 * len) \div Width > g.samples
  BY <1>1, <1>3, <1>6, <1>7, BytesOverflowRow, WidthKnown
<1>9. Extracted(0) \in Nat /\ Extracted(0) > g.samples
  <2>1. ChannelOffset(0) = 0
    BY <1>1, <1>4, SMT DEF ChannelOffset, SamplesPerChannel
  <2>2. Extracted(0) = IF (8 * len) \div Width < n THEN (8 * len) \div Width ELSE n
    BY <1>1, <1>4, <1>7, <2>1, SMT DEF Extracted, SamplesPerChannel
  <2>. QED  BY <1>1, <1>3, <1>4, <1>8, <2>2, SMT
<1>. QED  BY <1>1, <1>9 DEF FirstRowFits

-----------------------------------------------------------------------------
LEMMA UnpackedIsSilent ==
  ASSUME g \in Geometry, IFData' = Unpacked, \A ch \in 0..(g.rx - 1) : RowFits(ch),
         datagram.length \in Nat, g.rx = 0 \/ SamplesPerChannel = 0
  PROVE  Silent'
<1>1. \A ch \in 0..(PoolRows - 1), k \in 0..(PoolCols - 1) :
        ~(ch < g.rx /\ k < Extracted(ch))
  <2>. SUFFICES ASSUME NEW ch \in 0..(PoolRows - 1), NEW k \in 0..(PoolCols - 1),
                       ch < g.rx, k < Extracted(ch)
                PROVE  FALSE
    OBVIOUS
  <2>. DEFINE fit == (8 * (datagram.length - g.hdr - ChannelOffset(ch))) \div Width
  <2>1. g.rx \in Nat /\ g.hdr \in Nat /\ g.bits \in Nat /\ Width \in {12, 14, 16} /\ SamplesPerChannel \in Nat
        /\ PoolRows \in Nat /\ PoolCols \in Nat
    BY FramesAssumption, WidthKnown, SMT DEF Geometry, PoolRows, PoolCols, SamplesPerChannel
  <2>2. SamplesPerChannel = 0 /\ ChannelOffset(ch) = 0
    BY <2>1, SMT DEF ChannelOffset
  <2>3. fit \in Int
    BY <2>1, <2>2, SMT
  <2>4. Extracted(ch) <= 0
    BY <2>2, <2>3, SMT DEF Extracted
  <2>5. Extracted(ch) \in Int
    BY <2>2, <2>3, SMT DEF Extracted
  <2>. QED  BY <2>1, <2>4, <2>5, SMT
<1>. QED  BY <1>1 DEF Silent, Unpacked

LEMMA FramesInvInit == FrameInit => FramesInv
<1>. SUFFICES ASSUME FrameInit PROVE FramesInv
  OBVIOUS
<1>1. g \in Geometries /\ datagram.length \in Nat
  <2>1. CASE datagram = None
    BY <2>1 DEF FrameInit, None
  <2>2. CASE datagram # None
    <3>1. g \in Geometries /\ datagram \in Datagrams(g)
      BY <2>2 DEF FrameInit
    <3>2. datagram.length \in 0..MaxPacketSize
      BY <3>1, FramesAssumption
    <3>. QED  BY <3>1, <3>2
  <2>. QED  BY <2>1, <2>2
<1>2. ~Parsed /\ pc # "done"
  BY DEF FrameInit, Parsed
<1>. QED  BY <1>1, <1>2 DEF FramesInv

LEMMA FramesInvStep == FramesInv /\ [FrameNext]_frameVars => FramesInv'
<1>. SUFFICES ASSUME FramesInv, [FrameNext]_frameVars PROVE FramesInv'
  OBVIOUS
<1>1. ASSUME UNCHANGED <<g, datagram, IFData>>, pc' # "done", Parsed' => Parsed
      PROVE  FramesInv'
  BY <1>1 DEF FramesInv, Silent, FirstRowFits, Incomplete, ExpectedSize, SampleCount, Extracted, Width, WidthOf,
              ChannelOffset, SamplesPerChannel
<1>2. CASE Parse
  <2>1. g' = g /\ datagram' = datagram /\ pc' # "done"
    BY <1>2 DEF Parse
  <2>2. Silent' \/ FirstRowFits
    <3>1. CASE g.rx = 0 \/ SamplesPerChannel = 0
      BY <1>2, <3>1, UnpackedIsSilent, GeometriesTyped DEF FramesInv, Parse
    <3>2. CASE g.rx # 0 /\ SamplesPerChannel # 0
      <4>1. g.rx > 0 /\ g.chirps > 0 /\ g.samples > 0
        BY <3>2, GeometriesTyped, SMT DEF FramesInv, Geometry, SamplesPerChannel
      <4>2. 0 \in 0..(g.rx - 1) /\ PoolCols = g.samples
        BY <4>1, GeometriesTyped, SMT DEF FramesInv, Geometry, PoolCols
      <4>. QED  BY <1>2, <4>1, <4>2 DEF Parse, RowFits, FirstRowFits
    <3>. QED  BY <3>1, <3>2
  <2>3. FirstRowFits => FirstRowFits'
    BY <2>1 DEF FirstRowFits, Incomplete, ExpectedSize, SampleCount, Extracted, Width, WidthOf, ChannelOffset,
                SamplesPerChannel
  <2>. QED  BY <2>1, <2>2, <2>3 DEF FramesInv
<1>3. CASE Reject \/ ParsePanics \/ TransformPanics
  BY <1>1, <1>3 DEF Reject, ParsePanics, TransformPanics, Parsed
<1>4. CASE RangeTransform \/ DopplerTransform
  BY <1>1, <1>4 DEF RangeTransform, DopplerTransform, Parsed
<1>5. CASE Shift
  <2>1. UNCHANGED <<g, datagram, IFData>> /\ CopyFits /\ (Parsed' => Parsed)
    BY <1>5 DEF Shift, Parsed
  <2>. QED  BY <2>1 DEF FramesInv, Silent, FirstRowFits, Incomplete, ExpectedSize, SampleCount,
                        Extracted, Width, WidthOf, ChannelOffset, SamplesPerChannel, CopyFits,
                        PoolRows, PoolCols
<1>6. CASE UNCHANGED frameVars
  BY <1>6 DEF frameVars, FramesInv, Silent, FirstRowFits, Incomplete, ExpectedSize, SampleCount, Extracted, Width, WidthOf,
              ChannelOffset, SamplesPerChannel, Parsed, CopyFits, PoolRows, PoolCols
<1>. QED  BY <1>2, <1>3, <1>4, <1>5, <1>6 DEF FrameNext

(* Whatever the configuration file and the datagram, if samples have more  *)
(* than four bits a frame the framer has read leaves CFAR no cell to scan, *)
(* or nothing but zeros.                                                   *)
THEOREM FramesNothingToDetect == FrameSpec => []NothingToDetect
<1>1. FramesInv => NothingToDetect
  <2>. SUFFICES ASSUME FramesInv, datagram # None, pc = "done", Scannable,
                       g.bits > 4
                PROVE  Silent
    BY DEF NothingToDetect, Silent
  <2>1. Silent \/ FirstRowFits
    BY DEF FramesInv, Parsed
  <2>2. ~FirstRowFits
    BY FirstRowBoundsMatrix DEF FramesInv
  <2>. QED  BY <2>1, <2>2
<1>. QED  BY <1>1, FramesInvInit, FramesInvStep, PTL DEF FrameSpec

-----------------------------------------------------------------------------
(* The samples the framer reads are those the radar sent.  A sample has an *)
(* even width and begins at an even bit, so all is said in digits to base  *)
(* four: the digits of the bytes from the one a sample begins in are those *)
(* of the payload, those of the sample are among them, and shifting and    *)
(* masking the bytes leaves exactly these.                                 *)

LEMMA Powers ==
  /\ 2^0 = 1 /\ 2^1 = 2 /\ 2^2 = 4 /\ 2^3 = 8 /\ 2^4 = 16 /\ 2^5 = 32 /\ 2^6 = 64 /\ 2^7 = 128
  /\ 2^8 = 256 /\ 2^9 = 512 /\ 2^10 = 1024 /\ 2^11 = 2048 /\ 2^12 = 4096 /\ 2^13 = 8192
  /\ 2^14 = 16384 /\ 2^15 = 32768 /\ 2^16 = 65536
OBVIOUS

(* Low digits are lost to a division, high ones to a remainder.            *)
LEMMA LowLost ==
  ASSUME NEW m \in {1, 4, 16, 64}, NEW low \in Int, 0 <= low, low < m, NEW high \in Int
  PROVE  (low + m * high) \div m = high
<1>1. CASE m = 1
  BY <1>1
<1>2. CASE m = 4
  BY <1>2
<1>3. CASE m = 16
  BY <1>3
<1>4. CASE m = 64
  BY <1>4
<1>. QED  BY <1>1, <1>2, <1>3, <1>4

LEMMA HighLost ==
  ASSUME NEW m \in {4096, 16384, 65536}, NEW low \in Int, 0 <= low, low < m, NEW high \in Int
  PROVE  (low + m * high) % m = low
<1>1. CASE m = 4096
  BY <1>1, SMT
<1>2. CASE m = 16384
  BY <1>2, SMT
<1>3. CASE m = 65536
  BY <1>3, SMT
<1>. QED  BY <1>1, <1>2, <1>3

(* Samples have even widths, so bits are taken in pairs: digits to base 4. *)
Digits == [0..11 -> 0..3]

Word4(q, o) == q[o] + 4 * q[o + 1] + 16 * q[o + 2] + 64 * q[o + 3]
Word6(q, o) == Word4(q, o) + 256 * q[o + 4] + 1024 * q[o + 5]
Word7(q, o) == Word6(q, o) + 4096 * q[o + 6]
Word8(q, o) == Word7(q, o) + 16384 * q[o + 7]

LEMMA DigitsTyped ==
  ASSUME NEW q \in Digits
  PROVE
         /\ q[0] \in Int /\ 0 <= q[0] /\ q[0] <= 3
         /\ q[1] \in Int /\ 0 <= q[1] /\ q[1] <= 3
         /\ q[2] \in Int /\ 0 <= q[2] /\ q[2] <= 3
         /\ q[3] \in Int /\ 0 <= q[3] /\ q[3] <= 3
         /\ q[4] \in Int /\ 0 <= q[4] /\ q[4] <= 3
         /\ q[5] \in Int /\ 0 <= q[5] /\ q[5] <= 3
         /\ q[6] \in Int /\ 0 <= q[6] /\ q[6] <= 3
         /\ q[7] \in Int /\ 0 <= q[7] /\ q[7] <= 3
         /\ q[8] \in Int /\ 0 <= q[8] /\ q[8] <= 3
         /\ q[9] \in Int /\ 0 <= q[9] /\ q[9] <= 3
         /\ q[10] \in Int /\ 0 <= q[10] /\ q[10] <= 3
         /\ q[11] \in Int /\ 0 <= q[11] /\ q[11] <= 3
BY DEF Digits

LEMMA WordsBounded ==
  ASSUME NEW q \in Digits, NEW o \in 0..4
  PROVE  /\ Word6(q, o) \in Int /\ 0 <= Word6(q, o) /\ Word6(q, o) < 4096
         /\ Word7(q, o) \in Int /\ 0 <= Word7(q, o) /\ Word7(q, o) < 16384
         /\ Word8(q, o) \in Int /\ 0 <= Word8(q, o) /\ Word8(q, o) < 65536
<1>1. ASSUME NEW k \in 0..7
      PROVE  q[o + k] \in Int /\ 0 <= q[o + k] /\ q[o + k] <= 3
  <2>1. o + k \in 0..11
    OBVIOUS
  <2>. QED  BY <2>1 DEF Digits
<1>2. /\ q[o] \in Int /\ 0 <= q[o] /\ q[o] <= 3
      /\ q[o + 1] \in Int /\ 0 <= q[o + 1] /\ q[o + 1] <= 3
      /\ q[o + 2] \in Int /\ 0 <= q[o + 2] /\ q[o + 2] <= 3
      /\ q[o + 3] \in Int /\ 0 <= q[o + 3] /\ q[o + 3] <= 3
      /\ q[o + 4] \in Int /\ 0 <= q[o + 4] /\ q[o + 4] <= 3
      /\ q[o + 5] \in Int /\ 0 <= q[o + 5] /\ q[o + 5] <= 3
      /\ q[o + 6] \in Int /\ 0 <= q[o + 6] /\ q[o + 6] <= 3
      /\ q[o + 7] \in Int /\ 0 <= q[o + 7] /\ q[o + 7] <= 3
  <2>1. o + 0 = o
    OBVIOUS
  <2>. QED  BY <1>1, <2>1
<1>3. Word4(q, o) \in Int /\ 0 <= Word4(q, o) /\ Word4(q, o) < 256
  BY <1>2 DEF Word4
<1>4. Word6(q, o) \in Int /\ 0 <= Word6(q, o) /\ Word6(q, o) < 4096
  BY <1>2, <1>3 DEF Word6
<1>5. Word7(q, o) \in Int /\ 0 <= Word7(q, o) /\ Word7(q, o) < 16384
  BY <1>2, <1>4 DEF Word7
<1>6. Word8(q, o) \in Int /\ 0 <= Word8(q, o) /\ Word8(q, o) < 65536
  BY <1>2, <1>5 DEF Word8
<1>. QED  BY <1>4, <1>5, <1>6

LEMMA Aligned12 ==
  ASSUME NEW q \in Digits
  PROVE  /\ (Word4(q, 0) \div 1 + Word4(q, 4) * 256) % 4096 = Word6(q, 0)
         /\ (Word4(q, 0) \div 16 + Word4(q, 4) * 16) % 4096 = Word6(q, 2)
<1>1. (Word4(q, 0) \div 1 + Word4(q, 4) * 256) % 4096 = Word6(q, 0)
  <2>. DEFINE low == 0
              mid == q[0] + 4 * q[1] + 16 * q[2] + 64 * q[3]
              high == q[6] + 4 * q[7]
  <2>1. /\ Word4(q, 0) = low + 1 * mid
        /\ low \in Int /\ 0 <= low /\ low < 1 /\ mid \in Int
    BY DigitsTyped DEF Word4
  <2>2. Word4(q, 0) \div 1 = mid
    <3>. HIDE DEF low, mid
    <3>. QED  BY <2>1, LowLost
  <2>0. /\ q[0] \in Int /\ q[1] \in Int /\ q[2] \in Int /\ q[3] \in Int
        /\ q[4] \in Int /\ q[5] \in Int /\ q[6] \in Int /\ q[7] \in Int
        /\ q[8] \in Int /\ q[9] \in Int /\ q[10] \in Int /\ q[11] \in Int
    BY DigitsTyped
  <2>3. mid + Word4(q, 4) * 256 = Word6(q, 0) + 4096 * high
    <3>1. Word6(q, 0) = q[0] + 4 * q[1] + 16 * q[2] + 64 * q[3] + 256 * q[4] + 1024 * q[5]
      BY DEF Word4, Word6
    <3>2. Word4(q, 4) = q[4] + 4 * q[5] + 16 * q[6] + 64 * q[7]
      BY DEF Word4
    <3>. QED  BY <2>0, <3>1, <3>2
  <2>4. /\ Word6(q, 0) \in Int /\ 0 <= Word6(q, 0) /\ Word6(q, 0) < 4096
        /\ high \in Int
    BY DigitsTyped, WordsBounded
  <2>5. (Word6(q, 0) + 4096 * high) % 4096 = Word6(q, 0)
    <3>. HIDE DEF high
    <3>. QED  BY <2>4, HighLost
  <2>. HIDE DEF mid, high
  <2>. QED  BY <2>2, <2>3, <2>5
<1>2. (Word4(q, 0) \div 16 + Word4(q, 4) * 16) % 4096 = Word6(q, 2)
  <2>. DEFINE low == q[0] + 4 * q[1]
              mid == q[2] + 4 * q[3]
              high == 0
  <2>1. /\ Word4(q, 0) = low + 16 * mid
        /\ low \in Int /\ 0 <= low /\ low < 16 /\ mid \in Int
    BY DigitsTyped DEF Word4
  <2>2. Word4(q, 0) \div 16 = mid
    <3>. HIDE DEF low, mid
    <3>. QED  BY <2>1, LowLost
  <2>0. /\ q[0] \in Int /\ q[1] \in Int /\ q[2] \in Int /\ q[3] \in Int
        /\ q[4] \in Int /\ q[5] \in Int /\ q[6] \in Int /\ q[7] \in Int
        /\ q[8] \in Int /\ q[9] \in Int /\ q[10] \in Int /\ q[11] \in Int
    BY DigitsTyped
  <2>3. mid + Word4(q, 4) * 16 = Word6(q, 2) + 4096 * high
    <3>1. Word6(q, 2) = q[2] + 4 * q[3] + 16 * q[4] + 64 * q[5] + 256 * q[6] + 1024 * q[7]
      BY DEF Word4, Word6
    <3>2. Word4(q, 4) = q[4] + 4 * q[5] + 16 * q[6] + 64 * q[7]
      BY DEF Word4
    <3>. QED  BY <2>0, <3>1, <3>2
  <2>4. /\ Word6(q, 2) \in Int /\ 0 <= Word6(q, 2) /\ Word6(q, 2) < 4096
        /\ high \in Int
    BY DigitsTyped, WordsBounded
  <2>5. (Word6(q, 2) + 4096 * high) % 4096 = Word6(q, 2)
    <3>. HIDE DEF high
    <3>. QED  BY <2>4, HighLost
  <2>. HIDE DEF mid, high
  <2>. QED  BY <2>2, <2>3, <2>5
<1>. QED  BY <1>1, <1>2

LEMMA Aligned14 ==
  ASSUME NEW q \in Digits
  PROVE  /\ (Word4(q, 0) \div 1 + Word4(q, 4) * 256) % 16384 = Word7(q, 0)
         /\ (Word4(q, 0) \div 4 + Word4(q, 4) * 64) % 16384 = Word7(q, 1)
         /\ (Word4(q, 0) \div 16 + Word4(q, 4) * 16 + Word4(q, 8) * 4096) % 16384 = Word7(q, 2)
         /\ (Word4(q, 0) \div 64 + Word4(q, 4) * 4 + Word4(q, 8) * 1024) % 16384 = Word7(q, 3)
<1>1. (Word4(q, 0) \div 1 + Word4(q, 4) * 256) % 16384 = Word7(q, 0)
  <2>. DEFINE low == 0
              mid == q[0] + 4 * q[1] + 16 * q[2] + 64 * q[3]
              high == q[7]
  <2>1. /\ Word4(q, 0) = low + 1 * mid
        /\ low \in Int /\ 0 <= low /\ low < 1 /\ mid \in Int
    BY DigitsTyped DEF Word4
  <2>2. Word4(q, 0) \div 1 = mid
    <3>. HIDE DEF low, mid
    <3>. QED  BY <2>1, LowLost
  <2>0. /\ q[0] \in Int /\ q[1] \in Int /\ q[2] \in Int /\ q[3] \in Int
        /\ q[4] \in Int /\ q[5] \in Int /\ q[6] \in Int /\ q[7] \in Int
        /\ q[8] \in Int /\ q[9] \in Int /\ q[10] \in Int /\ q[11] \in Int
    BY DigitsTyped
  <2>3. mid + Word4(q, 4) * 256 = Word7(q, 0) + 16384 * high
    <3>1. Word7(q, 0) = q[0] + 4 * q[1] + 16 * q[2] + 64 * q[3] + 256 * q[4] + 1024 * q[5] + 4096 * q[6]
      BY DEF Word4, Word6, Word7
    <3>2. Word4(q, 4) = q[4] + 4 * q[5] + 16 * q[6] + 64 * q[7]
      BY DEF Word4
    <3>. QED  BY <2>0, <3>1, <3>2
  <2>4. /\ Word7(q, 0) \in Int /\ 0 <= Word7(q, 0) /\ Word7(q, 0) < 16384
        /\ high \in Int
    BY DigitsTyped, WordsBounded
  <2>5. (Word7(q, 0) + 16384 * high) % 16384 = Word7(q, 0)
    <3>. HIDE DEF high
    <3>. QED  BY <2>4, HighLost
  <2>. HIDE DEF mid, high
  <2>. QED  BY <2>2, <2>3, <2>5
<1>2. (Word4(q, 0) \div 4 + Word4(q, 4) * 64) % 16384 = Word7(q, 1)
  <2>. DEFINE low == q[0]
              mid == q[1] + 4 * q[2] + 16 * q[3]
              high == 0
  <2>1. /\ Word4(q, 0) = low + 4 * mid
        /\ low \in Int /\ 0 <= low /\ low < 4 /\ mid \in Int
    BY DigitsTyped DEF Word4
  <2>2. Word4(q, 0) \div 4 = mid
    <3>. HIDE DEF low, mid
    <3>. QED  BY <2>1, LowLost
  <2>0. /\ q[0] \in Int /\ q[1] \in Int /\ q[2] \in Int /\ q[3] \in Int
        /\ q[4] \in Int /\ q[5] \in Int /\ q[6] \in Int /\ q[7] \in Int
        /\ q[8] \in Int /\ q[9] \in Int /\ q[10] \in Int /\ q[11] \in Int
    BY DigitsTyped
  <2>3. mid + Word4(q, 4) * 64 = Word7(q, 1) + 16384 * high
    <3>1. Word7(q, 1) = q[1] + 4 * q[2] + 16 * q[3] + 64 * q[4] + 256 * q[5] + 1024 * q[6] + 4096 * q[7]
      BY DEF Word4, Word6, Word7
    <3>2. Word4(q, 4) = q[4] + 4 * q[5] + 16 * q[6] + 64 * q[7]
      BY DEF Word4
    <3>. QED  BY <2>0, <3>1, <3>2
  <2>4. /\ Word7(q, 1) \in Int /\ 0 <= Word7(q, 1) /\ Word7(q, 1) < 16384
        /\ high \in Int
    BY DigitsTyped, WordsBounded
  <2>5. (Word7(q, 1) + 16384 * high) % 16384 = Word7(q, 1)
    <3>. HIDE DEF high
    <3>. QED  BY <2>4, HighLost
  <2>. HIDE DEF mid, high
  <2>. QED  BY <2>2, <2>3, <2>5
<1>3. (Word4(q, 0) \div 16 + Word4(q, 4) * 16 + Word4(q, 8) * 4096) % 16384 = Word7(q, 2)
  <2>. DEFINE low == q[0] + 4 * q[1]
              mid == q[2] + 4 * q[3]
              high == q[9] + 4 * q[10] + 16 * q[11]
  <2>1. /\ Word4(q, 0) = low + 16 * mid
        /\ low \in Int /\ 0 <= low /\ low < 16 /\ mid \in Int
    BY DigitsTyped DEF Word4
  <2>2. Word4(q, 0) \div 16 = mid
    <3>. HIDE DEF low, mid
    <3>. QED  BY <2>1, LowLost
  <2>0. /\ q[0] \in Int /\ q[1] \in Int /\ q[2] \in Int /\ q[3] \in Int
        /\ q[4] \in Int /\ q[5] \in Int /\ q[6] \in Int /\ q[7] \in Int
        /\ q[8] \in Int /\ q[9] \in Int /\ q[10] \in Int /\ q[11] \in Int
    BY DigitsTyped
  <2>3. mid + Word4(q, 4) * 16 + Word4(q, 8) * 4096 = Word7(q, 2) + 16384 * high
    <3>1. Word7(q, 2) = q[2] + 4 * q[3] + 16 * q[4] + 64 * q[5] + 256 * q[6] + 1024 * q[7] + 4096 * q[8]
      BY DEF Word4, Word6, Word7
    <3>2. Word4(q, 4) = q[4] + 4 * q[5] + 16 * q[6] + 64 * q[7] /\ Word4(q, 8) = q[8] + 4 * q[9] + 16 * q[10] + 64 * q[11]
      BY DEF Word4
    <3>. QED  BY <2>0, <3>1, <3>2
  <2>4. /\ Word7(q, 2) \in Int /\ 0 <= Word7(q, 2) /\ Word7(q, 2) < 16384
        /\ high \in Int
    BY DigitsTyped, WordsBounded
  <2>5. (Word7(q, 2) + 16384 * high) % 16384 = Word7(q, 2)
    <3>. HIDE DEF high
    <3>. QED  BY <2>4, HighLost
  <2>. HIDE DEF mid, high
  <2>. QED  BY <2>2, <2>3, <2>5
<1>4. (Word4(q, 0) \div 64 + Word4(q, 4) * 4 + Word4(q, 8) * 1024) % 16384 = Word7(q, 3)
  <2>. DEFINE low == q[0] + 4 * q[1] + 16 * q[2]
              mid == q[3]
              high == q[10] + 4 * q[11]
  <2>1. /\ Word4(q, 0) = low + 64 * mid
        /\ low \in Int /\ 0 <= low /\ low < 64 /\ mid \in Int
    BY DigitsTyped DEF Word4
  <2>2. Word4(q, 0) \div 64 = mid
    <3>. HIDE DEF low, mid
    <3>. QED  BY <2>1, LowLost
  <2>0. /\ q[0] \in Int /\ q[1] \in Int /\ q[2] \in Int /\ q[3] \in Int
        /\ q[4] \in Int /\ q[5] \in Int /\ q[6] \in Int /\ q[7] \in Int
        /\ q[8] \in Int /\ q[9] \in Int /\ q[10] \in Int /\ q[11] \in Int
    BY DigitsTyped
  <2>3. mid + Word4(q, 4) * 4 + Word4(q, 8) * 1024 = Word7(q, 3) + 16384 * high
    <3>1. Word7(q, 3) = q[3] + 4 * q[4] + 16 * q[5] + 64 * q[6] + 256 * q[7] + 1024 * q[8] + 4096 * q[9]
      BY DEF Word4, Word6, Word7
    <3>2. Word4(q, 4) = q[4] + 4 * q[5] + 16 * q[6] + 64 * q[7] /\ Word4(q, 8) = q[8] + 4 * q[9] + 16 * q[10] + 64 * q[11]
      BY DEF Word4
    <3>. QED  BY <2>0, <3>1, <3>2
  <2>4. /\ Word7(q, 3) \in Int /\ 0 <= Word7(q, 3) /\ Word7(q, 3) < 16384
        /\ high \in Int
    BY DigitsTyped, WordsBounded
  <2>5. (Word7(q, 3) + 16384 * high) % 16384 = Word7(q, 3)
    <3>. HIDE DEF high
    <3>. QED  BY <2>4, HighLost
  <2>. HIDE DEF mid, high
  <2>. QED  BY <2>2, <2>3, <2>5
<1>. QED  BY <1>1, <1>2, <1>3, <1>4

LEMMA Aligned16 ==
  ASSUME NEW q \in Digits
  PROVE  /\ (Word4(q, 0) \div 1 + Word4(q, 4) * 256) % 65536 = Word8(q, 0)
<1>1. (Word4(q, 0) \div 1 + Word4(q, 4) * 256) % 65536 = Word8(q, 0)
  <2>. DEFINE low == 0
              mid == q[0] + 4 * q[1] + 16 * q[2] + 64 * q[3]
              high == 0
  <2>1. /\ Word4(q, 0) = low + 1 * mid
        /\ low \in Int /\ 0 <= low /\ low < 1 /\ mid \in Int
    BY DigitsTyped DEF Word4
  <2>2. Word4(q, 0) \div 1 = mid
    <3>. HIDE DEF low, mid
    <3>. QED  BY <2>1, LowLost
  <2>0. /\ q[0] \in Int /\ q[1] \in Int /\ q[2] \in Int /\ q[3] \in Int
        /\ q[4] \in Int /\ q[5] \in Int /\ q[6] \in Int /\ q[7] \in Int
        /\ q[8] \in Int /\ q[9] \in Int /\ q[10] \in Int /\ q[11] \in Int
    BY DigitsTyped
  <2>3. mid + Word4(q, 4) * 256 = Word8(q, 0) + 65536 * high
    <3>1. Word8(q, 0) = q[0] + 4 * q[1] + 16 * q[2] + 64 * q[3] + 256 * q[4] + 1024 * q[5] + 4096 * q[6] + 16384 * q[7]
      BY DEF Word4, Word6, Word7, Word8
    <3>2. Word4(q, 4) = q[4] + 4 * q[5] + 16 * q[6] + 64 * q[7]
      BY DEF Word4
    <3>. QED  BY <2>0, <3>1, <3>2
  <2>4. /\ Word8(q, 0) \in Int /\ 0 <= Word8(q, 0) /\ Word8(q, 0) < 65536
        /\ high \in Int
    BY DigitsTyped, WordsBounded
  <2>5. (Word8(q, 0) + 65536 * high) % 65536 = Word8(q, 0)
    <3>. HIDE DEF high
    <3>. QED  BY <2>4, HighLost
  <2>. HIDE DEF mid, high
  <2>. QED  BY <2>2, <2>3, <2>5
<1>. QED  BY <1>1

LEMMA SumOfEight ==
  ASSUME NEW f, \A x \in 0..7 : f[x] \in Nat
  PROVE  SumFunctionOnSet(f, 0..7) =
           f[0] + f[1] + f[2] + f[3] + f[4] + f[5] + f[6] + f[7]
<1>. DEFINE S(n) == SumFunctionOnSet(f, 0..n)
<1>1. ASSUME NEW n \in 0..7
      PROVE  S(n) = f[n] + S(n - 1) /\ S(n - 1) \in Nat
  <2>1. IsFiniteSet(0..(n - 1))
    BY FS_Interval
  <2>3. \A x \in 0..n : f[x] \in Nat
    OBVIOUS
  <2>4. SumFunctionOnSet(f, 0..n) = f[n] + SumFunctionOnSet(f, 0..(n - 1))
    <3>1. n \in Nat /\ \A u \in 0..n : f[u] \in Int
      BY <2>3
    <3>. QED  BY <3>1, SumLast
  <2>5. SumFunctionOnSet(f, 0..(n - 1)) \in Nat
    <3>. DEFINE T == 0..(n - 1)
    <3>1. IsFiniteSet(T)
      BY <2>1
    <3>2. \A x \in T : f[x] \in Nat
      OBVIOUS
    <3>. HIDE DEF T
    <3>3. SumFunctionOnSet(f, T) \in Nat
      BY <3>1, <3>2, SumNatural
    <3>. QED  BY <3>3 DEF T
  <2>. QED  BY <2>4, <2>5
<1>2. S(-1) = 0
  <2>1. 0..(-1) = {}
    OBVIOUS
  <2>. QED  BY <2>1, SumEquation, FS_EmptySet
<1>. HIDE DEF S
<1>3. /\ S(0) = f[0] + S(-1) /\ S(1) = f[1] + S(0) /\ S(2) = f[2] + S(1) /\ S(3) = f[3] + S(2)
      /\ S(4) = f[4] + S(3) /\ S(5) = f[5] + S(4) /\ S(6) = f[6] + S(5) /\ S(7) = f[7] + S(6)
  BY <1>1
<1>4. /\ f[0] \in Nat /\ f[1] \in Nat /\ f[2] \in Nat /\ f[3] \in Nat
      /\ f[4] \in Nat /\ f[5] \in Nat /\ f[6] \in Nat /\ f[7] \in Nat
  OBVIOUS
<1>5. S(7) = f[0] + f[1] + f[2] + f[3] + f[4] + f[5] + f[6] + f[7]
  BY <1>2, <1>3, <1>4
<1>. QED  BY <1>5 DEF S

LEMMA BitTyped ==
  ASSUME NEW x \in Int, NEW k \in 0..15
  PROVE  Bit(x, k) \in 0..1
<1>0. CASE k = 0
  BY <1>0, Powers DEF Bit
<1>1. CASE k = 1
  BY <1>1, Powers DEF Bit
<1>2. CASE k = 2
  BY <1>2, Powers DEF Bit
<1>3. CASE k = 3
  BY <1>3, Powers DEF Bit
<1>4. CASE k = 4
  BY <1>4, Powers DEF Bit
<1>5. CASE k = 5
  BY <1>5, Powers DEF Bit
<1>6. CASE k = 6
  BY <1>6, Powers DEF Bit
<1>7. CASE k = 7
  BY <1>7, Powers DEF Bit
<1>8. CASE k = 8
  BY <1>8, Powers DEF Bit
<1>9. CASE k = 9
  BY <1>9, Powers DEF Bit
<1>10. CASE k = 10
  BY <1>10, Powers DEF Bit
<1>11. CASE k = 11
  BY <1>11, Powers DEF Bit
<1>12. CASE k = 12
  BY <1>12, Powers DEF Bit
<1>13. CASE k = 13
  BY <1>13, Powers DEF Bit
<1>14. CASE k = 14
  BY <1>14, Powers DEF Bit
<1>15. CASE k = 15
  BY <1>15, Powers DEF Bit
<1>. QED  BY <1>0, <1>1, <1>2, <1>3, <1>4, <1>5, <1>6, <1>7, <1>8, <1>9, <1>10, <1>11, <1>12, <1>13, <1>14, <1>15

(* The digits of a number, of its remainder modulo a power of four.        *)
PairsOf(x) ==
  /\ Bit(x, 0) + 2 * Bit(x, 1) = (x \div 1) % 4
  /\ Bit(x, 2) + 2 * Bit(x, 3) = (x \div 4) % 4
  /\ Bit(x, 4) + 2 * Bit(x, 5) = (x \div 16) % 4
  /\ Bit(x, 6) + 2 * Bit(x, 7) = (x \div 64) % 4
  /\ Bit(x, 8) + 2 * Bit(x, 9) = (x \div 256) % 4
  /\ Bit(x, 10) + 2 * Bit(x, 11) = (x \div 1024) % 4
  /\ Bit(x, 12) + 2 * Bit(x, 13) = (x \div 4096) % 4
  /\ Bit(x, 14) + 2 * Bit(x, 15) = (x \div 16384) % 4

LEMMA BitsInPairs ==
  ASSUME NEW x \in Int
  PROVE  PairsOf(x)
<1>0. Bit(x, 0) + 2 * Bit(x, 1) = (x \div 1) % 4
  BY Powers DEF Bit
<1>1. Bit(x, 2) + 2 * Bit(x, 3) = (x \div 4) % 4
  BY Powers DEF Bit
<1>2. Bit(x, 4) + 2 * Bit(x, 5) = (x \div 16) % 4
  BY Powers DEF Bit
<1>3. Bit(x, 6) + 2 * Bit(x, 7) = (x \div 64) % 4
  BY Powers DEF Bit
<1>4. Bit(x, 8) + 2 * Bit(x, 9) = (x \div 256) % 4
  BY Powers DEF Bit
<1>5. Bit(x, 10) + 2 * Bit(x, 11) = (x \div 1024) % 4
  BY Powers DEF Bit
<1>6. Bit(x, 12) + 2 * Bit(x, 13) = (x \div 4096) % 4
  BY Powers DEF Bit
<1>7. Bit(x, 14) + 2 * Bit(x, 15) = (x \div 16384) % 4
  BY Powers DEF Bit
<1>. QED  BY <1>0, <1>1, <1>2, <1>3, <1>4, <1>5, <1>6, <1>7 DEF PairsOf

LEMMA DigitsOfNumber ==
  ASSUME NEW x \in Int
  PROVE  /\ x \div 1 \in Int /\ (x \div 1) % 4 = x \div 1 - 4 * (x \div 4)
         /\ x \div 4 \in Int /\ (x \div 4) % 4 = x \div 4 - 4 * (x \div 16)
         /\ x \div 16 \in Int /\ (x \div 16) % 4 = x \div 16 - 4 * (x \div 64)
         /\ x \div 64 \in Int /\ (x \div 64) % 4 = x \div 64 - 4 * (x \div 256)
         /\ x \div 256 \in Int /\ (x \div 256) % 4 = x \div 256 - 4 * (x \div 1024)
         /\ x \div 1024 \in Int /\ (x \div 1024) % 4 = x \div 1024 - 4 * (x \div 4096)
         /\ x \div 4096 \in Int /\ (x \div 4096) % 4 = x \div 4096 - 4 * (x \div 16384)
         /\ x \div 16384 \in Int /\ (x \div 16384) % 4 = x \div 16384 - 4 * (x \div 65536)
         /\ x \div 65536 \in Int
<1>0. \A y \in Int : y % 4 = y - 4 * (y \div 4)
  OBVIOUS
<1>1. x \div 1 \in Int /\ x \div 4 = (x \div 1) \div 4
  OBVIOUS
<1>2. x \div 4 \in Int /\ x \div 16 = (x \div 4) \div 4
  OBVIOUS
<1>3. x \div 16 \in Int /\ x \div 64 = (x \div 16) \div 4
  OBVIOUS
<1>4. x \div 64 \in Int /\ x \div 256 = (x \div 64) \div 4
  OBVIOUS
<1>5. x \div 256 \in Int /\ x \div 1024 = (x \div 256) \div 4
  OBVIOUS
<1>6. x \div 1024 \in Int /\ x \div 4096 = (x \div 1024) \div 4
  OBVIOUS
<1>7. x \div 4096 \in Int /\ x \div 16384 = (x \div 4096) \div 4
  OBVIOUS
<1>8. x \div 16384 \in Int /\ x \div 65536 = (x \div 16384) \div 4
  OBVIOUS
<1>9. x \div 65536 \in Int
  OBVIOUS
<1>. QED  BY <1>0, <1>1, <1>2, <1>3, <1>4, <1>5, <1>6, <1>7, <1>8, <1>9

LEMMA Number12 ==
  ASSUME NEW x \in Int, NEW q \in Digits, NEW o \in 0..4,
         q[o] = (x \div 1) % 4, q[o + 1] = (x \div 4) % 4, q[o + 2] = (x \div 16) % 4,
         q[o + 3] = (x \div 64) % 4, q[o + 4] = (x \div 256) % 4, q[o + 5] = (x \div 1024) % 4
  PROVE  Word6(q, o) = x % 4096
<1>1. x = Word6(q, o) + 4096 * (x \div 4096)
  <2>1. x \div 1 = x
    OBVIOUS
  <2>. QED  BY <2>1, DigitsOfNumber DEF Word4, Word6
<1>. DEFINE y == x \div 4096
            v == Word6(q, o)
<1>2. y \in Int /\ v \in Int /\ 0 <= v /\ v < 4096
  BY WordsBounded
<1>3. x = v + 4096 * y
  BY <1>1
<1>. HIDE DEF y, v
<1>4. x % 4096 = v
  BY <1>2, <1>3, HighLost
<1>. QED  BY <1>4 DEF v

LEMMA Number14 ==
  ASSUME NEW x \in Int, NEW q \in Digits, NEW o \in 0..4,
         q[o] = (x \div 1) % 4, q[o + 1] = (x \div 4) % 4, q[o + 2] = (x \div 16) % 4,
         q[o + 3] = (x \div 64) % 4, q[o + 4] = (x \div 256) % 4, q[o + 5] = (x \div 1024) % 4,
         q[o + 6] = (x \div 4096) % 4
  PROVE  Word7(q, o) = x % 16384
<1>1. x = Word7(q, o) + 16384 * (x \div 16384)
  <2>1. x \div 1 = x
    OBVIOUS
  <2>. QED  BY <2>1, DigitsOfNumber DEF Word4, Word6, Word7
<1>. DEFINE y == x \div 16384
            v == Word7(q, o)
<1>2. y \in Int /\ v \in Int /\ 0 <= v /\ v < 16384
  BY WordsBounded
<1>3. x = v + 16384 * y
  BY <1>1
<1>. HIDE DEF y, v
<1>4. x % 16384 = v
  BY <1>2, <1>3, HighLost
<1>. QED  BY <1>4 DEF v

LEMMA Number16 ==
  ASSUME NEW x \in Int, NEW q \in Digits, NEW o \in 0..4,
         q[o] = (x \div 1) % 4, q[o + 1] = (x \div 4) % 4, q[o + 2] = (x \div 16) % 4,
         q[o + 3] = (x \div 64) % 4, q[o + 4] = (x \div 256) % 4, q[o + 5] = (x \div 1024) % 4,
         q[o + 6] = (x \div 4096) % 4, q[o + 7] = (x \div 16384) % 4
  PROVE  Word8(q, o) = x % 65536
<1>1. x = Word8(q, o) + 65536 * (x \div 65536)
  <2>1. x \div 1 = x
    OBVIOUS
  <2>. QED  BY <2>1, DigitsOfNumber DEF Word4, Word6, Word7, Word8
<1>. DEFINE y == x \div 65536
            v == Word8(q, o)
<1>2. y \in Int /\ v \in Int /\ 0 <= v /\ v < 65536
  BY WordsBounded
<1>3. x = v + 65536 * y
  BY <1>1
<1>. HIDE DEF y, v
<1>4. x % 65536 = v
  BY <1>2, <1>3, HighLost
<1>. QED  BY <1>4 DEF v

(* What a radar sends.                                                     *)
SentFits ==
  /\ Width \in {12, 14, 16}
  /\ datagram.sent \in [0..(SampleCount(g) - 1) -> (-(2^(Width - 1)))..(2^(Width - 1) - 1)]
  /\ SampleCount(g) \in Nat

LEMMA SentTyped ==
  ASSUME SentFits, NEW k \in DOMAIN datagram.sent
  PROVE  /\ k \in Nat /\ datagram.sent[k] \in Int
         /\ Width = 12 => -2048 <= datagram.sent[k] /\ datagram.sent[k] <= 2047
         /\ Width = 14 => -8192 <= datagram.sent[k] /\ datagram.sent[k] <= 8191
         /\ Width = 16 => -32768 <= datagram.sent[k] /\ datagram.sent[k] <= 32767
<1>. DEFINE s == datagram.sent[k]
<1>1. k \in Nat /\ s \in (-(2^(Width - 1)))..(2^(Width - 1) - 1)
  BY DEF SentFits
<1>. HIDE DEF s
<1>2. CASE Width = 12
  <2>1. 2^(Width - 1) = 2048
    BY <1>2, Powers
  <2>. QED  BY <1>1, <1>2, <2>1 DEF s
<1>3. CASE Width = 14
  <2>1. 2^(Width - 1) = 8192
    BY <1>3, Powers
  <2>. QED  BY <1>1, <1>3, <2>1 DEF s
<1>4. CASE Width = 16
  <2>1. 2^(Width - 1) = 32768
    BY <1>4, Powers
  <2>. QED  BY <1>1, <1>4, <2>1 DEF s
<1>. QED  BY <1>2, <1>3, <1>4 DEF SentFits

LEMMA SentBitTyped ==
  ASSUME SentFits, NEW m \in Nat
  PROVE  SentBit(m) \in 0..1
<1>1. m % Width \in 0..15
  <2>1. CASE Width = 12
    BY <2>1
  <2>2. CASE Width = 14
    BY <2>2
  <2>3. CASE Width = 16
    BY <2>3
  <2>. QED  BY <2>1, <2>2, <2>3 DEF SentFits
<1>2. CASE m \div Width \in DOMAIN datagram.sent
  <2>1. datagram.sent[m \div Width] \in Int
    BY <1>2, SentTyped
  <2>. QED  BY <1>1, <1>2, <2>1, BitTyped DEF SentBit
<1>3. CASE m \div Width \notin DOMAIN datagram.sent
  BY <1>3 DEF SentBit
<1>. QED  BY <1>2, <1>3

LEMMA SentBitOfSample ==
  ASSUME SentFits, NEW k \in DOMAIN datagram.sent, NEW t \in Nat, t < Width
  PROVE  SentBit(k * Width + t) = Bit(datagram.sent[k], t)
<1>1. k \in Nat
  BY SentTyped
<1>2. (k * Width + t) \div Width = k /\ (k * Width + t) % Width = t
  <2>1. CASE Width = 12
    BY <1>1, <2>1
  <2>2. CASE Width = 14
    BY <1>1, <2>2
  <2>3. CASE Width = 16
    BY <1>1, <2>3
  <2>. QED  BY <2>1, <2>2, <2>3 DEF SentFits
<1>. QED  BY <1>2 DEF SentBit

(* The digits sent in a byte and the two after it.                         *)
DigitsFrom(byte) ==
  [n \in 0..11 |-> SentBit(8 * byte + 2 * n) + 2 * SentBit(8 * byte + 2 * n + 1)]

LEMMA DigitsFromTyped ==
  ASSUME SentFits, NEW byte \in Nat
  PROVE  DigitsFrom(byte) \in Digits
<1>. SUFFICES ASSUME NEW n \in 0..11
              PROVE  SentBit(8 * byte + 2 * n) + 2 * SentBit(8 * byte + 2 * n + 1) \in 0..3
  BY DEF DigitsFrom, Digits
<1>1. 8 * byte + 2 * n \in Nat /\ 8 * byte + 2 * n + 1 \in Nat
  OBVIOUS
<1>2. SentBit(8 * byte + 2 * n) \in 0..1 /\ SentBit(8 * byte + 2 * n + 1) \in 0..1
  BY <1>1, SentBitTyped
<1>. QED  BY <1>2

LEMMA PayloadBits ==
  ASSUME SentFits, NEW j \in Nat
  PROVE  PayloadByte(j) =
           SentBit(8 * j) + 2 * SentBit(8 * j + 1) + 4 * SentBit(8 * j + 2)
           + 8 * SentBit(8 * j + 3) + 16 * SentBit(8 * j + 4) + 32 * SentBit(8 * j + 5)
           + 64 * SentBit(8 * j + 6) + 128 * SentBit(8 * j + 7)
<1>. DEFINE f == [n \in 0..7 |-> SentBit(8 * j + n) * 2^n]
<1>1. \A n \in 0..7 : SentBit(8 * j + n) \in 0..1
  BY SentBitTyped
<1>2. /\ f[0] = SentBit(8 * j) /\ f[1] = 2 * SentBit(8 * j + 1)
      /\ f[2] = 4 * SentBit(8 * j + 2) /\ f[3] = 8 * SentBit(8 * j + 3)
      /\ f[4] = 16 * SentBit(8 * j + 4) /\ f[5] = 32 * SentBit(8 * j + 5)
      /\ f[6] = 64 * SentBit(8 * j + 6) /\ f[7] = 128 * SentBit(8 * j + 7)
  <2>1. 8 * j + 0 = 8 * j
    OBVIOUS
  <2>. QED  BY <1>1, <2>1, Powers
<1>3. \A n \in 0..7 : f[n] \in Nat
  <2>1. \A n \in 0..7 : n = 0 \/ n = 1 \/ n = 2 \/ n = 3 \/ n = 4 \/ n = 5 \/ n = 6 \/ n = 7
    OBVIOUS
  <2>2. /\ f[0] \in Nat /\ f[1] \in Nat /\ f[2] \in Nat /\ f[3] \in Nat
        /\ f[4] \in Nat /\ f[5] \in Nat /\ f[6] \in Nat /\ f[7] \in Nat
    <3>1. 8 * j + 0 = 8 * j
      OBVIOUS
    <3>. HIDE DEF f
    <3>. QED  BY <1>1, <1>2, <3>1
  <2>. HIDE DEF f
  <2>. QED  BY <2>1, <2>2
<1>4. PayloadByte(j) = SumFunctionOnSet(f, 0..7)
  BY DEF PayloadByte, SumFunction
<1>. HIDE DEF f
<1>5. PayloadByte(j) = f[0] + f[1] + f[2] + f[3] + f[4] + f[5] + f[6] + f[7]
  BY <1>3, <1>4, SumOfEight
<1>. QED  BY <1>2, <1>5

LEMMA PayloadDigits ==
  ASSUME SentFits, NEW byte \in Nat, NEW c \in 0..2
  PROVE  PayloadByte(byte + c) = Word4(DigitsFrom(byte), 4 * c)
<1>. DEFINE q == DigitsFrom(byte)
            j == byte + c
            o == 4 * c
<1>1. /\ q[o] = SentBit(8 * j) + 2 * SentBit(8 * j + 1)
      /\ q[o + 1] = SentBit(8 * j + 2) + 2 * SentBit(8 * j + 3)
      /\ q[o + 2] = SentBit(8 * j + 4) + 2 * SentBit(8 * j + 5)
      /\ q[o + 3] = SentBit(8 * j + 6) + 2 * SentBit(8 * j + 7)
  <2>1. \A n \in 0..3 : /\ o + n \in 0..11
                        /\ 8 * byte + 2 * (o + n) = 8 * j + 2 * n
                        /\ 8 * byte + 2 * (o + n) + 1 = 8 * j + (2 * n + 1)
    OBVIOUS
  <2>2. \A n \in 0..3 : q[o + n] = SentBit(8 * j + 2 * n) + 2 * SentBit(8 * j + (2 * n + 1))
    BY <2>1 DEF DigitsFrom
  <2>3. o + 0 = o /\ 8 * j + 2 * 0 = 8 * j
    OBVIOUS
  <2>. HIDE DEF q, o, j
  <2>. QED  BY <2>2, <2>3
<1>2. j \in Nat /\ \A n \in 0..7 : SentBit(8 * j + n) \in 0..1
  BY SentBitTyped
<1>. HIDE DEF j, q, o
<1>3. Word4(q, o) = SentBit(8 * j) + 2 * SentBit(8 * j + 1) + 4 * SentBit(8 * j + 2)
           + 8 * SentBit(8 * j + 3) + 16 * SentBit(8 * j + 4) + 32 * SentBit(8 * j + 5)
           + 64 * SentBit(8 * j + 6) + 128 * SentBit(8 * j + 7)
  <2>1. /\ SentBit(8 * j) \in Int /\ SentBit(8 * j + 1) \in Int /\ SentBit(8 * j + 2) \in Int
        /\ SentBit(8 * j + 3) \in Int /\ SentBit(8 * j + 4) \in Int /\ SentBit(8 * j + 5) \in Int
        /\ SentBit(8 * j + 6) \in Int /\ SentBit(8 * j + 7) \in Int
    <3>1. 8 * j + 0 = 8 * j
      BY <1>2
    <3>. QED  BY <1>2, <3>1
  <2>. QED  BY <1>1, <2>1 DEF Word4
<1>4. PayloadByte(j) = Word4(q, o)
  BY <1>2, <1>3, PayloadBits
<1>. QED  BY <1>4 DEF j, q, o

(* The digits of sample k stand where it begins.                           *)
LEMMA DigitOfSample ==
  ASSUME SentFits, NEW k \in DOMAIN datagram.sent, NEW byte \in Nat, NEW p \in 0..3,
         k * Width = 8 * byte + 2 * p, NEW t \in 0..7, 2 * t + 1 < Width
  PROVE  DigitsFrom(byte)[p + t] =
           Bit(datagram.sent[k], 2 * t) + 2 * Bit(datagram.sent[k], 2 * t + 1)
<1>1. /\ p + t \in 0..11
      /\ 8 * byte + 2 * (p + t) = k * Width + 2 * t
      /\ 8 * byte + 2 * (p + t) + 1 = k * Width + (2 * t + 1)
  <2>1. p + t <= 10
    OBVIOUS
  <2>. QED  BY <2>1
<1>2. DigitsFrom(byte)[p + t] = SentBit(k * Width + 2 * t) + 2 * SentBit(k * Width + (2 * t + 1))
  BY <1>1 DEF DigitsFrom
<1>3. 2 * t \in Nat /\ 2 * t + 1 \in Nat /\ 2 * t < Width
  BY DEF SentFits
<1>. QED  BY <1>2, <1>3, SentBitOfSample

SampleDigits(q, p, s) ==
  /\ q[p] = (s \div 1) % 4 /\ q[p + 1] = (s \div 4) % 4
  /\ q[p + 2] = (s \div 16) % 4 /\ q[p + 3] = (s \div 64) % 4
  /\ q[p + 4] = (s \div 256) % 4 /\ q[p + 5] = (s \div 1024) % 4
  /\ Width >= 14 => q[p + 6] = (s \div 4096) % 4
  /\ Width = 16 => q[p + 7] = (s \div 16384) % 4

LEMMA DigitsOfSample ==
  ASSUME SentFits, NEW k \in DOMAIN datagram.sent, NEW byte \in Nat, NEW p \in 0..3,
         k * Width = 8 * byte + 2 * p
  PROVE  SampleDigits(DigitsFrom(byte), p, datagram.sent[k])
<1>. SUFFICES ASSUME NEW q, q = DigitsFrom(byte), NEW s, s = datagram.sent[k]
              PROVE  SampleDigits(q, p, s)
  OBVIOUS
<1>1. s \in Int
  BY SentTyped
<1>2. \A t \in 0..7 : 2 * t + 1 < Width => q[p + t] = Bit(s, 2 * t) + 2 * Bit(s, 2 * t + 1)
  BY DigitOfSample
<1>3. p + 0 = p /\ Width \in {12, 14, 16}
  BY DEF SentFits
<1>4. /\ q[p] = Bit(s, 0) + 2 * Bit(s, 1)
      /\ q[p + 1] = Bit(s, 2) + 2 * Bit(s, 3)
      /\ q[p + 2] = Bit(s, 4) + 2 * Bit(s, 5)
      /\ q[p + 3] = Bit(s, 6) + 2 * Bit(s, 7)
      /\ q[p + 4] = Bit(s, 8) + 2 * Bit(s, 9)
      /\ q[p + 5] = Bit(s, 10) + 2 * Bit(s, 11)
      /\ Width >= 14 => q[p + 6] = Bit(s, 12) + 2 * Bit(s, 13)
      /\ Width = 16 => q[p + 7] = Bit(s, 14) + 2 * Bit(s, 15)
  BY <1>2, <1>3
<1>5. PairsOf(s)
  BY <1>1, BitsInPairs
<1>. QED  BY <1>4, <1>5 DEF SampleDigits, PairsOf

(* A sample begins at an even bit of its byte.                             *)
LEMMA PlaceOfSample ==
  ASSUME NEW k \in Nat, NEW width \in {12, 14, 16}
  PROVE  LET byte == 0 + (k * width) \div 8
             off == (k * width) % 8
             p == off \div 2
         IN  byte \in Nat /\ p \in 0..3 /\ k * width = 8 * byte + 2 * p /\ off = 2 * p
<1>1. CASE width = 12
  BY <1>1
<1>2. CASE width = 14
  BY <1>2
<1>3. CASE width = 16
  BY <1>3
<1>. QED  BY <1>1, <1>2, <1>3

LEMMA SampleRead ==
  ASSUME SentFits, NEW k \in DOMAIN datagram.sent
  PROVE  Sample(0, k) = datagram.sent[k]
<1>. DEFINE s == datagram.sent[k]
            byte == 0 + (k * Width) \div 8
            off == (k * Width) % 8
            p == off \div 2
            q == DigitsFrom(byte)
            raw == PayloadByte(byte) \div 2^off + PayloadByte(byte + 1) * 2^(8 - off)
                   + (IF off + Width > 16 THEN PayloadByte(byte + 2) * 2^(16 - off) ELSE 0)
<1>1. k \in Nat /\ s \in Int /\ Width \in {12, 14, 16}
  BY SentTyped DEF SentFits
<1>2. byte \in Nat /\ p \in 0..3 /\ k * Width = 8 * byte + 2 * p /\ off = 2 * p
  BY <1>1, PlaceOfSample
<1>3. q \in Digits
  BY <1>2, DigitsFromTyped
<1>4. SampleDigits(q, p, s)
  <2>1. byte \in Nat /\ p \in 0..3 /\ k * Width = 8 * byte + 2 * p
    BY <1>2
  <2>. HIDE DEF byte, p, off
  <2>. QED  BY <2>1, DigitsOfSample
<1>5. /\ PayloadByte(byte) = Word4(q, 0) /\ PayloadByte(byte + 1) = Word4(q, 4)
      /\ PayloadByte(byte + 2) = Word4(q, 8)
  <2>. HIDE DEF byte
  <2>1. byte + 0 = byte
    BY <1>2
  <2>. QED  BY <1>2, <2>1, PayloadDigits
<1>6. Width = 12 => p \in {0, 2}
  BY <1>1
<1>7. Width = 16 => p = 0
  BY <1>1
<1>8. Sample(0, k) = SignExtended(raw % 2^Width)
  BY DEF Sample
<1>. HIDE DEF s, byte, p, off, q
<1>9. Word4(q, 0) \in Int /\ Word4(q, 4) \in Int /\ Word4(q, 8) \in Int
  BY <1>3, DigitsTyped DEF Word4
<1>10. s \in Int /\ p \in 0..4
  BY <1>1, <1>2
<1>11. raw % 2^Width = s % 2^Width
  <2>1. CASE Width = 12
    <3>1. raw % 4096 = Word6(q, p)
      <4>1. CASE p = 0
        <5>1. off = 0
          BY <1>2, <2>1, <4>1
        <5>2. 2^off = 1 /\ 2^(8 - off) = 256
          BY <5>1, Powers
        <5>3. ~(off + Width > 16)
          BY <2>1, <4>1, <5>1
        <5>4. raw = Word4(q, 0) \div 1 + Word4(q, 4) * 256
          BY <1>5, <1>9, <5>2, <5>3
        <5>. QED  BY <1>3, <2>1, <4>1, <5>4, Aligned12
      <4>2. CASE p = 2
        <5>1. off = 4
          BY <1>2, <2>1, <4>2
        <5>2. 2^off = 16 /\ 2^(8 - off) = 16
          BY <5>1, Powers
        <5>3. ~(off + Width > 16)
          BY <2>1, <4>2, <5>1
        <5>4. raw = Word4(q, 0) \div 16 + Word4(q, 4) * 16
          BY <1>5, <1>9, <5>2, <5>3
        <5>. QED  BY <1>3, <2>1, <4>2, <5>4, Aligned12
      <4>. QED  BY <1>6, <2>1, <4>1, <4>2
    <3>2. /\ q[p] = (s \div 1) % 4 /\ q[p + 1] = (s \div 4) % 4
          /\ q[p + 2] = (s \div 16) % 4 /\ q[p + 3] = (s \div 64) % 4
          /\ q[p + 4] = (s \div 256) % 4 /\ q[p + 5] = (s \div 1024) % 4
      BY <1>4, <2>1 DEF SampleDigits
    <3>3. Word6(q, p) = s % 4096
      BY <1>3, <1>10, <3>2, Number12
    <3>. QED  BY <2>1, <3>1, <3>3, Powers
  <2>2. CASE Width = 14
    <3>1. raw % 16384 = Word7(q, p)
      <4>1. CASE p = 0
        <5>1. off = 0
          BY <1>2, <2>2, <4>1
        <5>2. 2^off = 1 /\ 2^(8 - off) = 256
          BY <5>1, Powers
        <5>3. ~(off + Width > 16)
          BY <2>2, <4>1, <5>1
        <5>4. raw = Word4(q, 0) \div 1 + Word4(q, 4) * 256
          BY <1>5, <1>9, <5>2, <5>3
        <5>. QED  BY <1>3, <2>2, <4>1, <5>4, Aligned14
      <4>2. CASE p = 1
        <5>1. off = 2
          BY <1>2, <2>2, <4>2
        <5>2. 2^off = 4 /\ 2^(8 - off) = 64
          BY <5>1, Powers
        <5>3. ~(off + Width > 16)
          BY <2>2, <4>2, <5>1
        <5>4. raw = Word4(q, 0) \div 4 + Word4(q, 4) * 64
          BY <1>5, <1>9, <5>2, <5>3
        <5>. QED  BY <1>3, <2>2, <4>2, <5>4, Aligned14
      <4>3. CASE p = 2
        <5>1. off = 4
          BY <1>2, <2>2, <4>3
        <5>2. 2^off = 16 /\ 2^(8 - off) = 16 /\ 2^(16 - off) = 4096
          BY <5>1, Powers
        <5>3. off + Width > 16
          BY <2>2, <4>3, <5>1
        <5>4. raw = Word4(q, 0) \div 16 + Word4(q, 4) * 16 + Word4(q, 8) * 4096
          BY <1>5, <1>9, <5>2, <5>3
        <5>. QED  BY <1>3, <2>2, <4>3, <5>4, Aligned14
      <4>4. CASE p = 3
        <5>1. off = 6
          BY <1>2, <2>2, <4>4
        <5>2. 2^off = 64 /\ 2^(8 - off) = 4 /\ 2^(16 - off) = 1024
          BY <5>1, Powers
        <5>3. off + Width > 16
          BY <2>2, <4>4, <5>1
        <5>4. raw = Word4(q, 0) \div 64 + Word4(q, 4) * 4 + Word4(q, 8) * 1024
          BY <1>5, <1>9, <5>2, <5>3
        <5>. QED  BY <1>3, <2>2, <4>4, <5>4, Aligned14
      <4>. QED  BY <1>2, <4>1, <4>2, <4>3, <4>4
    <3>2. /\ q[p] = (s \div 1) % 4 /\ q[p + 1] = (s \div 4) % 4
          /\ q[p + 2] = (s \div 16) % 4 /\ q[p + 3] = (s \div 64) % 4
          /\ q[p + 4] = (s \div 256) % 4 /\ q[p + 5] = (s \div 1024) % 4
          /\ q[p + 6] = (s \div 4096) % 4
      BY <1>4, <2>2 DEF SampleDigits
    <3>3. Word7(q, p) = s % 16384
      BY <1>3, <1>10, <3>2, Number14
    <3>. QED  BY <2>2, <3>1, <3>3, Powers
  <2>3. CASE Width = 16
    <3>1. raw % 65536 = Word8(q, p)
      <4>0. p = 0
        BY <1>7, <2>3
      <4>1. off = 0
        BY <1>2, <2>3, <4>0
      <4>2. 2^off = 1 /\ 2^(8 - off) = 256
        BY <4>1, Powers
      <4>3. ~(off + Width > 16)
        BY <2>3, <4>0, <4>1
      <4>4. raw = Word4(q, 0) \div 1 + Word4(q, 4) * 256
        BY <1>5, <1>9, <4>2, <4>3
      <4>. QED  BY <1>3, <2>3, <4>0, <4>4, Aligned16
    <3>2. /\ q[p] = (s \div 1) % 4 /\ q[p + 1] = (s \div 4) % 4
          /\ q[p + 2] = (s \div 16) % 4 /\ q[p + 3] = (s \div 64) % 4
          /\ q[p + 4] = (s \div 256) % 4 /\ q[p + 5] = (s \div 1024) % 4
          /\ q[p + 6] = (s \div 4096) % 4 /\ q[p + 7] = (s \div 16384) % 4
      BY <1>4, <2>3 DEF SampleDigits
    <3>3. Word8(q, p) = s % 65536
      <4>1. p = 0
        BY <1>7, <2>3
      <4>2. /\ q[0] = (s \div 1) % 4 /\ q[0 + 1] = (s \div 4) % 4
            /\ q[0 + 2] = (s \div 16) % 4 /\ q[0 + 3] = (s \div 64) % 4
            /\ q[0 + 4] = (s \div 256) % 4 /\ q[0 + 5] = (s \div 1024) % 4
            /\ q[0 + 6] = (s \div 4096) % 4 /\ q[0 + 7] = (s \div 16384) % 4
        BY <3>2, <4>1
      <4>3. Word8(q, 0) = s % 65536
        BY <1>3, <1>10, <4>2, Number16
      <4>. QED  BY <4>1, <4>3
    <3>. QED  BY <2>3, <3>1, <3>3, Powers
  <2>. QED  BY <1>1, <2>1, <2>2, <2>3
<1>12. SignExtended(s % 2^Width) = s
  <2>1. CASE Width = 12
    <3>1. 2^Width = 4096 /\ 2^(Width - 1) = 2048
      BY <2>1, Powers
    <3>2. -2048 <= s /\ s <= 2047
      BY <2>1, SentTyped DEF s
    <3>. QED  BY <1>1, <3>1, <3>2 DEF SignExtended
  <2>2. CASE Width = 14
    <3>1. 2^Width = 16384 /\ 2^(Width - 1) = 8192
      BY <2>2, Powers
    <3>2. -8192 <= s /\ s <= 8191
      BY <2>2, SentTyped DEF s
    <3>. QED  BY <1>1, <3>1, <3>2 DEF SignExtended
  <2>3. CASE Width = 16
    <3>1. 2^Width = 65536 /\ 2^(Width - 1) = 32768
      BY <2>3, Powers
    <3>2. -32768 <= s /\ s <= 32767
      BY <2>3, SentTyped DEF s
    <3>. QED  BY <1>1, <3>1, <3>2 DEF SignExtended
  <2>. QED  BY <1>1, <2>1, <2>2, <2>3
<1>. QED  BY <1>8, <1>11, <1>12 DEF s

-----------------------------------------------------------------------------
(* The framer reads the datagram before it, and what it has read stays.    *)
RowsInv ==
  /\ g \in Geometries
  /\ datagram = None \/ datagram \in Datagrams(g)
  /\ RowsHoldSamples

LEMMA DatagramTyped ==
  ASSUME RowsInv, datagram # None
  PROVE  /\ datagram.length \in Nat
         /\ g \in Geometry /\ SampleCount(g) \in Nat
         /\ FromRadar(datagram, g) \/ FromSimulator(datagram, g)
<1>1. g \in Geometry /\ datagram \in Datagrams(g)
  BY GeometriesTyped DEF RowsInv
<1>2. SampleCount(g) \in Nat
  <2>1. g.rx \in Nat /\ g.chirps \in Nat /\ g.samples \in Nat
    BY <1>1 DEF Geometry
  <2>. QED  BY <2>1 DEF SampleCount
<1>. QED  BY <1>1, <1>2, FramesAssumption DEF RowsInv

(* A simulator's datagram is shorter than the header and its samples.      *)
LEMMA SimulatorIsIncomplete ==
  ASSUME RowsInv, datagram # None, FromSimulator(datagram, g)
  PROVE  Incomplete
<1>1. /\ g.hdr \in Nat /\ SampleCount(g) \in Nat /\ datagram.length \in Nat
      /\ g.bits = 16 /\ g.hdr > 44 /\ datagram.length <= 44 + 2 * SampleCount(g)
  BY DatagramTyped DEF Geometry, FromSimulator, SimulatorLength
<1>2. (SampleCount(g) * 16) \div 8 = 2 * SampleCount(g)
  BY <1>1
<1>. QED  BY <1>1, <1>2 DEF Incomplete, ExpectedSize

LEMMA ParseReadsSamples ==
  ASSUME RowsInv, Parse, datagram # None
  PROVE  RowsHoldSamples'
<1>1. /\ g' = g /\ datagram' = datagram /\ ~Incomplete /\ IFData' = Unpacked
      /\ \A ch \in 0..(g.rx - 1) : RowFits(ch)
  BY DEF Parse
<1>2. FromRadar(datagram, g) /\ g \in Geometry /\ datagram.length \in Nat
      /\ SampleCount(g) \in Nat
  BY <1>1, DatagramTyped, SimulatorIsIncomplete
<1>3. SentFits
  BY <1>2 DEF SentFits, FromRadar, Width, WidthOf
<1>4. ASSUME NEW k \in DOMAIN datagram.sent, g.rx > 0, k < SamplesPerChannel,
             8 * (datagram.length - g.hdr) >= (k + 1) * Width
      PROVE  k \in DOMAIN Unpacked[0] /\ Unpacked[0][k] = datagram.sent[k]
  <2>1. /\ g.rx \in Nat /\ g.hdr \in Nat /\ g.bits \in Nat /\ Width \in {12, 14, 16} /\ SamplesPerChannel \in Nat
        /\ PoolRows \in Nat /\ PoolCols \in Nat /\ k \in Nat
    <3>1. /\ g.rx \in Nat /\ g.hdr \in Nat /\ g.bits \in Nat /\ Width \in {12, 14, 16}
          /\ g.samples \in Nat /\ g.chirps \in Nat
      BY <1>2, WidthKnown DEF Geometry
    <3>2. DefaultRows \in Nat /\ DefaultCols \in Nat
      BY FramesAssumption
    <3>. QED  BY <1>3, <3>1, <3>2, SentTyped DEF PoolRows, PoolCols, SamplesPerChannel
  <2>2. ChannelOffset(0) = 0
    BY <2>1 DEF ChannelOffset
  <2>. DEFINE fit == (8 * (datagram.length - g.hdr)) \div Width
              len == datagram.length - g.hdr
  <2>3. fit \in Int /\ k < fit
    <3>1. len \in Int /\ 8 * len >= (k + 1) * Width
      BY <1>2, <1>4, <2>1
    <3>. HIDE DEF len
    <3>2. (8 * len) \div Width \in Int /\ k < (8 * len) \div Width
      <4>1. CASE Width = 12
        BY <2>1, <3>1, <4>1
      <4>2. CASE Width = 14
        BY <2>1, <3>1, <4>2
      <4>3. CASE Width = 16
        BY <2>1, <3>1, <4>3
      <4>. QED  BY <2>1, <4>1, <4>2, <4>3
    <3>. QED  BY <3>2 DEF len
  <2>4. Extracted(0) = IF fit < SamplesPerChannel THEN fit ELSE SamplesPerChannel
    <3>1. datagram.length - g.hdr - 0 = datagram.length - g.hdr
      BY <1>2, <2>1
    <3>. QED  BY <2>2, <3>1 DEF Extracted
  <2>. HIDE DEF fit
  <2>5. Extracted(0) \in Int /\ k < Extracted(0)
    BY <1>4, <2>1, <2>3, <2>4
  <2>6. 0 < PoolRows /\ Extracted(0) <= PoolCols
    <3>1. 0 \in 0..(g.rx - 1)
      BY <1>4, <2>1
    <3>. QED  BY <1>1, <3>1 DEF RowFits
  <2>7. 0 \in 0..(PoolRows - 1) /\ k \in 0..(PoolCols - 1)
    BY <2>1, <2>5, <2>6
  <2>8. DOMAIN Unpacked[0] = 0..(PoolCols - 1) /\ Unpacked[0][k] = Sample(ChannelOffset(0), k)
    BY <1>4, <2>5, <2>7 DEF Unpacked
  <2>9. Sample(0, k) = datagram.sent[k]
    BY <1>3, SampleRead
  <2>. QED  BY <2>2, <2>7, <2>8, <2>9
<1>5. SamplesPerChannel' = SamplesPerChannel /\ Width' = Width
  BY <1>1 DEF SamplesPerChannel, Width, WidthOf
<1>. QED  BY <1>1, <1>2, <1>4, <1>5 DEF RowsHoldSamples, FromRadar

LEMMA RowsInvInit == FrameInit => RowsInv
BY DEF FrameInit, RowsInv, RowsHoldSamples, Parsed

LEMMA RowsInvStep == RowsInv /\ [FrameNext]_frameVars => RowsInv'
<1>. SUFFICES ASSUME RowsInv, [FrameNext]_frameVars PROVE RowsInv'
  OBVIOUS
<1>1. g' = g /\ datagram' = datagram
  BY DEF FrameNext, frameVars, Reject, Parse, ParsePanics, RangeTransform, DopplerTransform,
         Shift, TransformPanics
<1>2. CASE Parse
  <2>1. CASE datagram = None
    BY <1>1, <2>1 DEF RowsInv, RowsHoldSamples, Parsed
  <2>2. CASE datagram # None
    BY <1>1, <1>2, <2>2, ParseReadsSamples DEF RowsInv
  <2>. QED  BY <2>1, <2>2
<1>3. CASE IFData' = IFData /\ (Parsed' => Parsed)
  <2>1. SamplesPerChannel' = SamplesPerChannel /\ Width' = Width
    BY <1>1 DEF SamplesPerChannel, Width, WidthOf
  <2>. QED  BY <1>1, <1>3, <2>1 DEF RowsInv, RowsHoldSamples
<1>4. CASE Reject \/ ParsePanics \/ TransformPanics
  BY <1>1, <1>3, <1>4 DEF Reject, ParsePanics, TransformPanics, Parsed
<1>5. CASE RangeTransform \/ DopplerTransform \/ Shift
  BY <1>1, <1>3, <1>5 DEF RangeTransform, DopplerTransform, Shift, Parsed
<1>6. CASE UNCHANGED frameVars
  BY <1>3, <1>6 DEF frameVars, Parsed
<1>. QED  BY <1>2, <1>4, <1>5, <1>6 DEF FrameNext

(* In every sample width, and whatever the datagram, the sample the framer *)
(* puts together from two or three bytes is the one the radar sent; what   *)
(* the simulator sends is never read.                                      *)
THEOREM FramesRowsHoldSamples == FrameSpec => []RowsHoldSamples
<1>1. RowsInv => RowsHoldSamples
  BY DEF RowsInv
<1>. QED  BY <1>1, RowsInvInit, RowsInvStep, PTL DEF FrameSpec

-----------------------------------------------------------------------------
(* The transform.  A pass combines blocks of the last one in pairs; what   *)
(* has to be shown is that after the pass for size s the block in place q  *)
(* holds the transform of every m-th element of the input, m being the     *)
(* size of the whole by s, from the one the reversal of q names.  Before   *)
(* the first pass a block is an element; a pass splits the sum of a block  *)
(* by parity (SplitSum), and the two halves are the blocks 2q and 2q + 1   *)
(* of the pass before because reversing puts the lowest bit first.  After  *)
(* the last one there is a block, the transform of the input.              *)

(* Division, and numbers that differ by a multiple of P.                   *)
(* Division and remainder, for any divisor.                                *)
LEMMA DivisionEquation ==
  ASSUME NEW a \in Int, NEW n \in Nat \ {0}
  PROVE  /\ a \div n \in Int /\ a % n \in 0..(n - 1)
         /\ a = n * (a \div n) + (a % n)
OBVIOUS

LEMMA SmallMultiple ==
  ASSUME NEW n \in Nat \ {0}, NEW p \in Int, NEW d \in Int, n * p = d, d < n, d > -n
  PROVE  p = 0
<1>1. CASE p >= 1
  <2>1. n * (p - 1) >= 0 /\ n * (p - 1) = n * p - n
    BY <1>1
  <2>. QED  BY <2>1
<1>2. CASE p <= -1
  <2>1. n * (-1 - p) >= 0 /\ n * (-1 - p) = -n - n * p
    BY <1>2
  <2>. QED  BY <2>1
<1>. QED  BY <1>1, <1>2

LEMMA DivisionUnique ==
  ASSUME NEW n \in Nat \ {0}, NEW q \in Int, NEW r \in 0..(n - 1), NEW a, a = n * q + r
  PROVE  a \div n = q /\ a % n = r /\ a \in Int
<1>. DEFINE u == a \div n
            v == a % n
<1>0. a \in Int
  OBVIOUS
<1>1. u \in Int /\ v \in 0..(n - 1) /\ a = n * u + v
  BY <1>0, DivisionEquation
<1>. HIDE DEF u, v
<1>2. n * (u - q) = r - v
  <2>1. n * (u - q) = n * u - n * q
    BY <1>1
  <2>. QED  BY <1>1, <2>1
<1>3. u - q = 0
  <2>1. u - q \in Int /\ r - v \in Int /\ r - v < n /\ r - v > -n
    BY <1>1
  <2>. QED  BY <1>2, <2>1, SmallMultiple
<1>4. u = q /\ v = r
  BY <1>1, <1>2, <1>3
<1>. QED  BY <1>0, <1>4 DEF u, v

LEMMA RemainderPlus ==
  ASSUME NEW n \in Nat \ {0}, NEW a \in Int, NEW q \in Int
  PROVE  (n * q + a) % n = a % n
<1>. DEFINE u == a \div n
            v == a % n
<1>1. u \in Int /\ v \in 0..(n - 1) /\ a = n * u + v
  BY DivisionEquation
<1>. HIDE DEF u, v
<1>2. n * q + a = n * (q + u) + v
  BY <1>1
<1>3. (n * q + a) % n = v
  BY <1>1, <1>2, DivisionUnique
<1>. QED  BY <1>3 DEF v

LEMMA RemainderOfProduct ==
  ASSUME NEW n \in Nat \ {0}, NEW a \in Int, NEW b \in Int
  PROVE  (a * b) % n = (a * (b % n)) % n
<1>. DEFINE u == b \div n
            v == b % n
<1>1. u \in Int /\ v \in 0..(n - 1) /\ b = n * u + v
  BY DivisionEquation
<1>. HIDE DEF u, v
<1>2. a * b = n * (a * u) + a * v /\ a * u \in Int /\ a * v \in Int
  BY <1>1
<1>3. (n * (a * u) + a * v) % n = (a * v) % n
  <2>. DEFINE c == a * u
              d == a * v
  <2>1. c \in Int /\ d \in Int
    BY <1>2
  <2>. HIDE DEF c, d
  <2>2. (n * c + d) % n = d % n
    BY <2>1, RemainderPlus
  <2>. QED  BY <2>2 DEF c, d
<1>. QED  BY <1>2, <1>3 DEF v

(* Congruence modulo P.                                                    *)
Congruent(a, b) == \E c \in Int : a = P * c + b

LEMMA CongruentToRemainder ==
  ASSUME NEW a \in Int
  PROVE  a % P \in Int /\ Congruent(a, a % P) /\ Congruent(a % P, a)
<1>1. P \in Nat \ {0}
  BY TransformAssumption
<1>. DEFINE u == a \div P
            v == a % P
<1>2. u \in Int /\ v \in 0..(P - 1) /\ a = P * u + v
  BY <1>1, DivisionEquation
<1>. HIDE DEF u, v
<1>3. v = P * (-u) + a /\ -u \in Int /\ v \in Int
  BY <1>1, <1>2
<1>4. Congruent(a, v) /\ Congruent(v, a)
  BY <1>2, <1>3, Zenon DEF Congruent
<1>. QED  BY <1>3, <1>4 DEF v

LEMMA RemainderOfCongruent ==
  ASSUME NEW a \in Int, NEW b \in Int, Congruent(a, b)
  PROVE  a % P = b % P
<1>1. PICK c \in Int : a = P * c + b
  BY DEF Congruent
<1>. QED  BY <1>1, TransformAssumption, RemainderPlus

LEMMA CongruentIsCompatible ==
  ASSUME NEW a \in Int, NEW b \in Int, NEW c \in Int, NEW d \in Int,
         Congruent(a, b), Congruent(c, d)
  PROVE  Congruent(a + c, b + d) /\ Congruent(a - c, b - d)
<1>1. PICK x \in Int : a = P * x + b
  BY DEF Congruent
<1>2. PICK y \in Int : c = P * y + d
  BY DEF Congruent
<1>3. P \in Nat
  BY TransformAssumption
<1>4. a + c = P * (x + y) + (b + d) /\ x + y \in Int
  BY <1>1, <1>2, <1>3
<1>5. a - c = P * (x - y) + (b - d) /\ x - y \in Int
  BY <1>1, <1>2, <1>3
<1>6. Congruent(a + c, b + d)
  BY <1>4, Zenon DEF Congruent
<1>7. Congruent(a - c, b - d)
  BY <1>5, Zenon DEF Congruent
<1>. QED  BY <1>6, <1>7

LEMMA CongruentTimes ==
  ASSUME NEW a \in Int, NEW b \in Int, NEW k \in Int, Congruent(a, b)
  PROVE  Congruent(a * k, b * k) /\ Congruent(k * a, k * b)
<1>1. PICK x \in Int : a = P * x + b
  BY DEF Congruent
<1>2. P \in Nat
  BY TransformAssumption
<1>3. a * k = P * (x * k) + b * k /\ x * k \in Int
  BY <1>1, <1>2
<1>4. a * k = k * a /\ b * k = k * b
  OBVIOUS
<1>5. Congruent(a * k, b * k)
  BY <1>3, Zenon DEF Congruent
<1>. QED  BY <1>4, <1>5

LEMMA CongruentTransitive ==
  ASSUME NEW a \in Int, NEW b \in Int, NEW c \in Int, Congruent(a, b), Congruent(b, c)
  PROVE  Congruent(a, c)
<1>1. PICK x \in Int : a = P * x + b
  BY DEF Congruent
<1>2. PICK y \in Int : b = P * y + c
  BY DEF Congruent
<1>3. P \in Nat
  BY TransformAssumption
<1>4. a = P * (x + y) + c /\ x + y \in Int
  BY <1>1, <1>2, <1>3
<1>. QED  BY <1>4, Zenon DEF Congruent

LEMMA CongruentReflexive == ASSUME NEW a \in Int PROVE Congruent(a, a)
<1>1. a = P * 0 + a /\ 0 \in Int
  BY TransformAssumption
<1>. QED  BY <1>1, Zenon DEF Congruent

(* Sums of congruent terms are congruent.                                  *)
LEMMA CongruentSums ==
  ASSUME NEW f, NEW h, NEW S, IsFiniteSet(S),
         \A x \in S : f[x] \in Int /\ h[x] \in Int /\ Congruent(f[x], h[x])
  PROVE  Congruent(SumFunctionOnSet(f, S), SumFunctionOnSet(h, S))
<1>. DEFINE k == [x \in S |-> CHOOSE c \in Int : f[x] = P * c + h[x]]
<1>1. \A x \in S : k[x] \in Int /\ f[x] = P * k[x] + h[x]
  <2>1. \A x \in S : \E c \in Int : f[x] = P * c + h[x]
    BY DEF Congruent
  <2>. QED  BY <2>1
<1>. HIDE DEF k
<1>2. \A x \in S : k[x] \in Int /\ h[x] \in Int /\ f[x] = P * k[x] + 1 * h[x]
  BY <1>1
<1>3. P \in Int /\ 1 \in Int
  BY TransformAssumption
<1>4. SumFunctionOnSet(f, S) = P * SumFunctionOnSet(k, S) + 1 * SumFunctionOnSet(h, S)
  BY <1>2, <1>3, SumLinear, SMTT(30)
<1>5. SumFunctionOnSet(k, S) \in Int /\ SumFunctionOnSet(h, S) \in Int
  BY <1>2, SumInteger
<1>6. SumFunctionOnSet(f, S) = P * SumFunctionOnSet(k, S) + SumFunctionOnSet(h, S)
  BY <1>4, <1>5
<1>. QED  BY <1>5, <1>6, Zenon DEF Congruent

-----------------------------------------------------------------------------
(* The double sum at one frequency.                                        *)
Spectral(x, n, k) == [t \in 0..(n - 1) |-> x[t] * Twiddle(n, (t * k) % n)]
Term(x, n, k) == SumFunctionOnSet(Spectral(x, n, k), 0..(n - 1))

LEMMA TwiddleTyped ==
  ASSUME NEW n \in Sizes
  PROVE  /\ n \in Nat \ {0}
         /\ \A k \in 0..(n - 1) : Twiddle(n, k) \in Int
BY TransformAssumption

LEMMA TwiddleProduct ==
  ASSUME NEW n \in Sizes, NEW j \in 0..(n - 1), NEW k \in 0..(n - 1)
  PROVE  /\ Twiddle(n, j) \in Int /\ Twiddle(n, k) \in Int /\ Twiddle(n, (j + k) % n) \in Int
         /\ (j + k) % n \in 0..(n - 1)
         /\ Congruent(Twiddle(n, (j + k) % n), Twiddle(n, j) * Twiddle(n, k))
         /\ Congruent(Twiddle(n, j) * Twiddle(n, k), Twiddle(n, (j + k) % n))
<1>1. n \in Nat \ {0} /\ P \in Nat \ {0}
  BY TransformAssumption
<1>2. j + k \in Int
  OBVIOUS
<1>3. (j + k) % n \in 0..(n - 1)
  BY <1>1, <1>2, DivisionEquation
<1>. DEFINE a == Twiddle(n, j)
            b == Twiddle(n, k)
            c == Twiddle(n, (j + k) % n)
<1>4. a \in Int /\ b \in Int /\ c \in Int
  BY <1>3, TwiddleTyped
<1>5. (a * b - c) % P = 0
  BY TransformAssumption
<1>. HIDE DEF a, b, c
<1>. DEFINE d == a * b - c
            u == d \div P
<1>6. d \in Int
  BY <1>4
<1>7. d % P = 0
  BY <1>5
<1>. HIDE DEF d
<1>8. u \in Int /\ d = P * u + 0
  BY <1>1, <1>6, <1>7, DivisionEquation
<1>. HIDE DEF u
<1>9. a * b = P * u + c
  BY <1>4, <1>8, <1>1 DEF d
<1>10. c = P * (-u) + a * b /\ -u \in Int
  BY <1>1, <1>4, <1>8, <1>9
<1>11. Congruent(a * b, c)
  BY <1>8, <1>9, Zenon DEF Congruent
<1>12. Congruent(c, a * b)
  BY <1>10, Zenon DEF Congruent
<1>. QED  BY <1>3, <1>4, <1>11, <1>12 DEF a, b, c

(* The twiddles of half a transform are every second one.                  *)
LEMMA TwiddleHalf ==
  ASSUME NEW s \in Sizes, 2 * s \in Sizes, NEW k \in 0..(s - 1)
  PROVE  /\ Twiddle(2 * s, 2 * k) = Twiddle(s, k) /\ 2 * k \in 0..(2 * s - 1)
         /\ Twiddle(2 * s, s) = -1
<1>1. s \in Nat \ {0}
  BY TwiddleTyped
<1>2. (2 * s) % s = 0 /\ (2 * s) \div s = 2
  <2>1. 2 * s = s * 2 + 0 /\ 0 \in 0..(s - 1) /\ 2 \in Int
    BY <1>1
  <2>. QED  BY <1>1, <2>1, DivisionUnique, Zenon
<1>3. k * 2 = 2 * k /\ 2 * k \in 0..(2 * s - 1)
  BY <1>1
<1>4. Twiddle(2 * s, 2 * k) = Twiddle(s, k)
  <2>. DEFINE n == 2 * s
  <2>1. n \in Sizes /\ n % s = 0 /\ n \div s = 2
    BY <1>2
  <2>. HIDE DEF n
  <2>2. Twiddle(n, k * (n \div s)) = Twiddle(s, k)
    BY <2>1, TransformAssumption
  <2>. QED  BY <1>3, <2>1, <2>2, Zenon DEF n
<1>5. (2 * s) \div 2 = s /\ 2 * s # 1
  BY <1>1
<1>6. Twiddle(2 * s, s) = -1
  BY <1>5, TransformAssumption
<1>. QED  BY <1>3, <1>4, <1>6

(* The exponents of the terms with an even and with an odd index.          *)
LEMMA EvenExponent ==
  ASSUME NEW s \in Nat \ {0}, NEW t \in Nat, NEW j \in Nat
  PROVE  /\ (t * j) % s = (t * (j % s)) % s
         /\ (t * j) % s \in 0..(s - 1)
         /\ ((2 * t) * j) % (2 * s) = 2 * ((t * j) % s)
<1>1. (t * j) % s = (t * (j % s)) % s
  <2>1. t \in Int /\ j \in Int
    OBVIOUS
  <2>. QED  BY <2>1, RemainderOfProduct, Zenon
<1>. DEFINE a == t * j
            u == a \div s
            v == a % s
<1>2. a \in Int
  OBVIOUS
<1>. HIDE DEF a
<1>3. u \in Int /\ v \in 0..(s - 1) /\ a = s * u + v
  BY <1>2, DivisionEquation
<1>. HIDE DEF u, v
<1>4. 2 * a = (2 * s) * u + 2 * v /\ 2 * v \in 0..(2 * s - 1) /\ 2 * s \in Nat \ {0}
  BY <1>3
<1>5. (2 * a) % (2 * s) = 2 * v
  <2>. DEFINE n == 2 * s
              b == 2 * a
              r == 2 * v
  <2>1. n \in Nat \ {0} /\ u \in Int /\ r \in 0..(n - 1) /\ b = n * u + r
    BY <1>3, <1>4
  <2>. HIDE DEF n, b, r
  <2>2. b % n = r
    BY <2>1, DivisionUnique, Zenon
  <2>. QED  BY <2>2 DEF n, b, r
<1>6. (2 * t) * j = 2 * a
  BY DEF a
<1>. QED  BY <1>1, <1>3, <1>5, <1>6 DEF a, v

LEMMA OddExponent ==
  ASSUME NEW s \in Nat \ {0}, NEW t \in Nat, NEW j \in Nat
  PROVE  ((2 * t + 1) * j) % (2 * s) = (2 * ((t * j) % s) + j) % (2 * s)
<1>. DEFINE a == t * j
            u == a \div s
            v == a % s
<1>2. a \in Int
  OBVIOUS
<1>. HIDE DEF a
<1>3. u \in Int /\ v \in 0..(s - 1) /\ a = s * u + v
  BY <1>2, DivisionEquation
<1>. HIDE DEF u, v
<1>4. 2 * a + j = (2 * s) * u + (2 * v + j) /\ 2 * v + j \in Int /\ 2 * s \in Nat \ {0}
  BY <1>3
<1>5. (2 * a + j) % (2 * s) = (2 * v + j) % (2 * s)
  BY <1>3, <1>4, RemainderPlus
<1>6. (2 * t + 1) * j = 2 * a + j
  BY DEF a
<1>. QED  BY <1>5, <1>6 DEF a, v

LEMMA SumTimes ==
  ASSUME NEW f, NEW h, NEW a \in Int, NEW S, IsFiniteSet(S),
         \A x \in S : h[x] \in Int /\ f[x] = a * h[x]
  PROVE  SumFunctionOnSet(f, S) = a * SumFunctionOnSet(h, S) /\ SumFunctionOnSet(h, S) \in Int
<1>1. \A x \in S : h[x] \in Int /\ h[x] \in Int /\ f[x] = a * h[x] + 0 * h[x]
  OBVIOUS
<1>2. 0 \in Int /\ SumFunctionOnSet(h, S) \in Int
  BY SumInteger
<1>3. SumFunctionOnSet(f, S) = a * SumFunctionOnSet(h, S) + 0 * SumFunctionOnSet(h, S)
  BY <1>1, <1>2, SumLinear
<1>. QED  BY <1>2, <1>3

LEMMA TermTyped ==
  ASSUME NEW n \in Sizes, NEW x, \A t \in 0..(n - 1) : x[t] \in Int, NEW k \in Nat
  PROVE  /\ IsFiniteSet(0..(n - 1))
         /\ \A t \in 0..(n - 1) : (t * k) % n \in 0..(n - 1)
         /\ \A t \in 0..(n - 1) : /\ Spectral(x, n, k)[t] = x[t] * Twiddle(n, (t * k) % n)
                                  /\ Twiddle(n, (t * k) % n) \in Int
                                  /\ Spectral(x, n, k)[t] \in Int
         /\ Term(x, n, k) \in Int
<1>1. n \in Nat \ {0}
  BY TwiddleTyped
<1>2. IsFiniteSet(0..(n - 1))
  BY <1>1, FS_Interval
<1>3. ASSUME NEW t \in 0..(n - 1)
      PROVE  (t * k) % n \in 0..(n - 1)
  <2>. DEFINE a == t * k
  <2>1. a \in Int
    BY <1>1
  <2>. HIDE DEF a
  <2>2. a % n \in 0..(n - 1)
    BY <1>1, <2>1, DivisionEquation
  <2>. QED  BY <2>2 DEF a
<1>4. ASSUME NEW t \in 0..(n - 1)
      PROVE  /\ Spectral(x, n, k)[t] = x[t] * Twiddle(n, (t * k) % n)
             /\ Twiddle(n, (t * k) % n) \in Int
             /\ Spectral(x, n, k)[t] \in Int
  <2>1. Spectral(x, n, k)[t] = x[t] * Twiddle(n, (t * k) % n)
    BY DEF Spectral
  <2>2. Twiddle(n, (t * k) % n) \in Int
    BY <1>3, TwiddleTyped
  <2>. QED  BY <2>1, <2>2
<1>5. \A t \in 0..(n - 1) : Spectral(x, n, k)[t] \in Int
  BY <1>4
<1>6. Term(x, n, k) \in Int
  BY <1>2, <1>5, SumInteger DEF Term
<1>. QED  BY <1>2, <1>3, <1>4, <1>6

LEMMA SummandTyped ==
  ASSUME NEW n \in Sizes, NEW x, \A t \in 0..(n - 1) : x[t] \in Int, NEW k \in Nat,
         NEW t \in 0..(n - 1)
  PROVE  /\ Spectral(x, n, k)[t] = x[t] * Twiddle(n, (t * k) % n)
         /\ Twiddle(n, (t * k) % n) \in Int
         /\ Spectral(x, n, k)[t] \in Int
BY TermTyped, Zenon

LEMMA SumTyped ==
  ASSUME NEW n \in Sizes, NEW x, \A t \in 0..(n - 1) : x[t] \in Int, NEW k \in Nat
  PROVE  Term(x, n, k) \in Int
BY TermTyped, Zenon

LEMMA EvenTwiddle ==
  ASSUME NEW s \in Sizes, 2 * s \in Sizes, NEW t \in 0..(s - 1), NEW j \in 0..(2 * s - 1)
  PROVE  Twiddle(2 * s, ((2 * t) * j) % (2 * s)) = Twiddle(s, (t * (j % s)) % s)
<1>1. s \in Nat \ {0} /\ t \in Nat /\ j \in Nat
  BY TwiddleTyped
<1>. DEFINE k == (t * j) % s
<1>2. /\ k = (t * (j % s)) % s /\ k \in 0..(s - 1)
      /\ ((2 * t) * j) % (2 * s) = 2 * k
  BY <1>1, EvenExponent
<1>. HIDE DEF k
<1>3. Twiddle(2 * s, 2 * k) = Twiddle(s, k)
  BY <1>2, TwiddleHalf
<1>. QED  BY <1>2, <1>3, Zenon

LEMMA OddTwiddle ==
  ASSUME NEW s \in Sizes, 2 * s \in Sizes, NEW t \in 0..(s - 1), NEW j \in 0..(2 * s - 1)
  PROVE  /\ Congruent(Twiddle(2 * s, ((2 * t + 1) * j) % (2 * s)),
                      Twiddle(2 * s, j) * Twiddle(s, (t * (j % s)) % s))
         /\ Twiddle(2 * s, ((2 * t + 1) * j) % (2 * s)) \in Int
         /\ Twiddle(2 * s, j) \in Int
<1>1. s \in Nat \ {0} /\ t \in Nat /\ j \in Nat
  BY TwiddleTyped
<1>. DEFINE k == (t * j) % s
            n == 2 * s
<1>2. /\ k = (t * (j % s)) % s /\ k \in 0..(s - 1)
  BY <1>1, EvenExponent
<1>3. ((2 * t + 1) * j) % n = (2 * k + j) % n
  BY <1>1, OddExponent
<1>. HIDE DEF k
<1>4. Twiddle(n, 2 * k) = Twiddle(s, k) /\ 2 * k \in 0..(n - 1)
  BY <1>2, TwiddleHalf
<1>5. n \in Sizes /\ j \in 0..(n - 1)
  OBVIOUS
<1>. HIDE DEF n
<1>. DEFINE d == 2 * k
<1>6. d \in 0..(n - 1) /\ Twiddle(n, d) = Twiddle(s, k)
  BY <1>4
<1>. HIDE DEF d
<1>7. /\ Twiddle(n, d) \in Int /\ Twiddle(n, j) \in Int /\ Twiddle(n, (d + j) % n) \in Int
      /\ Congruent(Twiddle(n, (d + j) % n), Twiddle(n, d) * Twiddle(n, j))
  BY <1>5, <1>6, TwiddleProduct
<1>8. Twiddle(n, d) * Twiddle(n, j) = Twiddle(n, j) * Twiddle(n, d)
  BY <1>7
<1>9. Congruent(Twiddle(n, (d + j) % n), Twiddle(n, j) * Twiddle(s, k))
  BY <1>6, <1>7, <1>8
<1>10. ((2 * t + 1) * j) % n = (d + j) % n
  BY <1>3 DEF d
<1>. QED  BY <1>2, <1>7, <1>9, <1>10, Zenon DEF n

(* A sum of 2 * s terms, by parity: what a butterfly does.                 *)
LEMMA SplitSum ==
  ASSUME NEW s \in Sizes, 2 * s \in Sizes, NEW j \in 0..(2 * s - 1),
         NEW y, \A u \in 0..(2 * s - 1) : y[u] \in Int,
         NEW e, NEW o, \A t \in 0..(s - 1) : e[t] = y[2 * t] /\ o[t] = y[2 * t + 1]
  PROVE  Congruent(Term(y, 2 * s, j), Term(e, s, j % s) + Twiddle(2 * s, j) * Term(o, s, j % s))
<1>. DEFINE S == 0..(s - 1)
            n == 2 * s
            k == j % s
            w == Twiddle(2 * s, j)
<1>1. s \in Nat \ {0} /\ j \in Nat
  BY TwiddleTyped
<1>2. k \in Nat
  BY <1>1, DivisionEquation
<1>. DEFINE f == Spectral(y, n, j)
            fe == [t \in S |-> f[2 * t]]
            fo == [t \in S |-> f[2 * t + 1]]
            he == Spectral(e, s, k)
            ho == Spectral(o, s, k)
<1>3. \A t \in S : 2 * t \in 0..(n - 1) /\ 2 * t + 1 \in 0..(n - 1)
  BY <1>1
<1>4. \A t \in S : e[t] = y[2 * t] /\ o[t] = y[2 * t + 1] /\ e[t] \in Int /\ o[t] \in Int
  BY <1>3
<1>5. /\ IsFiniteSet(S)
      /\ \A t \in S : he[t] = e[t] * Twiddle(s, (t * k) % s) /\ Twiddle(s, (t * k) % s) \in Int
                      /\ he[t] \in Int
      /\ Term(e, s, k) \in Int
  <2>1. \A t \in 0..(s - 1) : e[t] \in Int
    BY <1>4
  <2>2. IsFiniteSet(S)
    BY <1>1, FS_Interval
  <2>. HIDE DEF k
  <2>3. Term(e, s, k) \in Int
    BY <1>2, <2>1, SumTyped, Zenon
  <2>4. ASSUME NEW t \in S
        PROVE  /\ Spectral(e, s, k)[t] = e[t] * Twiddle(s, (t * k) % s)
               /\ Twiddle(s, (t * k) % s) \in Int
               /\ Spectral(e, s, k)[t] \in Int
    BY <1>2, <2>1, SummandTyped, Zenon
  <2>. QED  BY <2>2, <2>3, <2>4, Zenon
<1>6. /\ \A t \in S : ho[t] = o[t] * Twiddle(s, (t * k) % s) /\ Twiddle(s, (t * k) % s) \in Int
                      /\ ho[t] \in Int
      /\ Term(o, s, k) \in Int
  <2>1. \A t \in 0..(s - 1) : o[t] \in Int
    BY <1>4
  <2>. HIDE DEF k
  <2>2. Term(o, s, k) \in Int
    BY <1>2, <2>1, SumTyped, Zenon
  <2>3. ASSUME NEW t \in S
        PROVE  /\ Spectral(o, s, k)[t] = o[t] * Twiddle(s, (t * k) % s)
               /\ Twiddle(s, (t * k) % s) \in Int
               /\ Spectral(o, s, k)[t] \in Int
    BY <1>2, <2>1, SummandTyped, Zenon
  <2>. QED  BY <2>2, <2>3, Zenon
<1>7. \A u \in 0..(n - 1) : f[u] = y[u] * Twiddle(n, (u * j) % n)
                            /\ Twiddle(n, (u * j) % n) \in Int /\ f[u] \in Int
  <2>1. n \in Sizes /\ \A u \in 0..(n - 1) : y[u] \in Int
    OBVIOUS
  <2>. HIDE DEF n
  <2>2. \A u \in 0..(n - 1) : /\ Spectral(y, n, j)[u] = y[u] * Twiddle(n, (u * j) % n)
                              /\ Twiddle(n, (u * j) % n) \in Int
                              /\ Spectral(y, n, j)[u] \in Int
    BY <1>1, <2>1, TermTyped
  <2>. QED  BY <2>2
<1>8. SumFunctionOnSet(f, 0..(n - 1)) = SumFunctionOnSet(fe, S) + SumFunctionOnSet(fo, S)
  <2>1. \A t \in 0..(s - 1) : fe[t] = f[2 * t] /\ fo[t] = f[2 * t + 1]
    OBVIOUS
  <2>2. s \in Nat /\ \A u \in 0..(2 * s - 1) : f[u] \in Int
    BY <1>1, <1>7
  <2>. HIDE DEF f, fe, fo
  <2>3. SumFunctionOnSet(f, 0..(2 * s - 1)) =
          SumFunctionOnSet(fe, 0..(s - 1)) + SumFunctionOnSet(fo, 0..(s - 1))
    <3>1. ByParity(f, s, fe, fo)
      BY <2>1, <2>2 DEF ByParity
    <3>. QED  BY <2>2, <3>1, SumHalves
  <2>. QED  BY <2>3
<1>9. \A t \in S : fe[t] = he[t]
  <2>. SUFFICES ASSUME NEW t \in S PROVE fe[t] = he[t]
    OBVIOUS
  <2>1. fe[t] = y[2 * t] * Twiddle(n, ((2 * t) * j) % n)
    BY <1>3, <1>7
  <2>2. Twiddle(n, ((2 * t) * j) % n) = Twiddle(s, (t * k) % s)
    BY EvenTwiddle
  <2>. HIDE DEF fe, he, k, n
  <2>. QED  BY <1>4, <1>5, <2>1, <2>2
<1>10. SumFunctionOnSet(fe, S) = Term(e, s, k)
  <2>1. Term(e, s, k) = SumFunctionOnSet(he, S)
    BY DEF Term
  <2>2. \A t \in S : he[t] \in Int /\ fe[t] = he[t]
    BY <1>5, <1>9
  <2>. HIDE DEF fe, he, S
  <2>. QED  BY <1>5, <2>1, <2>2, SumSame
<1>. DEFINE h == [t \in S |-> w * ho[t]]
<1>11. w \in Int
  BY TwiddleTyped
<1>12. \A t \in S : ho[t] \in Int /\ h[t] = w * ho[t] /\ h[t] \in Int
  <2>. HIDE DEF w, ho
  <2>. QED  BY <1>6, <1>11
<1>13. \A t \in S : fo[t] \in Int /\ Congruent(fo[t], h[t])
  <2>. SUFFICES ASSUME NEW t \in S PROVE fo[t] \in Int /\ Congruent(fo[t], h[t])
    OBVIOUS
  <2>. DEFINE a == Twiddle(n, ((2 * t + 1) * j) % n)
              b == Twiddle(s, (t * k) % s)
  <2>1. fo[t] = o[t] * a /\ a \in Int
    BY <1>3, <1>4, <1>7
  <2>2. Congruent(a, w * b)
    BY OddTwiddle
  <2>3. h[t] = w * (o[t] * b) /\ b \in Int /\ o[t] \in Int
    BY <1>4, <1>6, <1>12
  <2>. HIDE DEF a, b, w, h, fo, ho
  <2>4. w * b \in Int /\ w * (o[t] * b) = o[t] * (w * b)
    BY <1>11, <2>3
  <2>5. Congruent(o[t] * a, o[t] * (w * b))
    BY <2>1, <2>2, <2>3, <2>4, CongruentTimes
  <2>6. o[t] * a \in Int
    BY <2>1, <2>3
  <2>. QED  BY <2>1, <2>3, <2>4, <2>5, <2>6, Zenon
<1>14. /\ Congruent(SumFunctionOnSet(fo, S), SumFunctionOnSet(h, S))
       /\ SumFunctionOnSet(fo, S) \in Int
  <2>1. \A t \in S : fo[t] \in Int /\ h[t] \in Int /\ Congruent(fo[t], h[t])
    <3>. HIDE DEF fo, h
    <3>. QED  BY <1>12, <1>13
  <2>. HIDE DEF fo, h, S
  <2>. QED  BY <1>5, <2>1, CongruentSums, SumInteger
<1>15. SumFunctionOnSet(h, S) = w * Term(o, s, k)
  <2>1. Term(o, s, k) = SumFunctionOnSet(ho, S)
    BY DEF Term
  <2>. HIDE DEF h, ho, S, w
  <2>. QED  BY <1>5, <1>11, <1>12, <2>1, SumTimes
<1>16. Term(y, n, j) = Term(e, s, k) + SumFunctionOnSet(fo, S)
  <2>1. Term(y, n, j) = SumFunctionOnSet(f, 0..(n - 1))
    BY DEF Term
  <2>. HIDE DEF f, fe, fo, S, n, k
  <2>. QED  BY <1>8, <1>10, <2>1
<1>. DEFINE E == Term(e, s, k)
            O == SumFunctionOnSet(fo, S)
            Q == w * Term(o, s, k)
<1>17. E \in Int /\ O \in Int /\ Q \in Int /\ Congruent(O, Q)
  <2>. HIDE DEF fo, S, k, w, h
  <2>. QED  BY <1>5, <1>6, <1>11, <1>14, <1>15
<1>18. Term(y, n, j) = E + O
  BY <1>16
<1>. HIDE DEF E, O, Q, n
<1>19. Congruent(E + O, E + Q)
  BY <1>17, CongruentReflexive, CongruentIsCompatible
<1>. QED  BY <1>18, <1>19 DEF E, O, Q, n

-----------------------------------------------------------------------------
(* The equations of the two recursive functions, up to m.                  *)
IsReversal(h, n, m) ==
  h = [b \in 1..m |-> [k \in 0..(n - 1) |->
         IF b = 1 THEN 0 ELSE (k % 2) * (b \div 2) + h[b \div 2][k \div 2]]]

IsPass(h, x, n, m) ==
  h = [size \in 1..m |->
         IF size = 1 THEN [k \in 0..(n - 1) |-> x[BitReversed(n)[k]]]
         ELSE Butterfly(h[size \div 2], n, size)]

LEMMA ReversalExists ==
  ASSUME NEW n \in Nat \ {0}
  PROVE  \E h : IsReversal(h, n, n)
<1>. DEFINE T == {m \in 1..n : ~ \E h : IsReversal(h, n, m)}
<1>0. n \in 1..n
  OBVIOUS
<1>. SUFFICES ASSUME T # {} PROVE FALSE
  BY <1>0, Zenon
<1>1. PICK m \in T : \A l \in T : m <= l
  <2>1. T \subseteq Nat
    OBVIOUS
  <2>. HIDE DEF T
  <2>. QED  BY <2>1, LeastNatural
<1>2. m \in 1..n
  OBVIOUS
<1>3. PICK p : m = 1 \/ IsReversal(p, n, m - 1)
  <2>1. CASE m # 1
    <3>1. m - 1 \in 1..n /\ ~(m <= m - 1)
      BY <1>2, <2>1
    <3>2. m - 1 \notin T
      BY <1>1, <3>1
    <3>. QED  BY <3>1, <3>2, Zenon
  <2>. QED  BY <2>1
<1>. DEFINE h == [b \in 1..m |-> [k \in 0..(n - 1) |->
                   IF b = 1 THEN 0 ELSE (k % 2) * (b \div 2) + p[b \div 2][k \div 2]]]
<1>4. ASSUME NEW b \in 1..m, b # 1 PROVE h[b \div 2] = p[b \div 2]
  <2>. DEFINE a == b \div 2
  <2>1. a \in 1..(m - 1) /\ a \in 1..m /\ m # 1
    BY <1>2, <1>4
  <2>2. p = [c \in 1..(m - 1) |-> [k \in 0..(n - 1) |->
               IF c = 1 THEN 0 ELSE (k % 2) * (c \div 2) + p[c \div 2][k \div 2]]]
    BY <1>3, <2>1 DEF IsReversal
  <2>. HIDE DEF a
  <2>3. p[a] = [k \in 0..(n - 1) |->
                  IF a = 1 THEN 0 ELSE (k % 2) * (a \div 2) + p[a \div 2][k \div 2]]
    BY <2>1, <2>2, Zenon
  <2>4. h[a] = [k \in 0..(n - 1) |->
                  IF a = 1 THEN 0 ELSE (k % 2) * (a \div 2) + p[a \div 2][k \div 2]]
    BY <2>1, Zenon
  <2>. QED  BY <2>3, <2>4, Zenon DEF a
<1>5. IsReversal(h, n, m)
  <2>1. ASSUME NEW b \in 1..m
        PROVE  [k \in 0..(n - 1) |->
                  IF b = 1 THEN 0 ELSE (k % 2) * (b \div 2) + p[b \div 2][k \div 2]] =
               [k \in 0..(n - 1) |->
                  IF b = 1 THEN 0 ELSE (k % 2) * (b \div 2) + h[b \div 2][k \div 2]]
    <3>1. CASE b = 1
      BY <3>1, Zenon
    <3>2. CASE b # 1
      <4>1. h[b \div 2] = p[b \div 2]
        BY <1>4, <3>2
      <4>. HIDE DEF h
      <4>. QED  BY <4>1, Zenon
    <3>. QED  BY <3>1, <3>2
  <2>2. h = [b \in 1..m |-> [k \in 0..(n - 1) |->
               IF b = 1 THEN 0 ELSE (k % 2) * (b \div 2) + h[b \div 2][k \div 2]]]
    BY <2>1, Zenon
  <2>. QED  BY <2>2 DEF IsReversal
<1>. HIDE DEF h
<1>. QED  BY <1>1, <1>5, Zenon

LEMMA ReversalOf ==
  ASSUME NEW n \in Nat \ {0}
  PROVE  \E h : IsReversal(h, n, n) /\ BitReversed(n) = h[n]
<1>. DEFINE h == CHOOSE f : IsReversal(f, n, n)
<1>1. IsReversal(h, n, n)
  BY ReversalExists, Zenon
<1>2. BitReversed(n) = h[n]
  BY Zenon DEF BitReversed, IsReversal
<1>. QED  BY <1>1, <1>2, Zenon

LEMMA PassExists ==
  ASSUME NEW n \in Nat \ {0}, NEW x
  PROVE  \E h : IsPass(h, x, n, n)
<1>. DEFINE T == {m \in 1..n : ~ \E h : IsPass(h, x, n, m)}
<1>0. n \in 1..n
  OBVIOUS
<1>. SUFFICES ASSUME T # {} PROVE FALSE
  BY <1>0, Zenon
<1>1. PICK m \in T : \A l \in T : m <= l
  <2>1. T \subseteq Nat
    OBVIOUS
  <2>. HIDE DEF T
  <2>. QED  BY <2>1, LeastNatural
<1>2. m \in 1..n
  OBVIOUS
<1>3. PICK p : m = 1 \/ IsPass(p, x, n, m - 1)
  <2>1. CASE m # 1
    <3>1. m - 1 \in 1..n /\ ~(m <= m - 1)
      BY <1>2, <2>1
    <3>2. m - 1 \notin T
      BY <1>1, <3>1
    <3>. QED  BY <3>1, <3>2, Zenon
  <2>. QED  BY <2>1
<1>. DEFINE first == [k \in 0..(n - 1) |-> x[BitReversed(n)[k]]]
            h == [size \in 1..m |-> IF size = 1 THEN first ELSE Butterfly(p[size \div 2], n, size)]
<1>4. ASSUME NEW b \in 1..m, b # 1 PROVE h[b \div 2] = p[b \div 2]
  <2>. DEFINE a == b \div 2
  <2>1. a \in 1..(m - 1) /\ a \in 1..m /\ m # 1
    BY <1>2, <1>4
  <2>2. p = [size \in 1..(m - 1) |->
               IF size = 1 THEN first ELSE Butterfly(p[size \div 2], n, size)]
    BY <1>3, <2>1 DEF IsPass
  <2>. HIDE DEF a, first
  <2>3. p[a] = IF a = 1 THEN first ELSE Butterfly(p[a \div 2], n, a)
    BY <2>1, <2>2, Zenon
  <2>4. h[a] = IF a = 1 THEN first ELSE Butterfly(p[a \div 2], n, a)
    BY <2>1, Zenon
  <2>. QED  BY <2>3, <2>4, Zenon DEF a
<1>5. IsPass(h, x, n, m)
  <2>1. ASSUME NEW b \in 1..m
        PROVE  (IF b = 1 THEN first ELSE Butterfly(p[b \div 2], n, b)) =
               (IF b = 1 THEN first ELSE Butterfly(h[b \div 2], n, b))
    <3>. HIDE DEF first
    <3>1. CASE b = 1
      BY <3>1, Zenon
    <3>2. CASE b # 1
      <4>1. h[b \div 2] = p[b \div 2]
        BY <1>4, <3>2
      <4>. HIDE DEF h
      <4>. QED  BY <4>1, Zenon
    <3>. QED  BY <3>1, <3>2
  <2>2. h = [size \in 1..m |-> IF size = 1 THEN first ELSE Butterfly(h[size \div 2], n, size)]
    BY <2>1, Zenon
  <2>. QED  BY <2>2 DEF IsPass
<1>. HIDE DEF h
<1>. QED  BY <1>1, <1>5, Zenon

LEMMA PassOf ==
  ASSUME NEW n \in Nat \ {0}, NEW x
  PROVE  \E h : IsPass(h, x, n, n) /\ FFT(x, n) = h[n]
<1>. DEFINE h == CHOOSE f : IsPass(f, x, n, n)
<1>1. IsPass(h, x, n, n)
  BY PassExists, Zenon
<1>2. FFT(x, n) = h[n]
  BY Zenon DEF FFT, IsPass
<1>. QED  BY <1>1, <1>2, Zenon

LEMMA SizeHalves ==
  ASSUME NEW n \in Sizes, n # 1
  PROVE  \E s \in Sizes : n = 2 * s /\ s < n
<1>1. n \in Nat \ {0} /\ n % 2 = 0 /\ n \div 2 \in Sizes
  BY TransformAssumption
<1>2. n = 2 * (n \div 2) /\ n \div 2 < n
  BY <1>1
<1>. QED  BY <1>1, <1>2

(* What is left of a size when another is divided out is a size.           *)
LEMMA CofactorIsSize ==
  ASSUME NEW n \in Sizes, NEW s \in Sizes, NEW m \in Nat, m * s = n
  PROVE  m \in Sizes
<1>. DEFINE T == {a \in Sizes : \E b \in Nat : b * a = n /\ b \notin Sizes}
<1>. SUFFICES ASSUME T # {} PROVE FALSE
  OBVIOUS
<1>1. PICK a \in T : \A c \in T : a <= c
  <2>1. T \subseteq Nat
    BY TwiddleTyped
  <2>. HIDE DEF T
  <2>. QED  BY <2>1, LeastNatural
<1>2. PICK b \in Nat : b * a = n /\ b \notin Sizes
  OBVIOUS
<1>3. a # 1
  BY <1>2
<1>4. PICK c \in Sizes : a = 2 * c /\ c < a
  BY <1>3, SizeHalves
<1>5. c \in Nat /\ (2 * b) * c = n /\ 2 * b \in Nat
  <2>1. c \in Nat
    BY TwiddleTyped
  <2>2. (2 * b) * c = b * (2 * c)
    BY <2>1
  <2>. QED  BY <1>2, <1>4, <2>1, <2>2
<1>6. c \notin T
  BY <1>1, <1>4, <1>5, TwiddleTyped
<1>7. 2 * b \in Sizes
  BY <1>5, <1>6, Zenon
<1>8. 2 * b # 1 /\ (2 * b) \div 2 = b
  BY <1>2
<1>9. (2 * b) \div 2 \in Sizes
  BY <1>7, <1>8, TransformAssumption, Zenon
<1>. QED  BY <1>2, <1>8, <1>9

LEMMA ReversalAt ==
  ASSUME NEW n \in Nat \ {0}, NEW h, IsReversal(h, n, n), NEW b \in 1..n, NEW k \in 0..(n - 1)
  PROVE  /\ b = 1 => h[b][k] = 0
         /\ b # 1 => h[b][k] = (k % 2) * (b \div 2) + h[b \div 2][k \div 2]
<1>1. h = [c \in 1..n |-> [l \in 0..(n - 1) |->
             IF c = 1 THEN 0 ELSE (l % 2) * (c \div 2) + h[c \div 2][l \div 2]]]
  BY DEF IsReversal
<1>2. h[b] = [l \in 0..(n - 1) |->
             IF b = 1 THEN 0 ELSE (l % 2) * (b \div 2) + h[b \div 2][l \div 2]]
  BY <1>1, Zenon
<1>. QED  BY <1>2, Zenon

LEMMA ReversalAtMore ==
  ASSUME NEW n \in Nat \ {0}, NEW h, IsReversal(h, n, n), NEW b \in 1..n, NEW k \in 0..(n - 1),
         b # 1
  PROVE  h[b][k] = (k % 2) * (b \div 2) + h[b \div 2][k \div 2]
BY ReversalAt, Zenon

LEMMA ReversalInside ==
  ASSUME NEW n \in Nat \ {0}, NEW h, IsReversal(h, n, n),
         NEW m \in Sizes, m <= n, NEW k \in 0..(m - 1)
  PROVE  h[m][k] \in 0..(m - 1)
<1>. DEFINE Inside(a) == \A l \in 0..(a - 1) : h[a][l] \in 0..(a - 1)
            T == {a \in Sizes : a <= n /\ ~Inside(a)}
<1>. SUFFICES ASSUME T # {} PROVE FALSE
  <2>1. m \notin T
    OBVIOUS
  <2>2. Inside(m)
    <3>. HIDE DEF Inside
    <3>. QED  BY <2>1
  <2>. QED  BY <2>2
<1>1. PICK a \in T : \A c \in T : a <= c
  <2>1. T \subseteq Nat
    <3>. HIDE DEF Inside
    <3>. QED  BY TwiddleTyped
  <2>. HIDE DEF T
  <2>. QED  BY <2>1, LeastNatural
<1>2. PICK l \in 0..(a - 1) : h[a][l] \notin 0..(a - 1)
  OBVIOUS
<1>3. a \in Sizes /\ a \in Nat \ {0} /\ a <= n
  <2>. HIDE DEF Inside
  <2>. QED  BY TwiddleTyped
<1>4. /\ a = 1 => h[a][l] = 0
      /\ a # 1 => h[a][l] = (l % 2) * (a \div 2) + h[a \div 2][l \div 2]
  <2>1. a \in 1..n /\ l \in 0..(n - 1)
    BY <1>3
  <2>. HIDE DEF T
  <2>. QED  BY <2>1, ReversalAt, Zenon
<1>5. a # 1
  BY <1>2, <1>4
<1>6. PICK c \in Sizes : a = 2 * c /\ c < a
  BY <1>3, <1>5, SizeHalves
<1>7. c \in Nat \ {0} /\ a \div 2 = c
  BY <1>6, TwiddleTyped
<1>8. c \notin T /\ c <= n
  <2>. HIDE DEF T
  <2>. QED  BY <1>1, <1>3, <1>6, <1>7
<1>9. Inside(c)
  <2>. HIDE DEF Inside
  <2>. QED  BY <1>8
<1>10. l \div 2 \in 0..(c - 1) /\ l % 2 \in {0, 1}
  BY <1>3, <1>6, <1>7
<1>11. h[c][l \div 2] \in 0..(c - 1)
  BY <1>9, <1>10
<1>12. (l % 2) * c \in {0, c}
  BY <1>7, <1>10
<1>13. h[a][l] = (l % 2) * c + h[c][l \div 2]
  BY <1>4, <1>5, <1>7
<1>. HIDE DEF Inside, T
<1>14. h[a][l] \in 0..(a - 1)
  BY <1>6, <1>7, <1>11, <1>12, <1>13
<1>. QED  BY <1>2, <1>14

(* Positions with an even and with an odd number.                          *)
LEMMA ReversalByParity ==
  ASSUME NEW n \in Nat \ {0}, NEW h, IsReversal(h, n, n),
         NEW m \in Nat \ {0}, 2 * m <= n, NEW k \in 0..(m - 1)
  PROVE  h[2 * m][2 * k] = 0 + h[m][k] /\ h[2 * m][2 * k + 1] = m + h[m][k]
<1>1. /\ 2 * m \in 1..n /\ 2 * m # 1 /\ (2 * m) \div 2 = m
      /\ 2 * k \in 0..(n - 1) /\ (2 * k) % 2 = 0 /\ (2 * k) \div 2 = k
      /\ 2 * k + 1 \in 0..(n - 1) /\ (2 * k + 1) % 2 = 1 /\ (2 * k + 1) \div 2 = k
  OBVIOUS
<1>. DEFINE b == 2 * m
            e == 2 * k
            o == 2 * k + 1
<1>2. b \in 1..n /\ b # 1 /\ e \in 0..(n - 1) /\ o \in 0..(n - 1)
  BY <1>1
<1>. HIDE DEF b, e, o
<1>3. h[b][e] = (e % 2) * (b \div 2) + h[b \div 2][e \div 2]
  BY <1>2, ReversalAtMore, ZenonT(60)
<1>4. h[b][o] = (o % 2) * (b \div 2) + h[b \div 2][o \div 2]
  BY <1>2, ReversalAtMore, ZenonT(60)
<1>5. h[2 * m][2 * k] = ((2 * k) % 2) * ((2 * m) \div 2) + h[(2 * m) \div 2][(2 * k) \div 2]
  BY <1>2, <1>3, Zenon DEF b, e
<1>6. h[2 * m][2 * k + 1] =
        ((2 * k + 1) % 2) * ((2 * m) \div 2) + h[(2 * m) \div 2][(2 * k + 1) \div 2]
  BY <1>2, <1>4, Zenon DEF b, o
<1>7. h[2 * m][2 * k] = 0 * m + h[m][k] /\ h[2 * m][2 * k + 1] = 1 * m + h[m][k]
  BY <1>1, <1>5, <1>6, Zenon
<1>8. 0 * m = 0 /\ 1 * m = m
  OBVIOUS
<1>. QED  BY <1>7, <1>8, Zenon

-----------------------------------------------------------------------------
(* The input of one block of a pass: every m-th element from r.            *)
Stride(x, r, m, s) == [t \in 0..(s - 1) |-> x[r + m * t]]

(* After the pass for size s each block of s elements is a transform of a  *)
(* stride of the input.                                                    *)
BlocksAre(data, x, rev, s, m) ==
  \A q \in 0..(m - 1) : \A j \in 0..(s - 1) :
    data[q * s + j] = Term(Stride(x, rev[m][q], m, s), s, j) % P

(* What a pass puts at offset j of block q, from two blocks half the size. *)
ButterflyValue(d, n, s, q, j) ==
  LET even == d[(2 * q) * s + (j % s)]
      odd == d[(2 * q + 1) * s + (j % s)] * Twiddle(n, (j % s) * (n \div (2 * s)))
  IN  (IF j < s THEN even + odd ELSE even - odd) % P

LEMMA ButterflyAt ==
  ASSUME NEW n \in Nat \ {0}, NEW d, NEW s \in Nat \ {0}, NEW q \in Nat,
         NEW j \in 0..(2 * s - 1), q * (2 * s) + j \in 0..(n - 1)
  PROVE  Butterfly(d, n, 2 * s)[q * (2 * s) + j] = ButterflyValue(d, n, s, q, j)
<1>. DEFINE p == q * (2 * s) + j
            size == 2 * s
            k == j % s
            base == (2 * q) * s
            next == (2 * q + 1) * s
<1>0. j \in Int /\ s \in Nat \ {0} /\ size \in Nat \ {0} /\ base \in Int
  OBVIOUS
<1>1. k \in 0..(s - 1) /\ j = s * (j \div s) + k /\ j \div s \in Int
  BY <1>0, DivisionEquation
<1>2. p = size * q + j /\ q \in Int /\ j \in 0..(size - 1)
  OBVIOUS
<1>3. p % size = j
  <2>. HIDE DEF p, size
  <2>. QED  BY <1>0, <1>2, DivisionUnique, Zenon
<1>4. size \div 2 = s
  OBVIOUS
<1>5. p % s = k
  <2>. DEFINE u == 2 * q + (j \div s)
  <2>1. p = s * u + k /\ u \in Int
    <3>. DEFINE v == j \div s
                a == 2 * q
    <3>1. q * (2 * s) = s * a /\ a \in Int /\ v \in Int /\ j = s * v + k
      BY <1>1
    <3>2. p = s * a + j
      BY <3>1
    <3>. HIDE DEF a, v, k, p
    <3>3. s * a + (s * v + k) = s * (a + v) + k
      BY <1>0, <1>1, <3>1
    <3>4. p = s * (a + v) + k /\ a + v \in Int
      BY <3>1, <3>2, <3>3
    <3>. QED  BY <3>4 DEF a, v
  <2>. HIDE DEF p, u, k
  <2>. QED  BY <1>0, <1>1, <2>1, DivisionUnique, Zenon
<1>6. p - (p % size) + k = base + k /\ p - (p % size) + k + s = next + k
  <2>. DEFINE e == p % size
  <2>1. e = j
    BY <1>3
  <2>. HIDE DEF e, k
  <2>2. q * (2 * s) = (2 * q) * s /\ (2 * q + 1) * s = (2 * q) * s + s
    OBVIOUS
  <2>. QED  BY <1>1, <2>1, <2>2
<1>7. Butterfly(d, n, size)[p] =
        (IF p % size < size \div 2
           THEN d[p - (p % size) + (p % (size \div 2))]
                + d[p - (p % size) + (p % (size \div 2)) + size \div 2]
                  * Twiddle(n, (p % (size \div 2)) * (n \div size))
           ELSE d[p - (p % size) + (p % (size \div 2))]
                - d[p - (p % size) + (p % (size \div 2)) + size \div 2]
                  * Twiddle(n, (p % (size \div 2)) * (n \div size))) % P
  <2>1. p \in 0..(n - 1)
    OBVIOUS
  <2>. HIDE DEF p, size
  <2>. QED  BY <2>1, Zenon DEF Butterfly
<1>. HIDE DEF p, size, k, base, next
<1>8. Butterfly(d, n, size)[p] =
        (IF j < s
           THEN d[base + k] + d[next + k] * Twiddle(n, k * (n \div size))
           ELSE d[base + k] - d[next + k] * Twiddle(n, k * (n \div size))) % P
  BY <1>3, <1>4, <1>5, <1>6, <1>7, Zenon
<1>. QED  BY <1>8, Zenon DEF p, size, k, base, next, ButterflyValue

LEMMA TermOfOne ==
  ASSUME NEW x, x[0] \in Int, 1 \in Sizes
  PROVE  Term(x, 1, 0) = x[0]
<1>. DEFINE f == Spectral(x, 1, 0)
<1>1. f[0] = x[0] * Twiddle(1, (0 * 0) % 1)
  BY DEF Spectral
<1>2. (0 * 0) % 1 = 0 /\ Twiddle(1, 0) = 1
  BY TransformAssumption
<1>3. f[0] = x[0]
  BY <1>1, <1>2
<1>4. 0 \in Nat /\ \A u \in 0..0 : f[u] \in Int
  BY <1>3
<1>. HIDE DEF f
<1>5. SumFunctionOnSet(f, 0..0) = f[0] + SumFunctionOnSet(f, 0..(0 - 1))
  BY <1>4, SumLast
<1>6. SumFunctionOnSet(f, 0..(0 - 1)) = 0
  <2>1. 0 - 1 = -1
    OBVIOUS
  <2>. QED  BY <2>1, SumOfNone
<1>7. SumFunctionOnSet(f, 0..0) = x[0]
  BY <1>3, <1>5, <1>6
<1>8. 1 - 1 = 0
  OBVIOUS
<1>. QED  BY <1>7, <1>8, Zenon DEF Term, f

LEMMA FirstPass ==
  ASSUME NEW n \in Nat \ {0}, NEW x, NEW h, IsPass(h, x, n, n)
  PROVE  h[1] = [k \in 0..(n - 1) |-> x[BitReversed(n)[k]]]
<1>1. h = [size \in 1..n |->
             IF size = 1 THEN [k \in 0..(n - 1) |-> x[BitReversed(n)[k]]]
             ELSE Butterfly(h[size \div 2], n, size)]
  BY DEF IsPass
<1>2. 1 \in 1..n
  OBVIOUS
<1>3. h[1] = IF 1 = 1 THEN [k \in 0..(n - 1) |-> x[BitReversed(n)[k]]]
             ELSE Butterfly(h[1 \div 2], n, 1)
  BY <1>1, <1>2, Zenon
<1>. QED  BY <1>3, Zenon

LEMMA PassDoubles ==
  ASSUME NEW n \in Nat \ {0}, NEW x, NEW h, IsPass(h, x, n, n),
         NEW s \in Nat \ {0}, 2 * s <= n
  PROVE  h[2 * s] = Butterfly(h[s], n, 2 * s)
<1>. DEFINE z == 2 * s
<1>1. z \in 1..n /\ z # 1 /\ z \div 2 = s
  OBVIOUS
<1>. HIDE DEF z
<1>2. h = [size \in 1..n |->
             IF size = 1 THEN [k \in 0..(n - 1) |-> x[BitReversed(n)[k]]]
             ELSE Butterfly(h[size \div 2], n, size)]
  BY DEF IsPass
<1>3. h[z] = IF z = 1 THEN [k \in 0..(n - 1) |-> x[BitReversed(n)[k]]]
             ELSE Butterfly(h[z \div 2], n, z)
  BY <1>1, <1>2, Zenon
<1>4. h[z] = Butterfly(h[z \div 2], n, z)
  BY <1>1, <1>3, Zenon
<1>. QED  BY <1>1, <1>4, Zenon DEF z

(* Before the first pass a block is a single element.                      *)
LEMMA FirstBlocks ==
  ASSUME NEW n \in Sizes, NEW x, \A k \in 0..(n - 1) : x[k] \in 0..(P - 1),
         NEW h, IsPass(h, x, n, n),
         NEW rev, IsReversal(rev, n, n), BitReversed(n) = rev[n], 1 \in Sizes
  PROVE  BlocksAre(h[1], x, rev, 1, n)
<1>1. n \in Nat \ {0} /\ P \in Nat \ {0}
  BY TransformAssumption
<1>. SUFFICES ASSUME NEW q \in 0..(n - 1), NEW j \in 0..(1 - 1)
              PROVE  h[1][q * 1 + j] = Term(Stride(x, rev[n][q], n, 1), 1, j) % P
  BY DEF BlocksAre
<1>2. j = 0 /\ q * 1 + j = q
  OBVIOUS
<1>. DEFINE r == rev[n][q]
<1>3. r \in 0..(n - 1)
  <2>1. n <= n
    BY <1>1
  <2>. QED  BY <1>1, <2>1, ReversalInside, Zenon
<1>. HIDE DEF r
<1>4. h[1] = [k \in 0..(n - 1) |-> x[rev[n][k]]]
  <2>1. 1 \in 1..n
    BY <1>1
  <2>2. h[1] = [k \in 0..(n - 1) |-> x[BitReversed(n)[k]]]
    BY <1>1, FirstPass, Zenon
  <2>. QED  BY <2>2
<1>5. h[1][q] = x[r]
  BY <1>4 DEF r
<1>. DEFINE y == Stride(x, r, n, 1)
<1>6. y[0] = x[r] /\ x[r] \in 0..(P - 1)
  <2>1. r + n * 0 = r /\ 0 \in 0..(1 - 1)
    BY <1>1, <1>3
  <2>2. y[0] = x[r + n * 0]
    BY <2>1 DEF Stride
  <2>. QED  BY <1>3, <2>1, <2>2
<1>. HIDE DEF y
<1>7. Term(y, 1, 0) = x[r]
  BY <1>1, <1>6, TermOfOne
<1>8. x[r] % P = x[r]
  BY <1>1, <1>6
<1>. QED  BY <1>2, <1>5, <1>7, <1>8, Zenon DEF r, y

LEMMA LaterTwiddle ==
  ASSUME NEW n \in Sizes, NEW s \in Sizes, NEW m \in Nat, m * s = n, NEW k \in 0..(s - 1)
  PROVE  Twiddle(n, k * (n \div s)) = Twiddle(s, k) /\ n \div s = m
<1>1. s \in Nat \ {0} /\ n \in Nat \ {0}
  BY TwiddleTyped
<1>2. n = s * m + 0 /\ 0 \in 0..(s - 1) /\ m \in Int
  BY <1>1
<1>3. n % s = 0 /\ n \div s = m
  <2>. DEFINE z == 0
  <2>1. n = s * m + z /\ z \in 0..(s - 1) /\ m \in Int
    BY <1>2
  <2>. HIDE DEF z
  <2>2. n % s = z /\ n \div s = m
    BY <1>1, <2>1, DivisionUnique
  <2>. QED  BY <2>2 DEF z
<1>4. Twiddle(n, k * (n \div s)) = Twiddle(s, k)
  BY <1>3, TransformAssumption
<1>. QED  BY <1>3, <1>4

LEMMA StrideInside ==
  ASSUME NEW s \in Nat \ {0}, NEW m \in Nat \ {0}, NEW r \in 0..(m - 1), NEW t \in 0..(s - 1)
  PROVE  r + m * t \in 0..(m * s - 1)
<1>1. m * t <= m * (s - 1) /\ m * t >= 0 /\ m * (s - 1) = m * s - m
  OBVIOUS
<1>2. m * t \in Int /\ m * s \in Int
  OBVIOUS
<1>. QED  BY <1>1, <1>2

(* The halves of a stride by parity are strides.                           *)
LEMMA StrideByParity ==
  ASSUME NEW x, NEW s \in Nat \ {0}, NEW m \in Nat \ {0}, NEW r \in Int, NEW t \in 0..(s - 1)
  PROVE  /\ Stride(x, r, 2 * m, s)[t] = Stride(x, r, m, 2 * s)[2 * t]
         /\ Stride(x, m + r, 2 * m, s)[t] = Stride(x, r, m, 2 * s)[2 * t + 1]
<1>1. 2 * t \in 0..(2 * s - 1) /\ 2 * t + 1 \in 0..(2 * s - 1)
  OBVIOUS
<1>2. (2 * m) * t = m * (2 * t) /\ m * (2 * t + 1) = m * (2 * t) + m
  OBVIOUS
<1>3. r + (2 * m) * t = r + m * (2 * t) /\ (m + r) + (2 * m) * t = r + m * (2 * t + 1)
  <2>. DEFINE a == m * (2 * t)
  <2>1. a \in Int
    OBVIOUS
  <2>. HIDE DEF a
  <2>. QED  BY <1>2, <2>1 DEF a
<1>4. /\ Stride(x, r, 2 * m, s)[t] = x[r + (2 * m) * t]
      /\ Stride(x, m + r, 2 * m, s)[t] = x[(m + r) + (2 * m) * t]
      /\ Stride(x, r, m, 2 * s)[2 * t] = x[r + m * (2 * t)]
      /\ Stride(x, r, m, 2 * s)[2 * t + 1] = x[r + m * (2 * t + 1)]
  BY <1>1 DEF Stride
<1>. QED  BY <1>3, <1>4, Zenon

(* The other half of the twiddles is the first with the opposite sign.     *)
LEMMA TwiddleSecondHalf ==
  ASSUME NEW s \in Sizes, 2 * s \in Sizes, NEW j \in 0..(2 * s - 1)
  PROVE  /\ j % s \in 0..(s - 1) /\ j % s \in 0..(2 * s - 1)
         /\ Twiddle(2 * s, j) \in Int /\ Twiddle(2 * s, j % s) \in Int
         /\ j < s => Twiddle(2 * s, j) = Twiddle(2 * s, j % s)
         /\ ~(j < s) => Congruent(Twiddle(2 * s, j), -Twiddle(2 * s, j % s))
<1>1. s \in Nat \ {0}
  BY TwiddleTyped
<1>. DEFINE k == j % s
            n == 2 * s
<1>2. k \in 0..(s - 1) /\ k \in 0..(n - 1) /\ n \in Sizes /\ n \in Nat \ {0}
  <2>1. j \in Int
    BY <1>1
  <2>2. k \in 0..(s - 1)
    BY <1>1, <2>1, DivisionEquation, Zenon
  <2>. HIDE DEF k
  <2>. QED  BY <1>1, <2>2
<1>3. j < s => k = j
  BY <1>1
<1>4. ~(j < s) => j = k + s
  <2>. SUFFICES ASSUME ~(j < s) PROVE j = k + s
    OBVIOUS
  <2>1. j = s * 1 + (j - s) /\ j - s \in 0..(s - 1) /\ 1 \in Int
    BY <1>1
  <2>2. k = j - s
    <3>. DEFINE d == j - s
    <3>1. j = s * 1 + d /\ d \in 0..(s - 1) /\ 1 \in Int
      BY <2>1
    <3>. HIDE DEF d
    <3>2. j % s = d
      BY <1>1, <3>1, DivisionUnique
    <3>. QED  BY <3>2 DEF d
  <2>. HIDE DEF k
  <2>. QED  BY <1>1, <2>2
<1>5. Twiddle(n, j) \in Int /\ Twiddle(n, k) \in Int
  <2>1. n \in Sizes /\ j \in 0..(n - 1) /\ k \in 0..(n - 1)
    BY <1>2
  <2>. HIDE DEF n, k
  <2>. QED  BY <2>1, TwiddleTyped
<1>6. ASSUME ~(j < s) PROVE Congruent(Twiddle(n, j), -Twiddle(n, k))
  <2>1. s \in 0..(n - 1) /\ Twiddle(n, s) = -1
    BY <1>1, TwiddleHalf
  <2>2. (k + s) % n = j
    <3>1. j \in 0..(n - 1) /\ j = k + s
      BY <1>4, <1>6
    <3>2. j % n = j
      BY <1>2, <3>1
    <3>. QED  BY <3>1, <3>2, Zenon
  <2>. HIDE DEF n, k
  <2>3. Congruent(Twiddle(n, (k + s) % n), Twiddle(n, k) * Twiddle(n, s))
    BY <1>2, <2>1, TwiddleProduct
  <2>4. Twiddle(n, k) * (-1) = -Twiddle(n, k)
    BY <1>5
  <2>. QED  BY <2>1, <2>2, <2>3, <2>4, Zenon
<1>. HIDE DEF k, n
<1>7. j < s => Twiddle(n, j) = Twiddle(n, k)
  BY <1>3
<1>. QED  BY <1>2, <1>5, <1>6, <1>7 DEF k, n

(* A butterfly adds up the transforms of the two halves.                   *)
Mixture(y, a, b, w) ==
  y \in Int /\ a \in Int /\ b \in Int /\ w \in Int /\ Congruent(y, a + w * b)

LEMMA ButterflySum ==
  ASSUME NEW y, NEW a, NEW b, NEW w, Mixture(y, a, b, w), NEW v \in Int, Congruent(w, v)
  PROVE  y % P = ((a % P) + (b % P) * v) % P
<1>0. y \in Int /\ a \in Int /\ b \in Int /\ w \in Int /\ Congruent(y, a + w * b)
  BY DEF Mixture
<1>1. /\ a % P \in Int /\ Congruent(a, a % P)
      /\ b % P \in Int /\ Congruent(b, b % P)
  BY <1>0, CongruentToRemainder
<1>. DEFINE c == a % P
            d == b % P
<1>2. c \in Int /\ d \in Int /\ Congruent(a, c) /\ Congruent(b, d)
  BY <1>1
<1>. HIDE DEF c, d
<1>3. b * v \in Int /\ d * v \in Int /\ w * b \in Int /\ v * b = b * v
  BY <1>0, <1>2
<1>4. Congruent(w * b, v * b) /\ Congruent(b * v, d * v)
  BY <1>0, <1>2, CongruentTimes
<1>5. Congruent(w * b, d * v)
  BY <1>0, <1>3, <1>4, CongruentTransitive
<1>6. Congruent(a + w * b, c + d * v) /\ a + w * b \in Int /\ c + d * v \in Int
  BY <1>0, <1>2, <1>3, <1>5, CongruentIsCompatible
<1>7. Congruent(y, c + d * v)
  BY <1>0, <1>6, CongruentTransitive
<1>8. y % P = (c + d * v) % P
  BY <1>0, <1>6, <1>7, RemainderOfCongruent
<1>. QED  BY <1>8 DEF c, d

LEMMA ButterflyDifference ==
  ASSUME NEW y, NEW a, NEW b, NEW w, Mixture(y, a, b, w), NEW v \in Int, Congruent(w, -v)
  PROVE  y % P = ((a % P) - (b % P) * v) % P
<1>1. a % P \in Int /\ b % P \in Int /\ -v \in Int
  BY CongruentToRemainder DEF Mixture
<1>2. y % P = ((a % P) + (b % P) * (-v)) % P
  BY <1>1, ButterflySum
<1>. DEFINE c == a % P
            d == b % P
<1>3. c \in Int /\ d \in Int
  BY <1>1
<1>4. y % P = (c + d * (-v)) % P
  BY <1>2
<1>. HIDE DEF c, d
<1>5. c + d * (-v) = c - d * v
  BY <1>3
<1>. QED  BY <1>4, <1>5, Zenon DEF c, d

LEMMA BlocksGrow ==
  ASSUME NEW n \in Sizes, NEW x, \A k \in 0..(n - 1) : x[k] \in 0..(P - 1),
         NEW h, IsPass(h, x, n, n), NEW rev, IsReversal(rev, n, n),
         NEW s \in Sizes, 2 * s \in Sizes, NEW m \in Sizes, m * (2 * s) = n,
         BlocksAre(h[s], x, rev, s, 2 * m)
  PROVE  BlocksAre(h[2 * s], x, rev, 2 * s, m)
<1>1. n \in Nat \ {0} /\ s \in Nat \ {0} /\ m \in Nat \ {0} /\ P \in Nat \ {0}
  BY TransformAssumption
<1>. SUFFICES ASSUME NEW q \in 0..(m - 1), NEW j \in 0..(2 * s - 1)
              PROVE  h[2 * s][q * (2 * s) + j] =
                       Term(Stride(x, rev[m][q], m, 2 * s), 2 * s, j) % P
  BY DEF BlocksAre
<1>. DEFINE r == rev[m][q]
            k == j % s
            e == Stride(x, r, 2 * m, s)
            o == Stride(x, m + r, 2 * m, s)
            y == Stride(x, r, m, 2 * s)
            w == Twiddle(2 * s, j)
            v == Twiddle(2 * s, k)
<1>2. 2 * m <= n /\ m <= n /\ 2 * s \in 1..n /\ 2 * s # 1 /\ (2 * s) \div 2 = s
  <2>1. m * (2 * s) >= m * 2 /\ m * (2 * s) >= 2 * s
    BY <1>1
  <2>. QED  BY <1>1, <2>1
<1>3. r \in 0..(m - 1)
  BY <1>1, <1>2, ReversalInside, Zenon
<1>4. rev[2 * m][2 * q] = r /\ rev[2 * m][2 * q + 1] = m + r
  <2>1. rev[2 * m][2 * q] = 0 + r /\ rev[2 * m][2 * q + 1] = m + r
    BY <1>1, <1>2, ReversalByParity
  <2>. HIDE DEF r
  <2>. QED  BY <1>3, <2>1
<1>. HIDE DEF r
<1>5. /\ k \in 0..(s - 1) /\ k \in 0..(2 * s - 1) /\ w \in Int /\ v \in Int
      /\ j < s => w = v
      /\ ~(j < s) => Congruent(w, -v)
  BY TwiddleSecondHalf
<1>6. q * (2 * s) + j \in 0..(n - 1)
  <2>. DEFINE z == 2 * s
  <2>1. z \in Nat \ {0} /\ j \in 0..(z - 1)
    BY <1>1
  <2>2. z * m = n /\ z * q = q * z
    BY <1>1
  <2>. HIDE DEF z
  <2>3. j + z * q \in 0..(z * m - 1)
    BY <1>1, <2>1, StrideInside
  <2>4. q * z \in Int /\ j \in Int
    BY <2>1
  <2>5. q * z + j = j + q * z
    BY <2>4
  <2>6. q * z + j \in 0..(n - 1)
    BY <2>2, <2>3, <2>5, Zenon
  <2>. QED  BY <2>6 DEF z
<1>7. h[2 * s] = Butterfly(h[s], n, 2 * s)
  BY <1>1, <1>2, PassDoubles
<1>8. Twiddle(n, k * (n \div (2 * s))) = v
  <2>. HIDE DEF k
  <2>1. m \in Nat
    BY <1>1
  <2>. QED  BY <1>5, <2>1, LaterTwiddle, Zenon
<1>9. h[s][(2 * q) * s + k] = Term(e, s, k) % P /\ h[s][(2 * q + 1) * s + k] = Term(o, s, k) % P
  <2>1. 2 * q \in 0..(2 * m - 1) /\ 2 * q + 1 \in 0..(2 * m - 1)
    BY <1>1
  <2>. HIDE DEF k
  <2>2. /\ h[s][(2 * q) * s + k] = Term(Stride(x, rev[2 * m][2 * q], 2 * m, s), s, k) % P
        /\ h[s][(2 * q + 1) * s + k] = Term(Stride(x, rev[2 * m][2 * q + 1], 2 * m, s), s, k) % P
    BY <1>5, <2>1, Zenon DEF BlocksAre
  <2>. QED  BY <1>4, <2>2, Zenon
<1>10. \A u \in 0..(2 * s - 1) : y[u] \in Int
  <2>. SUFFICES ASSUME NEW u \in 0..(2 * s - 1) PROVE y[u] \in Int
    OBVIOUS
  <2>1. y[u] = x[r + m * u]
    BY DEF Stride
  <2>. DEFINE z == 2 * s
  <2>2. z \in Nat \ {0} /\ u \in 0..(z - 1) /\ m * z = n
    BY <1>1
  <2>. HIDE DEF z
  <2>3. r + m * u \in 0..(m * z - 1)
    BY <1>1, <1>3, <2>2, StrideInside
  <2>4. x[r + m * u] \in 0..(P - 1)
    BY <2>2, <2>3, Zenon
  <2>. QED  BY <1>1, <2>1, <2>4
<1>11. \A t \in 0..(s - 1) : e[t] = y[2 * t] /\ o[t] = y[2 * t + 1]
  <2>1. r \in Int
    BY <1>3
  <2>. SUFFICES ASSUME NEW t \in 0..(s - 1) PROVE e[t] = y[2 * t] /\ o[t] = y[2 * t + 1]
    OBVIOUS
  <2>. QED  BY <1>1, <2>1, StrideByParity
<1>12. \A t \in 0..(s - 1) : e[t] \in Int /\ o[t] \in Int
  <2>. HIDE DEF e, o, y
  <2>. QED  BY <1>1, <1>10, <1>11
<1>13. k \in Nat /\ j \in Nat
  <2>. HIDE DEF k
  <2>. QED  BY <1>5
<1>. HIDE DEF e, o, y, k, w, v
<1>14. Term(e, s, k) \in Int /\ Term(o, s, k) \in Int /\ Term(y, 2 * s, j) \in Int
  <2>1. \A t \in 0..(s - 1) : e[t] \in Int
    BY <1>12
  <2>2. \A t \in 0..(s - 1) : o[t] \in Int
    BY <1>12
  <2>3. Term(e, s, k) \in Int
    BY <1>13, <2>1, SumTyped, Zenon
  <2>4. Term(o, s, k) \in Int
    BY <1>13, <2>2, SumTyped, Zenon
  <2>5. Term(y, 2 * s, j) \in Int
    BY <1>10, <1>13, SumTyped, Zenon
  <2>. QED  BY <2>3, <2>4, <2>5
<1>15. Congruent(Term(y, 2 * s, j), Term(e, s, k) + w * Term(o, s, k))
  BY <1>10, <1>11, SplitSum, Zenon DEF k, w
<1>16. h[2 * s][q * (2 * s) + j] = ButterflyValue(h[s], n, s, q, j)
  <2>. DEFINE d == h[s]
  <2>1. q \in Nat
    OBVIOUS
  <2>. HIDE DEF d
  <2>2. Butterfly(d, n, 2 * s)[q * (2 * s) + j] = ButterflyValue(d, n, s, q, j)
    BY <1>1, <1>6, <2>1, ButterflyAt
  <2>. QED  BY <1>7, <2>2, Zenon DEF d
<1>. DEFINE a == Term(e, s, k)
            b == Term(o, s, k)
            c == Term(y, 2 * s, j)
<1>17. h[2 * s][q * (2 * s) + j] =
         (IF j < s THEN (a % P) + (b % P) * v ELSE (a % P) - (b % P) * v) % P
  BY <1>8, <1>9, <1>16, Zenon DEF ButterflyValue, k
<1>18. a \in Int /\ b \in Int /\ c \in Int /\ Congruent(c, a + w * b)
  BY <1>14, <1>15
<1>19. Mixture(c, a, b, w)
  <2>. HIDE DEF a, b, c
  <2>. QED  BY <1>5, <1>18 DEF Mixture
<1>20. c = Term(Stride(x, rev[m][q], m, 2 * s), 2 * s, j)
  BY Zenon DEF y, r
<1>. HIDE DEF a, b, c
<1>21. CASE j < s
  <2>1. Congruent(w, v)
    BY <1>5, <1>21, CongruentReflexive
  <2>2. c % P = ((a % P) + (b % P) * v) % P
    BY <1>5, <1>19, <2>1, ButterflySum
  <2>. QED  BY <1>17, <1>20, <1>21, <2>2, Zenon
<1>22. CASE ~(j < s)
  <2>1. c % P = ((a % P) - (b % P) * v) % P
    BY <1>5, <1>22, <1>19, ButterflyDifference
  <2>. QED  BY <1>17, <1>20, <1>22, <2>1, Zenon
<1>. QED  BY <1>21, <1>22

LEMMA OneIsSize == ASSUME NEW n \in Sizes PROVE 1 \in Sizes
<1>1. PICK a \in Sizes : \A c \in Sizes : a <= c
  <2>1. Sizes \subseteq Nat /\ Sizes # {}
    BY TransformAssumption
  <2>. QED  BY <2>1, LeastNatural
<1>2. SUFFICES ASSUME a # 1 PROVE FALSE
  BY <1>1
<1>3. PICK c \in Sizes : a = 2 * c /\ c < a
  BY <1>2, SizeHalves
<1>4. a \in Nat /\ c \in Nat /\ a <= c
  BY <1>1, TwiddleTyped
<1>. QED  BY <1>3, <1>4

(* After the pass for a size the blocks of that size are transforms.       *)
LEMMA BlocksOfSize ==
  ASSUME NEW n \in Sizes, NEW x, \A k \in 0..(n - 1) : x[k] \in 0..(P - 1),
         NEW h, IsPass(h, x, n, n),
         NEW rev, IsReversal(rev, n, n), BitReversed(n) = rev[n],
         NEW s \in Sizes, NEW m \in Nat, m * s = n
  PROVE  BlocksAre(h[s], x, rev, s, m)
<1>. DEFINE Good(a) == \A b \in Nat : b * a = n => BlocksAre(h[a], x, rev, a, b)
            T == {a \in Sizes : ~Good(a)}
<1>. SUFFICES ASSUME T # {} PROVE FALSE
  <2>1. s \notin T
    OBVIOUS
  <2>2. Good(s)
    <3>. HIDE DEF Good
    <3>. QED  BY <2>1
  <2>. QED  BY <2>2
<1>1. PICK a \in T : \A c \in T : a <= c
  <2>1. T \subseteq Nat
    <3>. HIDE DEF Good
    <3>. QED  BY TwiddleTyped
  <2>. HIDE DEF T
  <2>. QED  BY <2>1, LeastNatural
<1>2. PICK b \in Nat : b * a = n /\ ~BlocksAre(h[a], x, rev, a, b)
  OBVIOUS
<1>3. a \in Sizes /\ a \in Nat \ {0}
  <2>. HIDE DEF Good
  <2>. QED  BY TwiddleTyped
<1>4. a # 1
  <2>1. BlocksAre(h[1], x, rev, 1, n)
    BY OneIsSize, FirstBlocks, Zenon
  <2>2. a = 1 => b = n
    BY <1>2
  <2>. QED  BY <1>2, <2>1, <2>2, Zenon
<1>5. PICK c \in Sizes : a = 2 * c /\ c < a
  BY <1>3, <1>4, SizeHalves
<1>6. b \in Sizes
  BY <1>2, <1>3, CofactorIsSize
<1>7. 2 * c \in Sizes /\ b * (2 * c) = n /\ c \in Nat
  BY <1>2, <1>3, <1>5, TwiddleTyped
<1>8. (2 * b) * c = n /\ 2 * b \in Nat
  <2>1. (2 * b) * c = b * (2 * c)
    BY <1>2, <1>7
  <2>. QED  BY <1>2, <1>7, <2>1
<1>9. Good(c)
  <2>1. c \notin T
    <3>. HIDE DEF T
    <3>. QED  BY <1>1, <1>3, <1>5, <1>7
  <2>. HIDE DEF Good
  <2>. QED  BY <2>1
<1>10. BlocksAre(h[c], x, rev, c, 2 * b)
  BY <1>8, <1>9, Zenon
<1>11. BlocksAre(h[2 * c], x, rev, 2 * c, b)
  BY <1>6, <1>7, <1>10, BlocksGrow, Zenon
<1>. QED  BY <1>2, <1>5, <1>11, Zenon

(* The passes leave a function of the positions.                           *)
LEMMA PassIsFunction ==
  ASSUME NEW n \in Sizes, NEW x, NEW h, IsPass(h, x, n, n)
  PROVE  h[n] = [k \in 0..(n - 1) |-> h[n][k]]
<1>1. n \in Nat \ {0}
  BY TwiddleTyped
<1>2. CASE n = 1
  <2>1. h[1] = [k \in 0..(n - 1) |-> x[BitReversed(n)[k]]]
    BY <1>1, FirstPass
  <2>2. h[n] = [k \in 0..(n - 1) |-> x[BitReversed(n)[k]]]
    BY <1>2, <2>1, Zenon
  <2>. QED  BY <2>2, Zenon
<1>3. CASE n # 1
  <2>1. PICK s \in Sizes : n = 2 * s /\ s < n
    BY <1>3, SizeHalves
  <2>2. s \in Nat \ {0} /\ 2 * s <= n
    BY <1>1, <2>1, TwiddleTyped
  <2>3. h[2 * s] = Butterfly(h[s], n, 2 * s)
    BY <1>1, <2>2, PassDoubles
  <2>4. h[n] = Butterfly(h[s], n, n)
    BY <2>1, <2>3, Zenon
  <2>. QED  BY <2>4 DEF Butterfly
<1>. QED  BY <1>2, <1>3

LEMMA TransformIsDFT ==
  ASSUME NEW n \in Sizes, NEW x, \A k \in 0..(n - 1) : x[k] \in 0..(P - 1)
  PROVE  FFT(x, n) = DFT(x, n)
<1>1. n \in Nat \ {0} /\ P \in Nat \ {0}
  BY TransformAssumption
<1>2. PICK h : IsPass(h, x, n, n) /\ FFT(x, n) = h[n]
  BY <1>1, PassOf
<1>3. PICK rev : IsReversal(rev, n, n) /\ BitReversed(n) = rev[n]
  BY <1>1, ReversalOf
<1>4. BlocksAre(h[n], x, rev, n, 1)
  <2>1. 1 * n = n /\ 1 \in Nat
    BY <1>1
  <2>. QED  BY <1>2, <1>3, <2>1, BlocksOfSize, Zenon
<1>5. rev[1][0] = 0
  <2>1. 1 \in 1..n /\ 0 \in 0..(n - 1)
    BY <1>1
  <2>. QED  BY <1>1, <1>3, <2>1, ReversalAt
<1>. DEFINE y == Stride(x, rev[1][0], 1, n)
<1>6. \A t \in 0..(n - 1) : y[t] = x[t] /\ x[t] \in Int
  <2>1. \A t \in 0..(n - 1) : y[t] = x[0 + 1 * t] /\ 0 + 1 * t = t
    BY <1>5 DEF Stride
  <2>. HIDE DEF y
  <2>. QED  BY <1>1, <2>1
<1>7. ASSUME NEW k \in 0..(n - 1) PROVE h[n][k] = Term(y, n, k) % P
  <2>1. 0 \in 0..(1 - 1) /\ 0 * n + k = k
    BY <1>1
  <2>2. h[n][0 * n + k] = Term(y, n, k) % P
    BY <1>4, <2>1 DEF BlocksAre
  <2>. HIDE DEF y
  <2>. QED  BY <2>1, <2>2
<1>. HIDE DEF y
<1>8. ASSUME NEW k \in 0..(n - 1)
      PROVE  Term(y, n, k) = SumFunction([t \in 0..(n - 1) |-> x[t] * Twiddle(n, (t * k) % n)])
  <2>. DEFINE f == [t \in 0..(n - 1) |-> x[t] * Twiddle(n, (t * k) % n)]
              c == Spectral(y, n, k)
  <2>1. k \in Nat
    OBVIOUS
  <2>2. \A t \in 0..(n - 1) : y[t] \in Int
    BY <1>6
  <2>3. IsFiniteSet(0..(n - 1)) /\ \A t \in 0..(n - 1) : c[t] \in Int
    BY <2>1, <2>2, TermTyped
  <2>4. \A t \in 0..(n - 1) : f[t] = c[t]
    BY <1>6, Zenon DEF Spectral
  <2>. HIDE DEF f, c
  <2>5. SumFunctionOnSet(f, 0..(n - 1)) = SumFunctionOnSet(c, 0..(n - 1))
    BY <2>3, <2>4, SumSame
  <2>6. SumFunction(f) = SumFunctionOnSet(f, 0..(n - 1))
    <3>1. DOMAIN f = 0..(n - 1)
      BY DEF f
    <3>. QED  BY <3>1, Zenon DEF SumFunction
  <2>. QED  BY <2>5, <2>6, Zenon DEF Term, f, c
<1>9. h[n] = [k \in 0..(n - 1) |-> h[n][k]]
  BY <1>2, PassIsFunction
<1>10. h[n] = [k \in 0..(n - 1) |->
         SumFunction([t \in 0..(n - 1) |-> x[t] * Twiddle(n, (t * k) % n)]) % P]
  BY <1>7, <1>8, <1>9, Zenon
<1>. QED  BY <1>2, <1>10, Zenon DEF DFT

-----------------------------------------------------------------------------
(* The matrices are flat: chirp by chirp, then channel, then range bin.    *)
LEMMA FlatIndex ==
  ASSUME NEW H \in Nat \ {0}, NEW R \in Nat \ {0},
         NEW c \in Nat, NEW e \in 0..(H - 1), NEW r \in 0..(R - 1),
         NEW p, p = (c * H + e) * R + r
  PROVE  /\ p \in Nat
         /\ p \div R = c * H + e /\ p % R = r
         /\ (c * H + e) \div H = c
         /\ p \div (H * R) = c
         /\ p = (H * R) * c + (e * R + r)
         /\ e * R + r \in 0..(H * R - 1) /\ H * R \in Nat \ {0}
<1>. DEFINE u == c * H + e
            v == e * R + r
            n == H * R
<1>1. u \in Nat /\ u = H * c + e
  OBVIOUS
<1>2. u \div H = c /\ u % H = e
  <2>. HIDE DEF u
  <2>. QED  BY <1>1, DivisionUnique
<1>3. p = R * u + r
  <2>. HIDE DEF u
  <2>1. p = u * R + r
    BY DEF u
  <2>. QED  BY <1>1, <2>1
<1>4. p \div R = u /\ p % R = r /\ p \in Nat
  <2>. HIDE DEF u
  <2>1. p \div R = u /\ p % R = r
    <3>1. u \in Int
      BY <1>1
    <3>. QED  BY <1>3, <3>1, DivisionUnique, ZenonT(60)
  <2>2. R * u \in Nat
    BY <1>1
  <2>. QED  BY <1>3, <2>1, <2>2
<1>5. n \in Nat \ {0} /\ v \in 0..(n - 1)
  <2>1. e * R \in Nat /\ e * R <= (H - 1) * R /\ (H - 1) * R = H * R - R /\ H * R \in Nat
        /\ H * R # 0
    OBVIOUS
  <2>. QED  BY <2>1
<1>6. p = n * c + v
  <2>1. (c * H + e) * R = (H * R) * c + e * R
    OBVIOUS
  <2>2. (H * R) * c \in Int /\ e * R \in Int
    OBVIOUS
  <2>. QED  BY <2>1, <2>2
<1>7. p \div n = c
  <2>. HIDE DEF n, v
  <2>. QED  BY <1>5, <1>6, DivisionUnique
<1>. QED  BY <1>2, <1>4, <1>5, <1>6, <1>7, Zenon

Coordinates(p, H, R, c, e, r) == (p \div R) % H = e /\ p % R = r /\ p \div (H * R) = c

LEMMA FlatCoordinates ==
  ASSUME NEW H \in Nat \ {0}, NEW R \in Nat \ {0}, NEW C \in Nat,
         NEW c \in 0..(C - 1), NEW e \in 0..(H - 1), NEW r \in 0..(R - 1),
         NEW p, p = (c * H + e) * R + r
  PROVE  Coordinates(p, H, R, c, e, r)
<1>1. c \in Nat
  OBVIOUS
<1>2. (p \div R) % H = e
  <2>. DEFINE u == p \div R
  <2>1. u = c * H + e
    BY <1>1, FlatIndex
  <2>2. u = H * c + e /\ c \in Int
    <3>. HIDE DEF u
    <3>. QED  BY <1>1, <2>1
  <2>. HIDE DEF u
  <2>3. u % H = e
    BY <2>2, DivisionUnique
  <2>. QED  BY <2>3 DEF u
<1>3. p % R = r
  BY <1>1, FlatIndex
<1>4. p \div (H * R) = c
  BY <1>1, FlatIndex
<1>. QED  BY <1>2, <1>3, <1>4 DEF Coordinates

LEMMA FlatBound ==
  ASSUME NEW H \in Nat \ {0}, NEW R \in Nat \ {0}, NEW C \in Nat,
         NEW c \in 0..(C - 1), NEW e \in 0..(H - 1), NEW r \in 0..(R - 1),
         NEW p, p = (c * H + e) * R + r
  PROVE  p \in 0..(C * H * R - 1)
<1>. DEFINE n == H * R
            v == e * R + r
<1>1. c \in Nat
  OBVIOUS
<1>2. p \in Nat /\ p = n * c + v /\ v \in 0..(n - 1) /\ n \in Nat \ {0}
  BY <1>1, FlatIndex
<1>3. C * H * R = n * C
  OBVIOUS
<1>. HIDE DEF n, v
<1>4. /\ n * C = n * (c + 1) + n * (C - (c + 1)) /\ n * (C - (c + 1)) >= 0
      /\ n * (c + 1) = n * c + n
  BY <1>1, <1>2
<1>5. n * C \in Int /\ n * c \in Int /\ n * (C - (c + 1)) \in Int
  BY <1>1, <1>2
<1>. QED  BY <1>2, <1>3, <1>4, <1>5

LEMMA FlatParts ==
  ASSUME NEW H \in Nat \ {0}, NEW R \in Nat \ {0}, NEW p \in Nat
  PROVE  /\ p \div R \in Nat /\ p % R \in 0..(R - 1) /\ p = (p \div R) * R + (p % R)
         /\ (p \div R) \div H \in Nat /\ (p \div R) % H \in 0..(H - 1)
         /\ p \div (H * R) = (p \div R) \div H
<1>. DEFINE u == p \div R
            r == p % R
            c == u \div H
            e == u % H
<1>1. u \in Nat /\ r \in 0..(R - 1) /\ p = R * u + r
  OBVIOUS
<1>. HIDE DEF u, r
<1>2. c \in Nat /\ e \in 0..(H - 1) /\ u = H * c + e
  BY <1>1
<1>. HIDE DEF c, e
<1>3. p = u * R + r /\ u = c * H + e
  BY <1>1, <1>2
<1>4. p = (c * H + e) * R + r
  BY <1>3
<1>5. p \div (H * R) = c
  BY <1>1, <1>2, <1>4, FlatIndex
<1>. QED  BY <1>1, <1>2, <1>3, <1>5, Zenon DEF u, r, c, e

LEMMA QuotientBound ==
  ASSUME NEW n \in Nat \ {0}, NEW D \in Nat, NEW u \in Nat, NEW v \in Nat, n * u + v < n * D
  PROVE  u < D
<1>. SUFFICES ASSUME u >= D PROVE FALSE
  OBVIOUS
<1>1. u - D \in Nat
  OBVIOUS
<1>2. n * u = n * D + n * (u - D)
  OBVIOUS
<1>3. n * (u - D) \in Nat
  BY <1>1
<1>4. n * u \in Int /\ n * D \in Int
  OBVIOUS
<1>. QED  BY <1>2, <1>3, <1>4

(* Exchanging the halves rotates by one of them.                           *)
LEMMA SwappedIsRotated ==
  ASSUME NEW n \in Sizes, n > 1, NEW k \in 0..(n - 1)
  PROVE  Swapped(k, n) = (k + n \div 2) % n /\ Swapped(k, n) \in 0..(n - 1)
<1>0. n \in Nat /\ n # 1
  BY TwiddleTyped
<1>1. PICK s \in Sizes : n = 2 * s /\ s < n
  BY <1>0, SizeHalves
<1>2. s \in Nat \ {0} /\ n \in Nat \ {0} /\ n \div 2 = s
  BY <1>1, TwiddleTyped
<1>3. CASE k < s
  <2>. DEFINE d == k + s
  <2>1. d \in 0..(n - 1) /\ d = n * 0 + d /\ 0 \in Int
    BY <1>1, <1>2, <1>3
  <2>2. Swapped(k, n) = d
    BY <1>2, <1>3 DEF Swapped
  <2>. HIDE DEF d
  <2>3. d % n = d
    BY <1>2, <2>1
  <2>. QED  BY <1>2, <2>1, <2>2, <2>3 DEF d
<1>4. CASE ~(k < s)
  <2>. DEFINE d == k - s
              a == k + s
  <2>1. d \in 0..(n - 1) /\ a = n * 1 + d /\ 1 \in Int
    BY <1>1, <1>2, <1>4
  <2>2. Swapped(k, n) = d
    BY <1>2, <1>4 DEF Swapped
  <2>. HIDE DEF d, a
  <2>3. a % n = d
    <3>1. n \in Nat \ {0}
      BY <1>2
    <3>. QED  BY <2>1, <3>1, DivisionUnique
  <2>. QED  BY <1>2, <2>1, <2>2, <2>3 DEF a
<1>. QED  BY <1>3, <1>4

LEMMA TransformTyped ==
  ASSUME NEW n \in Sizes, NEW x, \A k \in 0..(n - 1) : x[k] \in 0..(P - 1), NEW k \in 0..(n - 1)
  PROVE  DFT(x, n)[k] \in 0..(P - 1) /\ Magnitude(DFT(x, n)[k]) \in Int
<1>1. P \in Nat \ {0} /\ k \in Nat /\ \A t \in 0..(n - 1) : x[t] \in Int
  BY TransformAssumption
<1>. DEFINE f == [t \in 0..(n - 1) |-> x[t] * Twiddle(n, (t * k) % n)]
            y == DFT(x, n)[k]
<1>2. f = Spectral(x, n, k)
  BY DEF Spectral
<1>3. IsFiniteSet(0..(n - 1)) /\ \A t \in 0..(n - 1) : Spectral(x, n, k)[t] \in Int
  BY <1>1, TermTyped
<1>4. y = SumFunction(f) % P
  BY DEF DFT
<1>5. SumFunction(f) = SumFunctionOnSet(f, 0..(n - 1))
  <2>1. DOMAIN f = 0..(n - 1)
    OBVIOUS
  <2>. HIDE DEF f
  <2>. QED  BY <2>1, Zenon DEF SumFunction
<1>. HIDE DEF f
<1>6. SumFunctionOnSet(f, 0..(n - 1)) \in Int
  <2>1. \A t \in 0..(n - 1) : f[t] \in Int
    BY <1>2, <1>3, Zenon
  <2>. QED  BY <1>3, <2>1, SumInteger
<1>. HIDE DEF y
<1>7. y \in 0..(P - 1)
  <2>. DEFINE a == SumFunction(f)
  <2>1. a \in Int /\ y = a % P
    BY <1>4, <1>5, <1>6
  <2>. HIDE DEF a
  <2>. QED  BY <1>1, <2>1
<1>8. Magnitude(y) \in Int
  BY <1>1, <1>7 DEF Magnitude
<1>. QED  BY <1>7, <1>8, Zenon DEF y

LEMMA MagnitudesAre ==
  ASSUME NEW n \in Sizes, NEW x, \A k \in 0..(n - 1) : x[k] \in 0..(P - 1)
  PROVE  Magnitudes(x, n) = [k \in 0..(n - 1) |-> Magnitude(DFT(x, n)[k])]
<1>1. FFT(x, n) = DFT(x, n)
  BY TransformIsDFT
<1>. QED  BY <1>1, Zenon DEF Magnitudes

-----------------------------------------------------------------------------
(* The invariant of the transform: what it is given are integers, and each *)
(* matrix holds what the definition gives for it.                          *)
IntegerRows ==
  /\ RowCount \in Nat
  /\ \A row \in 0..(RowCount - 1) : \A k \in DOMAIN IFData[row] : IFData[row][k] \in Int

ProfileIsSpectra ==
  \A chirp \in 0..(NumChirps - 1), ch \in 0..(NumChannels - 1), r \in 0..(g.range - 1) :
    profile[(chirp * NumChannels + ch) * g.range + r] = SpectrumOfRow(ch * NumChirps + chirp)[r]

MatrixSize == g.doppler * NumChannels * g.range

MatrixIsSpectra ==
  /\ DOMAIN RDMatrix = 0..(MatrixSize - 1)
  /\ \A p \in 0..(MatrixSize - 1) :
       RDMatrix[p] = SpectrumOfBin((p \div g.range) % NumChannels, p % g.range)
                                  [p \div (NumChannels * g.range)]

TransformInv ==
  /\ g \in Geometries
  /\ pc \in {"range", "doppler", "shift", "done"} => IntegerRows
  /\ pc \in {"doppler", "shift", "done"} => ~NoChannels
  /\ pc = "doppler" => ProfileIsSpectra
  /\ pc = "shift" => MatrixIsSpectra
  /\ TransformIsReference

LEMMA GeometrySizes ==
  ASSUME g \in Geometries
  PROVE  /\ g.range \in Sizes /\ g.range \in Nat \ {0}
         /\ g.doppler \in Sizes /\ g.doppler \in Nat \ {0}
         /\ NumChannels \in Nat \ {0}
         /\ \A n \in Sizes : \A k \in 0..(n - 1) : Window(n, k) \in Int
<1>1. g.range \in Sizes /\ g.doppler \in Sizes
  BY TransformAssumption
<1>2. g.range \in Nat \ {0} /\ g.doppler \in Nat \ {0}
  BY <1>1, TwiddleTyped
<1>3. g.rx \in Nat
  BY GeometriesTyped DEF Geometry
<1>4. NumChannels \in Nat \ {0}
  BY <1>3 DEF NumChannels
<1>5. ASSUME NEW n \in Sizes, NEW k \in 0..(n - 1) PROVE Window(n, k) \in Int
  <2>1. Hann(n, k) \in Int
    BY TransformAssumption, Zenon
  <2>. QED  BY <2>1 DEF Window
<1>. QED  BY <1>1, <1>2, <1>4, <1>5

LEMMA ChirpsTyped ==
  ASSUME g \in Geometries, RowCount \in Nat, ~NoChannels
  PROVE  NumChirps \in Nat
<1>1. g.rx \in Nat /\ g.chirps \in Nat /\ DefaultRows \in Nat
  BY FramesAssumption, GeometriesTyped DEF Geometry
<1>2. g.chirps # 0 \/ g.rx # 0
  BY DEF NoChannels
<1>3. g.rx # 0 => RowCount \div g.rx \in Nat
  <2>. DEFINE a == RowCount
              b == g.rx
  <2>1. a \in Nat /\ b \in Nat
    BY <1>1
  <2>. HIDE DEF a, b
  <2>2. b # 0 => a \div b \in Nat
    BY <2>1
  <2>. QED  BY <2>2 DEF a, b
<1>. QED  BY <1>1, <1>2, <1>3 DEF NumChirps

LEMMA RangeInputTyped ==
  ASSUME g \in Geometries, IntegerRows, NEW row \in Nat, NEW k \in 0..(g.range - 1)
  PROVE  RangeInput(row)[k] \in 0..(P - 1)
<1>1. P \in Nat \ {0} /\ Window(g.range, k) \in Int
  BY GeometrySizes, TransformAssumption
<1>. DEFINE w == Window(g.range, k)
            v == IFData[row][k]
            Inside == row < RowCount /\ k < NumSamples /\ k \in DOMAIN IFData[row]
<1>2. RangeInput(row)[k] = IF Inside THEN (v * w) % P ELSE 0
  BY DEF RangeInput
<1>3. ASSUME Inside PROVE v \in Int
  <2>1. row \in 0..(RowCount - 1)
    BY <1>3 DEF IntegerRows
  <2>. QED  BY <1>3, <2>1 DEF IntegerRows
<1>4. w \in Int
  BY <1>1
<1>. HIDE DEF w, v, Inside
<1>5. ASSUME Inside PROVE (v * w) % P \in 0..(P - 1)
  <2>1. v * w \in Int
    BY <1>3, <1>4, <1>5
  <2>. QED  BY <1>1, <2>1, DivisionEquation
<1>. QED  BY <1>1, <1>2, <1>5

LEMMA SpectrumTyped ==
  ASSUME g \in Geometries, IntegerRows, NEW row \in Nat, NEW r \in 0..(g.range - 1)
  PROVE  /\ SpectrumOfRow(row)[r] \in Int
         /\ SpectrumOfRow(row)[r] = Magnitude(DFT(RangeInput(row), g.range)[r])
<1>. DEFINE n == g.range
            x == RangeInput(row)
<1>1. n \in Sizes /\ \A k \in 0..(n - 1) : x[k] \in 0..(P - 1)
  BY GeometrySizes, RangeInputTyped
<1>2. SpectrumOfRow(row)[r] = Magnitude(DFT(x, n)[r])
  BY Zenon DEF SpectrumOfRow
<1>3. r \in 0..(n - 1)
  OBVIOUS
<1>. HIDE DEF n, x
<1>4. Magnitude(DFT(x, n)[r]) \in Int
  BY <1>1, <1>3, TransformTyped
<1>. QED  BY <1>2, <1>4, Zenon DEF n, x

LEMMA RangeMagnitudes ==
  ASSUME g \in Geometries, IntegerRows, NEW row \in Nat, NEW r \in 0..(g.range - 1)
  PROVE  Magnitudes(RangeInput(row), g.range)[r] = SpectrumOfRow(row)[r]
<1>. DEFINE n == g.range
            x == RangeInput(row)
<1>1. n \in Sizes /\ \A k \in 0..(n - 1) : x[k] \in 0..(P - 1)
  BY GeometrySizes, RangeInputTyped
<1>2. SpectrumOfRow(row)[r] = Magnitude(DFT(x, n)[r])
  BY SpectrumTyped
<1>3. r \in 0..(n - 1)
  OBVIOUS
<1>. HIDE DEF n, x
<1>4. Magnitudes(x, n) = [k \in 0..(n - 1) |-> Magnitude(DFT(x, n)[k])]
  BY <1>1, MagnitudesAre
<1>. QED  BY <1>2, <1>3, <1>4, Zenon DEF n, x

(* The chirps of a range bin, from their spectra.                          *)
BinInput(ch, r) ==
  [chirp \in 0..(g.doppler - 1) |->
     IF chirp < NumChirps
       THEN (SpectrumOfRow(ch * NumChirps + chirp)[r] * Window(g.doppler, chirp)) % P
       ELSE 0]

LEMMA BinInputTyped ==
  ASSUME g \in Geometries, IntegerRows, ~NoChannels,
         NEW ch \in Nat, NEW r \in 0..(g.range - 1), NEW chirp \in 0..(g.doppler - 1)
  PROVE  BinInput(ch, r)[chirp] \in 0..(P - 1)
<1>1. P \in Nat \ {0} /\ Window(g.doppler, chirp) \in Int /\ NumChirps \in Nat
  BY GeometrySizes, TransformAssumption, ChirpsTyped DEF IntegerRows
<1>. DEFINE row == ch * NumChirps + chirp
            w == Window(g.doppler, chirp)
            v == SpectrumOfRow(row)[r]
<1>2. BinInput(ch, r)[chirp] = IF chirp < NumChirps THEN (v * w) % P ELSE 0
  BY DEF BinInput
<1>3. row \in Nat
  BY <1>1, GeometrySizes
<1>. HIDE DEF row
<1>4. v \in Int /\ w \in Int
  BY <1>1, <1>3, SpectrumTyped
<1>. HIDE DEF w, v
<1>5. (v * w) % P \in 0..(P - 1)
  <2>1. v * w \in Int
    BY <1>4
  <2>. QED  BY <1>1, <2>1, DivisionEquation
<1>. QED  BY <1>1, <1>2, <1>5

LEMMA BinIsTransform ==
  ASSUME NEW ch, NEW r, NEW d \in 0..(g.doppler - 1)
  PROVE  SpectrumOfBin(ch, r)[d] = Magnitude(DFT(BinInput(ch, r), g.doppler)[d])
BY Zenon DEF SpectrumOfBin, BinInput

LEMMA DopplerMagnitudes ==
  ASSUME g \in Geometries, IntegerRows, ~NoChannels, ProfileIsSpectra,
         NEW ch \in 0..(NumChannels - 1), NEW r \in 0..(g.range - 1), NEW d \in 0..(g.doppler - 1)
  PROVE  Magnitudes(DopplerInput(ch, r), g.doppler)[d] = SpectrumOfBin(ch, r)[d]
<1>1. NumChirps \in Nat /\ g.doppler \in Nat \ {0} /\ g.doppler \in Sizes /\ NumChannels \in Nat
  BY ChirpsTyped, GeometrySizes DEF IntegerRows
<1>2. ASSUME NEW chirp \in 0..(g.doppler - 1), chirp < NumChirps
      PROVE  profile[(chirp * NumChannels + ch) * g.range + r]
               = SpectrumOfRow(ch * NumChirps + chirp)[r]
  <2>1. chirp \in 0..(NumChirps - 1)
    BY <1>1, <1>2
  <2>. QED  BY <2>1, Zenon DEF ProfileIsSpectra
<1>3. DopplerInput(ch, r) = BinInput(ch, r)
  BY <1>2, Zenon DEF DopplerInput, BinInput
<1>. DEFINE n == g.doppler
            x == BinInput(ch, r)
<1>4. \A chirp \in 0..(n - 1) : x[chirp] \in 0..(P - 1)
  <2>1. ch \in Nat
    BY <1>1
  <2>. QED  BY <2>1, BinInputTyped
<1>5. n \in Sizes /\ d \in 0..(n - 1)
  BY <1>1
<1>6. SpectrumOfBin(ch, r)[d] = Magnitude(DFT(x, n)[d])
  BY BinIsTransform, Zenon
<1>. HIDE DEF n, x
<1>7. Magnitudes(x, n) = [k \in 0..(n - 1) |-> Magnitude(DFT(x, n)[k])]
  BY <1>4, <1>5, MagnitudesAre
<1>8. Magnitudes(x, n)[d] = SpectrumOfBin(ch, r)[d]
  BY <1>5, <1>6, <1>7, Zenon
<1>. QED  BY <1>3, <1>8, Zenon DEF n, x

-----------------------------------------------------------------------------
(* What the transform reads of the configuration and the rows stays.       *)
LEMMA SpectrumStays ==
  ASSUME g' = g, IFData' = IFData
  PROVE  /\ IntegerRows' <=> IntegerRows
         /\ NoChannels' <=> NoChannels
         /\ NumChirps' = NumChirps
         /\ NumChannels' = NumChannels
         /\ MatrixSize' = MatrixSize
<1>1. RowCount' = RowCount
  BY Zenon DEF RowCount
<1>2. IntegerRows' <=> IntegerRows
  BY <1>1, Zenon DEF IntegerRows
<1>3. NoChannels' <=> NoChannels
  BY Zenon DEF NoChannels
<1>4. NumChirps' = NumChirps /\ NumChannels' = NumChannels
  BY <1>1, Zenon DEF NumChirps, NumChannels
<1>. QED  BY <1>2, <1>3, <1>4, Zenon DEF MatrixSize

LEMMA InputStays ==
  ASSUME g' = g, IFData' = IFData, NEW row
  PROVE  RangeInput(row)' = RangeInput(row) /\ SpectrumOfRow(row)' = SpectrumOfRow(row)
<1>1. RowCount' = RowCount /\ NumSamples' = NumSamples
  BY Zenon DEF RowCount, NumSamples
<1>2. \A n, k : Window(n, k)' = Window(n, k)
  BY Zenon DEF Window
<1>3. RangeInput(row)' = RangeInput(row)
  BY <1>1, <1>2, Zenon DEF RangeInput
<1>4. SpectrumOfRow(row)' = SpectrumOfRow(row)
  BY <1>3, Zenon DEF SpectrumOfRow
<1>. QED  BY <1>3, <1>4

LEMMA BinStays ==
  ASSUME g' = g, IFData' = IFData, NEW ch, NEW r
  PROVE  SpectrumOfBin(ch, r)' = SpectrumOfBin(ch, r)
<1>1. NumChirps' = NumChirps
  BY SpectrumStays
<1>2. ASSUME NEW row PROVE SpectrumOfRow(row)' = SpectrumOfRow(row)
  BY InputStays
<1>3. \A n, k : Window(n, k)' = Window(n, k)
  BY Zenon DEF Window
<1>4. BinInput(ch, r)' = BinInput(ch, r)
  BY <1>1, <1>2, <1>3, Zenon DEF BinInput
<1>. QED  BY <1>4, Zenon DEF SpectrumOfBin, BinInput

LEMMA RangeStep ==
  ASSUME g \in Geometries, IntegerRows, RangeTransform
  PROVE  ProfileIsSpectra' /\ ~NoChannels
<1>1. g' = g /\ IFData' = IFData /\ RangeFits
  BY DEF RangeTransform
<1>2. ~NoChannels
  BY <1>1 DEF RangeFits
<1>3. PICK C \in Nat : C = NumChirps
  BY <1>2, ChirpsTyped DEF IntegerRows
<1>4. PICK H \in Nat \ {0} : H = NumChannels
  BY GeometrySizes
<1>5. PICK R \in Nat \ {0} : R = g.range
  BY GeometrySizes
<1>6. NumChirps' = C /\ NumChannels' = H /\ g'.range = R
  BY <1>1, <1>3, <1>4, <1>5, SpectrumStays
<1>7. profile' =
        [p \in 0..(C * H * R - 1) |->
           Magnitudes(RangeInput(((p \div R) % H) * C + p \div (H * R)), R)[p % R]]
  BY <1>3, <1>4, <1>5, Zenon DEF RangeTransform
<1>8. ASSUME NEW chirp \in 0..(C - 1), NEW ch \in 0..(H - 1), NEW r \in 0..(R - 1)
      PROVE  profile'[(chirp * H + ch) * R + r] = SpectrumOfRow(ch * C + chirp)[r]
  <2>1. PICK p : p = (chirp * H + ch) * R + r
    OBVIOUS
  <2>2. chirp \in Nat /\ chirp < C
    BY <1>3
  <2>3. (p \div R) % H = ch /\ p % R = r /\ p \div (H * R) = chirp
    <3>1. Coordinates(p, H, R, chirp, ch, r)
      BY <1>3, <1>4, <1>5, <2>1, FlatCoordinates, Zenon
    <3>. QED  BY <3>1 DEF Coordinates
  <2>4. p \in 0..(C * H * R - 1)
    BY <1>3, <1>4, <1>5, <2>1, FlatBound, Zenon
  <2>5. profile'[p] = Magnitudes(RangeInput(ch * C + chirp), R)[r]
    <3>1. profile'[p] = Magnitudes(RangeInput(((p \div R) % H) * C + p \div (H * R)), R)[p % R]
      BY <1>7, <2>4, Zenon
    <3>. QED  BY <2>3, <3>1, Zenon
  <2>6. PICK row \in Nat : row = ch * C + chirp
    BY <1>4
  <2>7. Magnitudes(RangeInput(row), R)[r] = SpectrumOfRow(row)[r]
    BY <1>5, RangeMagnitudes
  <2>. QED  BY <2>1, <2>5, <2>6, <2>7, Zenon
<1>9. ASSUME NEW chirp \in 0..(C - 1), NEW ch \in 0..(H - 1), NEW r \in 0..(R - 1)
      PROVE  profile'[(chirp * H + ch) * R + r] = SpectrumOfRow(ch * C + chirp)'[r]
  <2>1. PICK row : row = ch * C + chirp
    OBVIOUS
  <2>2. SpectrumOfRow(row)' = SpectrumOfRow(row)
    BY <1>1, InputStays
  <2>. QED  BY <1>8, <2>1, <2>2, Zenon
<1>10. ProfileIsSpectra'
  <2>. SUFFICES ASSUME NEW chirp \in (0..(NumChirps - 1))', NEW ch \in (0..(NumChannels - 1))',
                       NEW r \in (0..(g.range - 1))'
                PROVE  (profile[(chirp * NumChannels + ch) * g.range + r]
                          = SpectrumOfRow(ch * NumChirps + chirp)[r])'
    BY DEF ProfileIsSpectra
  <2>. QED  BY <1>6, <1>9, Zenon
<1>. QED  BY <1>2, <1>10

LEMMA DopplerStep ==
  ASSUME g \in Geometries, IntegerRows, ~NoChannels, ProfileIsSpectra, DopplerTransform
  PROVE  MatrixIsSpectra'
<1>1. g' = g /\ IFData' = IFData
  BY DEF DopplerTransform
<1>2. PICK D \in Nat \ {0} : D = g.doppler
  BY GeometrySizes
<1>3. PICK H \in Nat \ {0} : H = NumChannels
  BY GeometrySizes
<1>4. PICK R \in Nat \ {0} : R = g.range
  BY GeometrySizes
<1>5. NumChannels' = H /\ g'.range = R /\ MatrixSize' = D * H * R
  BY <1>1, <1>2, <1>3, <1>4, SpectrumStays, Zenon DEF MatrixSize
<1>6. RDMatrix' =
        [p \in 0..(D * H * R - 1) |->
           Magnitudes(DopplerInput((p \div R) % H, p % R), D)[p \div (H * R)]]
  BY <1>2, <1>3, <1>4, Zenon DEF DopplerTransform
<1>7. ASSUME NEW p \in 0..(D * H * R - 1)
      PROVE  RDMatrix'[p] = SpectrumOfBin((p \div R) % H, p % R)'[p \div (H * R)]
  <2>1. p \in Nat /\ p < D * H * R
    <3>1. D * H * R \in Nat
      OBVIOUS
    <3>. QED  BY <3>1
  <2>2. PICK ch \in 0..(H - 1) : ch = (p \div R) % H
    BY <2>1, FlatParts
  <2>3. PICK r \in 0..(R - 1) : r = p % R
    BY <2>1, FlatParts
  <2>4. PICK d : d = p \div (H * R)
    OBVIOUS
  <2>5. d \in 0..(D - 1)
    <3>. DEFINE n == H * R
    <3>1. n \in Nat \ {0} /\ D * H * R = n * D
      <4>1. D * H * R = (H * R) * D
        OBVIOUS
      <4>2. H * R \in Nat /\ H * R # 0
        OBVIOUS
      <4>. QED  BY <4>1, <4>2
    <3>2. d = p \div n
      BY <2>4
    <3>. HIDE DEF n
    <3>3. p = n * d + (p % n) /\ d \in Nat /\ p % n >= 0 /\ p % n \in Int
      BY <2>1, <3>1, <3>2
    <3>4. d < D
      <4>. DEFINE v == p % n
      <4>1. n * d + v < n * D /\ v \in Nat
        BY <2>1, <3>1, <3>3
      <4>2. D \in Nat
        BY <1>2
      <4>. HIDE DEF v
      <4>. QED  BY <3>1, <3>3, <4>1, <4>2, QuotientBound
    <3>. QED  BY <3>3, <3>4
  <2>6. RDMatrix'[p] = Magnitudes(DopplerInput(ch, r), D)[d]
    BY <1>6, <2>2, <2>3, <2>4, Zenon
  <2>7. Magnitudes(DopplerInput(ch, r), D)[d] = SpectrumOfBin(ch, r)[d]
    BY <1>2, <1>3, <1>4, <2>5, DopplerMagnitudes
  <2>8. SpectrumOfBin(ch, r)' = SpectrumOfBin(ch, r)
    BY <1>1, BinStays
  <2>. QED  BY <2>2, <2>3, <2>4, <2>6, <2>7, <2>8, Zenon
<1>8. DOMAIN RDMatrix' = 0..(D * H * R - 1)
  BY <1>6
<1>. QED  BY <1>5, <1>7, <1>8, Zenon DEF MatrixIsSpectra

(* Where the reference places cell p of the matrix.                        *)
Rotated(p) == g.shift /\ g.range > 1 /\ g.doppler > 1 /\ p < g.doppler * g.range
RowOf(p) ==
  IF Rotated(p) THEN ((p \div g.range) + g.doppler \div 2) % g.doppler ELSE p \div g.range
BinOf(p) == IF Rotated(p) THEN (p + g.range \div 2) % g.range ELSE p % g.range
ReferenceAt(p) == SpectrumOfBin(RowOf(p) % NumChannels, BinOf(p))[RowOf(p) \div NumChannels]

LEMMA ReferenceStays ==
  ASSUME g' = g, IFData' = IFData, NEW p
  PROVE  ReferenceAt(p)' = ReferenceAt(p)
<1>1. PICK H : H = NumChannels /\ H = NumChannels'
  BY SpectrumStays
<1>2. PICK u : u = RowOf(p) /\ u = RowOf(p)'
  <2>1. RowOf(p)' = RowOf(p)
    BY Zenon DEF RowOf, Rotated
  <2>. QED  BY <2>1
<1>3. PICK r : r = BinOf(p) /\ r = BinOf(p)'
  <2>1. BinOf(p)' = BinOf(p)
    BY Zenon DEF BinOf, Rotated
  <2>. QED  BY <2>1
<1>4. PICK c : c = u % H
  OBVIOUS
<1>5. SpectrumOfBin(c, r)' = SpectrumOfBin(c, r)
  BY BinStays
<1>6. ReferenceAt(p) = SpectrumOfBin(c, r)[u \div H]
  BY <1>1, <1>2, <1>3, <1>4, Zenon DEF ReferenceAt
<1>7. ReferenceAt(p)' = SpectrumOfBin(c, r)'[u \div H]
  BY <1>1, <1>2, <1>3, <1>4, Zenon DEF ReferenceAt
<1>. QED  BY <1>5, <1>6, <1>7, Zenon

LEMMA RotateColumn ==
  ASSUME NEW n \in Sizes, n > 1, NEW p \in Nat
  PROVE  (p + n \div 2) % n = Swapped(p % n, n) /\ Swapped(p % n, n) \in 0..(n - 1)
<1>1. n \in Nat \ {0}
  BY TwiddleTyped
<1>. DEFINE q == p \div n
            k == p % n
            s == n \div 2
<1>2. q \in Int /\ k \in 0..(n - 1) /\ p = n * q + k /\ s \in Int
  <2>1. q \in Int /\ k \in 0..(n - 1) /\ p = n * q + k
    BY <1>1
  <2>2. s \in Int
    BY <1>1
  <2>. QED  BY <2>1, <2>2
<1>3. Swapped(k, n) = (k + s) % n /\ Swapped(k, n) \in 0..(n - 1)
  <2>1. k \in 0..(n - 1)
    BY <1>2
  <2>. HIDE DEF k
  <2>. QED  BY <2>1, SwappedIsRotated
<1>. HIDE DEF q, k, s
<1>4. PICK a \in Int : a = k + s
  BY <1>1, <1>2
<1>5. p + s = n * q + a
  <2>1. n * q \in Int
    BY <1>1, <1>2
  <2>. QED  BY <1>1, <1>2, <1>4, <2>1
<1>6. (n * q + a) % n = a % n
  BY <1>1, <1>2, RemainderPlus
<1>7. (p + s) % n = Swapped(k, n)
  BY <1>3, <1>4, <1>5, <1>6, Zenon
<1>. QED  BY <1>3, <1>7, Zenon DEF k, s

(* The shifted matrix has in cell p what the reference places there.       *)
LEMMA ShiftedSpectrum ==
  ASSUME g \in Geometries, MatrixIsSpectra, NEW p \in 0..(MatrixSize - 1)
  PROVE  RDMatrix[ShiftedFrom(p)] = ReferenceAt(p)
<1>1. PICK D \in Sizes : D = g.doppler /\ D \in Nat \ {0}
  BY GeometrySizes
<1>2. PICK H \in Nat \ {0} : H = NumChannels
  BY GeometrySizes
<1>3. PICK R \in Sizes : R = g.range /\ R \in Nat \ {0}
  BY GeometrySizes
<1>. DEFINE M == D * H * R
<1>4. MatrixSize = M /\ M \in Nat /\ p \in Nat /\ p < M
  <2>1. MatrixSize = M
    BY <1>1, <1>2, <1>3 DEF MatrixSize
  <2>2. M \in Nat
    BY <1>1, <1>2, <1>3
  <2>. HIDE DEF M
  <2>. QED  BY <2>1, <2>2
<1>. HIDE DEF M
<1>5. ASSUME NEW q \in 0..(M - 1)
      PROVE  RDMatrix[q] = SpectrumOfBin((q \div R) % H, q % R)[(q \div R) \div H]
  <2>1. q \in Nat
    BY <1>4
  <2>2. q \div (H * R) = (q \div R) \div H
    BY <1>2, <1>3, <2>1, FlatParts
  <2>3. RDMatrix[q] = SpectrumOfBin((q \div R) % H, q % R)[q \div (H * R)]
    BY <1>2, <1>3, <1>4, Zenon DEF MatrixIsSpectra
  <2>. QED  BY <2>2, <2>3, Zenon
<1>6. CASE ~Rotated(p)
  <2>1. ShiftedFrom(p) = p
    BY <1>6, Zenon DEF ShiftedFrom, Rotated
  <2>2. RowOf(p) = p \div R /\ BinOf(p) = p % R
    BY <1>3, <1>6, Zenon DEF RowOf, BinOf
  <2>3. p \in 0..(M - 1)
    BY <1>4
  <2>. QED  BY <1>2, <1>5, <2>1, <2>2, <2>3, Zenon DEF ReferenceAt
<1>7. CASE Rotated(p)
  <2>1. R > 1 /\ D > 1 /\ p < D * R
    BY <1>1, <1>3, <1>7 DEF Rotated
  <2>2. PICK u : u = p \div R
    OBVIOUS
  <2>3. u \in 0..(D - 1)
    <3>1. p = R * u + (p % R) /\ u \in Nat /\ p % R \in Nat
      <4>1. p % R \in 0..(R - 1) /\ p = R * (p \div R) + (p % R) /\ p \div R \in Nat
        BY <1>3, <1>4
      <4>. QED  BY <1>3, <2>2, <4>1
    <3>2. u < D
      <4>. DEFINE v == p % R
      <4>1. D * R = R * D
        BY <1>1, <1>3
      <4>2. R * u + v < R * D /\ v \in Nat
        BY <2>1, <3>1, <4>1
      <4>3. R \in Nat \ {0} /\ D \in Nat /\ u \in Nat
        BY <1>1, <1>3, <3>1
      <4>. HIDE DEF v
      <4>. QED  BY <4>2, <4>3, QuotientBound
    <3>. QED  BY <1>1, <3>1, <3>2
  <2>4. PICK d \in 0..(D - 1) : d = Swapped(u, D) /\ d = (u + D \div 2) % D
    BY <1>1, <2>1, <2>3, SwappedIsRotated
  <2>5. PICK r \in 0..(R - 1) : r = Swapped(p % R, R) /\ r = (p + R \div 2) % R
    BY <1>3, <1>4, <2>1, RotateColumn
  <2>6. PICK q : q = d * R + r
    OBVIOUS
  <2>7. ShiftedFrom(p) = q
    BY <1>1, <1>3, <1>7, <2>2, <2>4, <2>5, <2>6, Zenon DEF ShiftedFrom, Rotated
  <2>8. RowOf(p) = d /\ BinOf(p) = r
    BY <1>1, <1>3, <1>7, <2>2, <2>4, <2>5, Zenon DEF RowOf, BinOf
  <2>9. q \div R = d /\ q % R = r
    <3>1. q = R * d + r /\ d \in Int
      BY <1>1, <1>3, <2>4, <2>5, <2>6
    <3>2. R \in Nat \ {0} /\ r \in 0..(R - 1)
      BY <1>3, <2>5
    <3>. QED  BY <3>1, <3>2, DivisionUnique
  <2>10. q \in 0..(M - 1)
    <3>1. d * R >= 0 /\ d * R <= (D - 1) * R /\ (D - 1) * R = D * R - R /\ d * R \in Int
          /\ D * R \in Nat
      BY <1>1, <1>3, <2>4
    <3>2. M = (D * R) * H
      BY <1>1, <1>2, <1>3 DEF M
    <3>3. D * R <= (D * R) * H
      <4>. DEFINE b == D * R
      <4>1. b \in Nat
        BY <3>1
      <4>. HIDE DEF b
      <4>2. b * H >= b
        <5>1. b * H = b + b * (H - 1) /\ b * (H - 1) >= 0 /\ b * (H - 1) \in Int
          BY <1>2, <4>1
        <5>. QED  BY <4>1, <5>1
      <4>. QED  BY <4>1, <4>2, <1>2 DEF b
    <3>. DEFINE a == d * R
                b == D * R
    <3>4. a \in Int /\ a >= 0 /\ a <= b - R /\ b \in Nat /\ b <= M /\ q = a + r
      BY <2>6, <3>1, <3>2, <3>3
    <3>. HIDE DEF a, b
    <3>. QED  BY <1>3, <1>4, <2>5, <3>4
  <2>11. RDMatrix[q] = SpectrumOfBin(d % H, r)[d \div H]
    BY <1>5, <2>9, <2>10, Zenon
  <2>. QED  BY <1>2, <2>7, <2>8, <2>11, Zenon DEF ReferenceAt
<1>. QED  BY <1>6, <1>7

LEMMA ReferenceBody ==
  TransformIsReference <=> (pc = "done" => \A p \in DOMAIN RDMatrix : RDMatrix[p] = ReferenceAt(p))
BY Zenon DEF TransformIsReference, ReferenceAt, RowOf, BinOf, Rotated

LEMMA ShiftStep ==
  ASSUME g \in Geometries, MatrixIsSpectra, Shift
  PROVE  TransformIsReference'
<1>1. g' = g /\ IFData' = IFData /\ RDMatrix' = [p \in DOMAIN RDMatrix |-> RDMatrix[ShiftedFrom(p)]]
  BY DEF Shift
<1>2. ASSUME NEW p \in DOMAIN RDMatrix' PROVE RDMatrix'[p] = ReferenceAt(p)'
  <2>1. p \in DOMAIN RDMatrix /\ RDMatrix'[p] = RDMatrix[ShiftedFrom(p)]
    BY <1>1, Zenon
  <2>2. p \in 0..(MatrixSize - 1)
    BY <2>1, Zenon DEF MatrixIsSpectra
  <2>3. RDMatrix[ShiftedFrom(p)] = ReferenceAt(p)
    BY <2>2, ShiftedSpectrum
  <2>4. ReferenceAt(p)' = ReferenceAt(p)
    BY <1>1, ReferenceStays
  <2>. QED  BY <2>1, <2>3, <2>4, Zenon
<1>3. (\A p \in DOMAIN RDMatrix : RDMatrix[p] = ReferenceAt(p))'
  BY <1>2, Zenon
<1>4. (TransformIsReference
        <=> (pc = "done" => \A p \in DOMAIN RDMatrix : RDMatrix[p] = ReferenceAt(p)))'
  BY ReferenceBody, PTL
<1>. QED  BY <1>3, <1>4, Zenon

-----------------------------------------------------------------------------
LEMMA TransformInvInit == FrameInit => TransformInv
<1>. SUFFICES ASSUME FrameInit PROVE TransformInv
  OBVIOUS
<1>1. g \in Geometries /\ pc \in {"datagram", "range"}
  BY DEF FrameInit
<1>2. ASSUME pc = "range" PROVE IntegerRows
  <2>1. IFData \in Frames(g)
    BY <1>2 DEF FrameInit
  <2>2. /\ IsFiniteSet(DOMAIN IFData)
        /\ IFData \in [0..(RowCount - 1) -> [0..(g.samples - 1) -> Int]]
    BY <1>1, <2>1, FramesAssumption, Zenon DEF RowCount
  <2>3. RowCount \in Nat
    BY <2>2, FS_CardinalityType, Zenon DEF RowCount
  <2>4. ASSUME NEW row \in 0..(RowCount - 1), NEW k \in DOMAIN IFData[row]
        PROVE  IFData[row][k] \in Int
    <3>1. IFData[row] \in [0..(g.samples - 1) -> Int]
      BY <2>2, Zenon
    <3>. QED  BY <3>1
  <2>. QED  BY <2>3, <2>4, Zenon DEF IntegerRows
<1>. QED  BY <1>1, <1>2 DEF TransformInv, TransformIsReference

(* What the framer puts together from bytes is an integer.                 *)
LEMMA PowerTyped == ASSUME NEW k \in 0..16 PROVE 2^k \in Nat \ {0}
<1>1. \/ k = 0 \/ k = 1 \/ k = 2 \/ k = 3 \/ k = 4 \/ k = 5 \/ k = 6 \/ k = 7 \/ k = 8
      \/ k = 9 \/ k = 10 \/ k = 11 \/ k = 12 \/ k = 13 \/ k = 14 \/ k = 15 \/ k = 16
  OBVIOUS
<1>. DEFINE T == Nat \ {0}
<1>2. /\ 2^0 \in T /\ 2^1 \in T /\ 2^2 \in T /\ 2^3 \in T /\ 2^4 \in T /\ 2^5 \in T
      /\ 2^6 \in T /\ 2^7 \in T /\ 2^8 \in T /\ 2^9 \in T /\ 2^10 \in T /\ 2^11 \in T
      /\ 2^12 \in T /\ 2^13 \in T /\ 2^14 \in T /\ 2^15 \in T /\ 2^16 \in T
  BY Powers
<1>. HIDE DEF T
<1>3. 2^k \in T
  BY <1>1, <1>2, Zenon
<1>. QED  BY <1>3 DEF T

LEMMA PayloadTyped == ASSUME SentFits, NEW byte \in Nat PROVE PayloadByte(byte) \in Int
<1>1. \A n \in 0..7 : SentBit(8 * byte + n) \in Int
  BY SentBitTyped
<1>. DEFINE f == [n \in 0..7 |-> SentBit(8 * byte + n) * 2^n]
<1>2. ASSUME NEW n \in 0..7 PROVE f[n] \in Int
  <2>1. 2^n \in Int /\ SentBit(8 * byte + n) \in Int
    <3>1. n \in 0..16
      OBVIOUS
    <3>. QED  BY <1>1, <3>1, PowerTyped
  <2>. DEFINE a == SentBit(8 * byte + n)
              b == 2^n
  <2>2. f[n] = a * b
    OBVIOUS
  <2>3. a \in Int /\ b \in Int
    BY <2>1
  <2>. HIDE DEF a, b, f
  <2>. QED  BY <2>2, <2>3
<1>3. PayloadByte(byte) = SumFunctionOnSet(f, 0..7)
  BY DEF PayloadByte, SumFunction
<1>. HIDE DEF f
<1>4. SumFunctionOnSet(f, 0..7) \in Int
  <2>1. IsFiniteSet(0..7)
    <3>1. 0 \in Int /\ 7 \in Int
      OBVIOUS
    <3>. QED  BY <3>1, FS_Interval, Zenon
  <2>. QED  BY <1>2, <2>1, SumInteger
<1>. QED  BY <1>3, <1>4

LEMMA SampleTyped ==
  ASSUME SentFits, NEW first \in Nat, NEW k \in Nat
  PROVE  Sample(first, k) \in Int
<1>. DEFINE byte == first + (k * Width) \div 8
            off == (k * Width) % 8
            third == IF off + Width > 16 THEN PayloadByte(byte + 2) * 2^(16 - off) ELSE 0
            raw == PayloadByte(byte) \div 2^off + PayloadByte(byte + 1) * 2^(8 - off) + third
            word == raw % 2^Width
<1>1. Width \in 0..16 /\ k * Width \in Nat
  BY DEF SentFits
<1>2. byte \in Nat /\ off \in 0..7
  BY <1>1
<1>3. PayloadByte(byte) \in Int /\ PayloadByte(byte + 1) \in Int /\ PayloadByte(byte + 2) \in Int
  <2>1. byte + 1 \in Nat /\ byte + 2 \in Nat
    BY <1>2
  <2>. HIDE DEF byte
  <2>. QED  BY <1>2, <2>1, PayloadTyped
<1>4. /\ 2^off \in Nat \ {0} /\ 2^(8 - off) \in Nat \ {0} /\ 2^(16 - off) \in Nat \ {0}
      /\ 2^Width \in Nat \ {0} /\ 2^(Width - 1) \in Int
  <2>1. off \in 0..16 /\ 8 - off \in 0..16 /\ 16 - off \in 0..16
    BY <1>2
  <2>2. 2^(Width - 1) \in Int
    BY Powers DEF SentFits
  <2>. HIDE DEF off
  <2>. QED  BY <1>1, <2>1, <2>2, PowerTyped
<1>5. raw \in Int
  <2>. DEFINE a == PayloadByte(byte)
              b == PayloadByte(byte + 1)
              c == PayloadByte(byte + 2)
              u == 2^off
              v == 2^(8 - off)
              w == 2^(16 - off)
  <2>1. a \in Int /\ b \in Int /\ c \in Int /\ u \in Nat \ {0} /\ v \in Int /\ w \in Int
    BY <1>3, <1>4
  <2>2. third = 0 \/ third = c * w
    OBVIOUS
  <2>3. raw = a \div u + b * v + third
    OBVIOUS
  <2>. HIDE DEF a, b, c, u, v, w, third, raw
  <2>4. third \in Int
    BY <2>1, <2>2
  <2>5. a \div u \in Int /\ b * v \in Int
    BY <2>1
  <2>. QED  BY <2>3, <2>4, <2>5
<1>. HIDE DEF raw
<1>6. word \in Int
  <2>. DEFINE u == 2^Width
  <2>1. u \in Nat \ {0} /\ word = raw % u
    BY <1>4
  <2>. HIDE DEF u, word
  <2>. QED  BY <1>5, <2>1
<1>7. Sample(first, k) = SignExtended(word)
  BY Zenon DEF Sample, raw
<1>. HIDE DEF word
<1>8. SignExtended(word) \in Int
  BY <1>4, <1>6 DEF SignExtended
<1>. QED  BY <1>7, <1>8

LEMMA ParseStep ==
  ASSUME RowsInv, Parse
  PROVE  IntegerRows'
<1>1. g \in Geometry /\ IFData' = Unpacked /\ ~Malformed /\ ~Incomplete
  BY GeometriesTyped DEF Parse, RowsInv
<1>2. datagram # None
  <2>1. g.hdr \in Nat
    BY <1>1 DEF Geometry
  <2>2. None.length = 0
    BY DEF None
  <2>. QED  BY <1>1, <2>1, <2>2 DEF Malformed
<1>3. SentFits
  <2>1. FromRadar(datagram, g)
    BY <1>1, <1>2, DatagramTyped, SimulatorIsIncomplete
  <2>2. SampleCount(g) \in Nat
    BY <1>2, DatagramTyped
  <2>. QED  BY <1>1, <2>1, <2>2 DEF SentFits, FromRadar, Width, WidthOf
<1>4. PoolRows \in Nat /\ PoolCols \in Nat /\ SamplesPerChannel \in Nat /\ g.bits \in Nat
  <2>1. g.samples \in Nat /\ g.chirps \in Nat /\ DefaultRows \in Nat /\ DefaultCols \in Nat
        /\ g.bits \in Nat
    BY <1>1, FramesAssumption DEF Geometry
  <2>. QED  BY <2>1 DEF PoolRows, PoolCols, SamplesPerChannel
<1>5. DOMAIN Unpacked = 0..(PoolRows - 1)
  BY DEF Unpacked
<1>6. ASSUME NEW row \in 0..(PoolRows - 1), NEW k \in DOMAIN Unpacked[row]
      PROVE  Unpacked[row][k] \in Int
  <2>1. k \in 0..(PoolCols - 1)
    BY <1>6 DEF Unpacked
  <2>2. k \in Nat /\ row \in Nat
    BY <1>4, <2>1
  <2>3. ChannelOffset(row) \in Nat
    <3>1. row * SamplesPerChannel \in Nat
      BY <1>4, <2>2
    <3>2. row * SamplesPerChannel * g.bits \in Nat
      BY <1>4, <3>1
    <3>. QED  BY <3>2 DEF ChannelOffset
  <2>4. Sample(ChannelOffset(row), k) \in Int
    BY <1>3, <2>2, <2>3, SampleTyped
  <2>5. Unpacked[row][k] =
          IF row < g.rx /\ k < Extracted(row) THEN Sample(ChannelOffset(row), k) ELSE 0
    BY <1>6, <2>1, Zenon DEF Unpacked
  <2>. QED  BY <2>4, <2>5
<1>7. RowCount' = PoolRows
  <2>1. RowCount' = Cardinality(0..(PoolRows - 1))
    BY <1>1, <1>5, Zenon DEF RowCount
  <2>2. Cardinality(0..(PoolRows - 1)) = PoolRows
    <3>. DEFINE n == PoolRows
    <3>1. n \in Nat
      BY <1>4
    <3>. HIDE DEF n
    <3>2. Cardinality(0..(n - 1)) = IF 0 > n - 1 THEN 0 ELSE n - 1 - 0 + 1
      BY <3>1, FS_Interval
    <3>3. Cardinality(0..(n - 1)) = n
      BY <3>1, <3>2
    <3>. QED  BY <3>3 DEF n
  <2>. QED  BY <2>1, <2>2
<1>. QED  BY <1>1, <1>4, <1>6, <1>7, Zenon DEF IntegerRows

LEMMA MatricesStay ==
  ASSUME UNCHANGED frameVars
  PROVE  /\ ProfileIsSpectra => ProfileIsSpectra'
         /\ MatrixIsSpectra => MatrixIsSpectra'
         /\ TransformIsReference => TransformIsReference'
<1>1. g' = g /\ IFData' = IFData /\ pc' = pc /\ profile' = profile /\ RDMatrix' = RDMatrix
  BY DEF frameVars
<1>2. NumChirps' = NumChirps /\ NumChannels' = NumChannels /\ MatrixSize' = MatrixSize
  BY <1>1, SpectrumStays
<1>3. ASSUME ProfileIsSpectra PROVE ProfileIsSpectra'
  <2>. SUFFICES ASSUME NEW chirp \in (0..(NumChirps - 1))', NEW ch \in (0..(NumChannels - 1))',
                       NEW r \in (0..(g.range - 1))'
                PROVE  (profile[(chirp * NumChannels + ch) * g.range + r]
                          = SpectrumOfRow(ch * NumChirps + chirp)[r])'
    BY DEF ProfileIsSpectra
  <2>1. profile[(chirp * NumChannels + ch) * g.range + r] = SpectrumOfRow(ch * NumChirps + chirp)[r]
    BY <1>1, <1>2, <1>3, Zenon DEF ProfileIsSpectra
  <2>2. PICK row : row = ch * NumChirps + chirp
    OBVIOUS
  <2>3. SpectrumOfRow(row)' = SpectrumOfRow(row)
    BY <1>1, InputStays
  <2>. QED  BY <1>1, <1>2, <2>1, <2>2, <2>3, Zenon
<1>4. ASSUME MatrixIsSpectra PROVE MatrixIsSpectra'
  <2>1. ASSUME NEW p \in 0..(MatrixSize - 1)
        PROVE  RDMatrix'[p] = SpectrumOfBin((p \div g.range) % NumChannels, p % g.range)'
                                           [p \div (NumChannels * g.range)]
    <3>1. RDMatrix[p] = SpectrumOfBin((p \div g.range) % NumChannels, p % g.range)
                                     [p \div (NumChannels * g.range)]
      BY <1>4, <2>1, Zenon DEF MatrixIsSpectra
    <3>2. PICK ch : ch = (p \div g.range) % NumChannels
      OBVIOUS
    <3>3. PICK r : r = p % g.range
      OBVIOUS
    <3>4. SpectrumOfBin(ch, r)' = SpectrumOfBin(ch, r)
      BY <1>1, BinStays
    <3>. QED  BY <1>1, <1>2, <3>1, <3>2, <3>3, <3>4, Zenon
  <2>. QED  BY <1>1, <1>2, <1>4, <2>1, Zenon DEF MatrixIsSpectra
<1>5. ASSUME TransformIsReference PROVE TransformIsReference'
  <2>1. (TransformIsReference
          <=> (pc = "done" => \A p \in DOMAIN RDMatrix : RDMatrix[p] = ReferenceAt(p)))'
    BY ReferenceBody, PTL
  <2>2. ASSUME NEW p PROVE ReferenceAt(p)' = ReferenceAt(p)
    BY <1>1, ReferenceStays
  <2>3. pc = "done" => \A p \in DOMAIN RDMatrix : RDMatrix[p] = ReferenceAt(p)
    BY <1>5, ReferenceBody
  <2>. QED  BY <1>1, <2>1, <2>2, <2>3, Zenon
<1>. QED  BY <1>3, <1>4, <1>5

LEMMA TransformInvStep == TransformInv /\ RowsInv /\ [FrameNext]_frameVars => TransformInv'
<1>. SUFFICES ASSUME TransformInv, RowsInv, [FrameNext]_frameVars PROVE TransformInv'
  OBVIOUS
<1>0. g \in Geometries
  BY DEF TransformInv
<1>1. ASSUME g' = g, pc' \in {"rejected", "panic"} PROVE TransformInv'
  BY <1>0, <1>1 DEF TransformInv, TransformIsReference
<1>2. CASE Reject \/ ParsePanics \/ TransformPanics
  BY <1>1, <1>2 DEF Reject, ParsePanics, TransformPanics
<1>3. CASE Parse
  <2>1. g' = g /\ pc' = "range" /\ IntegerRows'
    BY <1>3, ParseStep DEF Parse
  <2>. QED  BY <1>0, <2>1 DEF TransformInv, TransformIsReference
<1>4. CASE RangeTransform
  <2>1. g' = g /\ IFData' = IFData /\ pc = "range" /\ pc' = "doppler"
    BY <1>4 DEF RangeTransform
  <2>2. IntegerRows
    BY <2>1 DEF TransformInv
  <2>3. ProfileIsSpectra' /\ ~NoChannels
    BY <1>0, <1>4, <2>2, RangeStep
  <2>4. IntegerRows' /\ ~NoChannels'
    BY <2>1, <2>2, <2>3, SpectrumStays
  <2>. QED  BY <1>0, <2>1, <2>3, <2>4 DEF TransformInv, TransformIsReference
<1>5. CASE DopplerTransform
  <2>1. g' = g /\ IFData' = IFData /\ pc = "doppler" /\ pc' = "shift"
    BY <1>5 DEF DopplerTransform
  <2>2. IntegerRows /\ ~NoChannels /\ ProfileIsSpectra
    BY <2>1 DEF TransformInv
  <2>3. MatrixIsSpectra'
    BY <1>0, <1>5, <2>2, DopplerStep
  <2>4. IntegerRows' /\ ~NoChannels'
    BY <2>1, <2>2, SpectrumStays
  <2>. QED  BY <1>0, <2>1, <2>3, <2>4 DEF TransformInv, TransformIsReference
<1>6. CASE Shift
  <2>1. g' = g /\ IFData' = IFData /\ pc = "shift" /\ pc' = "done"
    BY <1>6 DEF Shift
  <2>2. IntegerRows /\ ~NoChannels /\ MatrixIsSpectra
    BY <2>1 DEF TransformInv
  <2>3. TransformIsReference'
    BY <1>0, <1>6, <2>2, ShiftStep
  <2>4. IntegerRows' /\ ~NoChannels'
    BY <2>1, <2>2, SpectrumStays
  <2>. QED  BY <1>0, <2>1, <2>3, <2>4 DEF TransformInv
<1>7. CASE UNCHANGED frameVars
  <2>1. g' = g /\ IFData' = IFData /\ pc' = pc /\ profile' = profile /\ RDMatrix' = RDMatrix
    BY <1>7 DEF frameVars
  <2>2. (IntegerRows' <=> IntegerRows) /\ (NoChannels' <=> NoChannels)
    BY <2>1, SpectrumStays
  <2>. QED  BY <1>0, <1>7, <2>1, <2>2, MatricesStay DEF TransformInv
<1>. QED  BY <1>2, <1>3, <1>4, <1>5, <1>6, <1>7 DEF FrameNext

(* Whatever the sizes, the geometry and the frame, what the passes of the  *)
(* transform, its strides, bit reversal, flat indexes and the shift leave  *)
(* in the matrix is what the double sum that defines it gives, over any    *)
(* ring of remainders and any roots of unity in it.                        *)
THEOREM FramesTransformIsReference == FrameSpec => []TransformIsReference
<1>1. TransformInv => TransformIsReference
  BY DEF TransformInv
<1>. QED  BY <1>1, TransformInvInit, TransformInvStep, RowsInvInit, RowsInvStep, PTL DEF FrameSpec

-----------------------------------------------------------------------------
(* The sweep of the multipath suppressor, for every list of peaks, every   *)
(* depth and every number of orders.  A peak that is discarded was         *)
(* outshone by a valid one; when that one is discarded in its turn its own *)
(* dominator takes its place, because the depth is at most one.  Pairs     *)
(* already compared stay settled, because valid only shrinks.              *)

Peak == [bin : Nat, doppler : Nat, snr : Nat]

SweepTyped ==
  /\ peaks \in Seq(Peak)
  /\ valid \subseteq 1..Len(peaks)
  /\ order \in Nat /\ order >= 2
  /\ i \in Nat /\ i >= 1
  /\ Sweeping => i <= Len(peaks)

(* The pairs the sweep has compared so far.                                *)
Compared(a, k) == k < order \/ (k = order /\ a < i)

Settled ==
  EnableMultipathSuppression =>
    \A a, b \in valid, k \in 2..MultipathHarmonicOrder :
      a # b /\ Compared(a, k) => ~(IsHarmonicOf(b, a, k) /\ Dominates(a, b))

SweepInv == SweepTyped /\ DiscardsJustified /\ Settled

-----------------------------------------------------------------------------
LEMMA ElementTyped ==
  ASSUME NEW S, NEW s \in Seq(S), NEW x \in 1..Len(s)
  PROVE  s[x] \in S
OBVIOUS

LEMMA DominatesTransitive ==
  ASSUME SweepTyped, NEW a \in 1..Len(peaks), NEW b \in 1..Len(peaks), NEW c \in 1..Len(peaks),
         Dominates(a, b), Dominates(b, c)
  PROVE  Dominates(a, c)
<1>0. \A x \in 1..Len(peaks) : peaks[x] \in Peak
  BY ElementTyped DEF SweepTyped
<1>1. peaks[a].snr \in Nat /\ peaks[b].snr \in Nat /\ peaks[c].snr \in Nat
  BY <1>0 DEF Peak
<1>2. ASSUME NEW x \in Nat, NEW y \in Nat, NEW z \in Nat, NEW d \in 0..100,
             100 * y < d * x, 100 * z < d * y
      PROVE  100 * z < d * x
  <2>1. d * y <= 100 * y
    BY <1>2, SMT
  <2>. QED  BY <1>2, <2>1, SMT
<1>. QED  BY <1>1, <1>2, MultipathAssumption DEF Dominates

LEMMA HarmonicIsHarmonicOf ==
  ASSUME NEW j \in 1..Len(peaks), NEW k \in Nat
  PROVE  Harmonic(j, k) <=> IsHarmonicOf(j, i, k)
BY DEF Harmonic, IsHarmonicOf, Primary

LEMMA SweepInit == SuppressorInit => SweepInv
<1>. SUFFICES ASSUME NEW ps \in PeakLists, Offered(ps) PROVE SweepInv
  BY DEF SuppressorInit
<1>1. SweepTyped
  BY MultipathAssumption DEF Offered, SweepTyped, Sweeping, Peak
<1>2. DiscardsJustified
  BY DEF Offered, DiscardsJustified
<1>3. Settled
  BY <1>1, MultipathAssumption DEF Offered, Settled, Compared, SweepTyped
<1>. QED  BY <1>1, <1>2, <1>3 DEF SweepInv

LEMMA SweepStep == SweepInv /\ [Sweep]_suppressorVars => SweepInv'
<1>. SUFFICES ASSUME SweepInv, Sweep PROVE SweepInv'
  <2>1. CASE UNCHANGED suppressorVars
    BY <2>1 DEF suppressorVars, SweepInv, SweepTyped, DiscardsJustified, Settled, Compared,
                IsHarmonicOf, Dominates, Sweeping
  <2>. QED  BY <2>1
<1>. DEFINE gone == {j \in valid \ {i} : Harmonic(j, order) /\ Dominates(i, j)}
<1>1. /\ peaks' = peaks
      /\ valid' = (IF i \in valid THEN valid \ gone ELSE valid)
      /\ valid' \subseteq valid
      /\ i \in 1..Len(peaks) /\ order \in 2..MultipathHarmonicOrder
      /\ SweepTyped /\ DiscardsJustified /\ Settled /\ EnableMultipathSuppression
  BY MultipathAssumption DEF Sweep, SweepInv, SweepTyped, Sweeping
<1>4. \/ i < Len(peaks) /\ i' = i + 1 /\ order' = order
      \/ i = Len(peaks) /\ i' = 1 /\ order' = order + 1
  BY <1>1 DEF Sweep, Advance, SweepTyped
<1>5. SweepTyped'
  <2>1. Len(peaks) \in Nat /\ Len(peaks) >= 2
    BY MultipathAssumption DEF Sweep, Sweeping, SweepInv, SweepTyped
  <2>2. /\ order' \in Nat /\ order' >= 2
        /\ i' \in Nat /\ i' >= 1 /\ i' <= Len(peaks)
    <3>1. order \in Nat /\ order >= 2 /\ i \in Nat /\ i >= 1
      BY <1>1 DEF SweepTyped
    <3>. QED  BY <1>4, <2>1, <3>1
  <2>3. valid' \subseteq 1..Len(peaks)
    BY <1>1 DEF SweepTyped
  <2>. QED  BY <1>1, <2>2, <2>3 DEF SweepTyped
<1>6. \A a, b \in 1..Len(peaks) : Dominates(a, b)' <=> Dominates(a, b)
  BY <1>1 DEF Dominates
<1>7. \A a, b, k : IsHarmonicOf(b, a, k)' <=> IsHarmonicOf(b, a, k)
  BY <1>1 DEF IsHarmonicOf
<1>8. \A b \in (1..Len(peaks)) \ valid' : b \notin valid \/ (i \in valid /\ b \in gone)
  BY <1>1
<1>9. i \in valid => i \in valid'
  BY <1>1
<1>10. DiscardsJustified'
  <2>. SUFFICES ASSUME NEW b \in (1..Len(peaks)) \ valid'
                PROVE  /\ \E a \in 1..Len(peaks), k \in 2..MultipathHarmonicOrder :
                            a # b /\ IsHarmonicOf(b, a, k) /\ Dominates(a, b)
                       /\ \E a \in valid' : Dominates(a, b)
    BY <1>1, <1>6, <1>7 DEF DiscardsJustified, SweepTyped
  <2>1. CASE i \in valid /\ b \in gone
    <3>1. IsHarmonicOf(b, i, order) /\ Dominates(i, b) /\ i # b
      BY <1>1, <2>1, HarmonicIsHarmonicOf DEF SweepTyped
    <3>. QED  BY <1>1, <1>9, <2>1, <3>1
  <2>2. CASE b \notin valid
    <3>1. PICK a \in valid : Dominates(a, b)
      BY <1>1, <2>2 DEF DiscardsJustified
    <3>2. \E c \in valid' : Dominates(c, b)
      <4>1. CASE a \in valid'
        BY <3>1, <4>1
      <4>2. CASE a \notin valid'
        <5>1. i \in valid /\ Dominates(i, a)
          BY <1>1, <1>8, <3>1, <4>2 DEF SweepTyped
        <5>2. Dominates(i, b)
          BY <1>1, <3>1, <5>1, DominatesTransitive DEF SweepTyped
        <5>. QED  BY <1>9, <5>1, <5>2
      <4>. QED  BY <4>1, <4>2
    <3>. QED  BY <1>1, <2>2, <3>2 DEF DiscardsJustified
  <2>. QED  BY <1>8, <2>1, <2>2
<1>11. Settled'
  <2>. SUFFICES ASSUME NEW a \in valid', NEW b \in valid', NEW k \in 2..MultipathHarmonicOrder,
                       a # b, Compared(a, k)', IsHarmonicOf(b, a, k), Dominates(a, b)
                PROVE  FALSE
    BY <1>1, <1>6, <1>7 DEF Settled, SweepTyped
  <2>1. a \in valid /\ b \in valid /\ a \in 1..Len(peaks) /\ b \in 1..Len(peaks)
    BY <1>1 DEF SweepTyped
  <2>2. Compared(a, k) \/ (k = order /\ a = i)
    <3>1. /\ a \in Nat /\ a <= Len(peaks) /\ Len(peaks) \in Nat
          /\ k \in Nat /\ order \in Nat /\ i \in Nat
      BY <1>1, <2>1, MultipathAssumption DEF SweepTyped
    <3>2. k < order' \/ (k = order' /\ a < i')
      BY DEF Compared
    <3>3. CASE order' = order /\ i' = i + 1
      BY <3>1, <3>2, <3>3 DEF Compared
    <3>4. CASE order' = order + 1 /\ i' = 1 /\ i = Len(peaks)
      <4>1. ~(a < 1)
        BY <2>1
      <4>2. k <= order
        BY <3>1, <3>2, <3>4, <4>1
      <4>. QED  BY <3>1, <3>4, <4>2 DEF Compared
    <3>. QED  BY <1>4, <3>3, <3>4
  <2>3. CASE Compared(a, k)
    BY <1>1, <2>1, <2>3 DEF Settled
  <2>4. CASE k = order /\ a = i
    <3>1. b \in gone
      BY <1>1, <2>1, <2>4, HarmonicIsHarmonicOf
    <3>. QED  BY <1>1, <2>1, <2>4, <3>1
  <2>. QED  BY <2>2, <2>3, <2>4
<1>. QED  BY <1>5, <1>10, <1>11 DEF SweepInv

(* A peak is discarded only as a weak harmonic, and whatever is discarded  *)
(* is outshone by a peak that is kept.                                     *)
THEOREM MultipathDiscardsJustified == SuppressorSpec => []DiscardsJustified
<1>1. SweepInv => DiscardsJustified
  BY DEF SweepInv
<1>. QED  BY <1>1, SweepInit, SweepStep, PTL DEF SuppressorSpec

LEMMA SweptIsSettled == SweepInv => SurvivorsAreSettled
<1>. SUFFICES ASSUME SweepInv, ~Sweeping, EnableMultipathSuppression,
                     NEW a \in valid, NEW b \in valid, NEW k \in 2..MultipathHarmonicOrder,
                     a # b, IsHarmonicOf(b, a, k), Dominates(a, b)
              PROVE  FALSE
  BY DEF SurvivorsAreSettled
<1>1. Len(peaks) >= 2
  BY DEF SweepInv, SweepTyped
<1>2. order > MultipathHarmonicOrder
  BY <1>1, MultipathAssumption DEF Sweeping, SweepInv, SweepTyped
<1>3. Compared(a, k)
  BY <1>2, MultipathAssumption DEF Compared, SweepInv, SweepTyped
<1>. QED  BY <1>3 DEF SweepInv, Settled

(* One pass over the orders settles the list.                              *)
THEOREM MultipathSurvivorsAreSettled == SuppressorSpec => []SurvivorsAreSettled
BY SweptIsSettled, SweepInit, SweepStep, PTL DEF SuppressorSpec

-----------------------------------------------------------------------------
LEMMA CellsFinite ==
  /\ IsFiniteSet(Rows) /\ IsFiniteSet(Columns) /\ IsFiniteSet(Cells)
  /\ \A S \in SUBSET Cells : IsFiniteSet(S) /\ Cardinality(S) \in Nat
  /\ Rows \subseteq Nat /\ Columns \subseteq Nat
<1>1. IsFiniteSet(Rows) /\ IsFiniteSet(Columns)
  <2>1. DopplerBins - 1 \in Int /\ RangeBins - 1 \in Int /\ 0 \in Int
    BY DetectionAssumption
  <2>2. IsFiniteSet(0..(DopplerBins - 1)) /\ IsFiniteSet(0..(RangeBins - 1))
    BY <2>1, FS_Interval
  <2>. QED  BY <2>2 DEF Rows, Columns
<1>2. IsFiniteSet(Cells)
  BY <1>1, FS_Product DEF Cells
<1>3. Rows \subseteq Nat /\ Columns \subseteq Nat
  BY DEF Rows, Columns
<1>. QED  BY <1>1, <1>2, <1>3, FS_Subset, FS_CardinalityType

LEMMA CellTyped ==
  ASSUME NEW c \in Cells
  PROVE  c[1] \in Rows /\ c[2] \in Columns /\ c = <<c[1], c[2]>> /\ c[1] \in Nat /\ c[2] \in Nat
<1>1. c \in Rows \X Columns
  BY DEF Cells
<1>2. c[1] \in Rows /\ c[2] \in Columns /\ c = <<c[1], c[2]>>
  BY <1>1
<1>. QED  BY <1>2, CellsFinite

(* The cells of a set in row order: each has a place of its own, and every *)
(* place up to their number is taken.                                      *)
UpTo(c, S) == {d \in S : d = c \/ RowMajor(d, c)}

LEMMA LaterCellHasMore ==
  ASSUME NEW S \in SUBSET Cells, NEW a \in S, NEW b \in S, RowMajor(a, b)
  PROVE  Place(a, S) < Place(b, S)
<1>1. /\ a[1] \in Nat /\ a[2] \in Nat /\ b[1] \in Nat /\ b[2] \in Nat
      /\ \A d \in S : d[1] \in Nat /\ d[2] \in Nat
  BY CellTyped
<1>2. UpTo(a, S) \subseteq UpTo(b, S)
  BY <1>1 DEF UpTo, RowMajor
<1>3. b \in UpTo(b, S) /\ b \notin UpTo(a, S)
  BY <1>1 DEF UpTo, RowMajor
<1>4. IsFiniteSet(UpTo(b, S)) /\ IsFiniteSet(UpTo(a, S))
      /\ Cardinality(UpTo(a, S)) \in Nat /\ Cardinality(UpTo(b, S)) \in Nat
  BY CellsFinite DEF UpTo
<1>5. Cardinality(UpTo(a, S)) <= Cardinality(UpTo(b, S))
      /\ Cardinality(UpTo(a, S)) # Cardinality(UpTo(b, S))
  BY <1>2, <1>3, <1>4, FS_Subset
<1>6. Place(a, S) = Cardinality(UpTo(a, S)) /\ Place(b, S) = Cardinality(UpTo(b, S))
  BY DEF Place, UpTo
<1>. QED  BY <1>4, <1>5, <1>6

LEMMA PlacesTaken ==
  ASSUME NEW S \in SUBSET Cells
  PROVE  /\ \A k \in 1..Cardinality(S) : \E c \in S : Place(c, S) = k
         /\ \A c \in S : Place(c, S) \in 1..Cardinality(S)
         /\ \A a, b \in S : Place(a, S) = Place(b, S) => a = b
<1>. DEFINE n == Cardinality(S)
            f == [c \in S |-> Place(c, S)]
<1>1. IsFiniteSet(S) /\ n \in Nat
  BY CellsFinite
<1>2. ASSUME NEW c \in S PROVE Place(c, S) \in 1..n
  <2>1. UpTo(c, S) \subseteq S /\ c \in UpTo(c, S) /\ Place(c, S) = Cardinality(UpTo(c, S))
    BY DEF UpTo, Place
  <2>2. IsFiniteSet(UpTo(c, S)) /\ Cardinality(UpTo(c, S)) <= n
    BY <1>1, <2>1, FS_Subset
  <2>3. Cardinality(UpTo(c, S)) \in Nat /\ Cardinality(UpTo(c, S)) # 0
    BY <2>1, <2>2, FS_CardinalityType, FS_EmptySet
  <2>. QED  BY <1>1, <2>1, <2>2, <2>3
<1>3. ASSUME NEW a \in S, NEW b \in S, a # b PROVE Place(a, S) # Place(b, S)
  <2>1. RowMajor(a, b) \/ RowMajor(b, a)
    <3>1. /\ a = <<a[1], a[2]>> /\ b = <<b[1], b[2]>>
          /\ a[1] \in Nat /\ a[2] \in Nat /\ b[1] \in Nat /\ b[2] \in Nat
      BY CellTyped
    <3>2. a[1] # b[1] \/ a[2] # b[2]
      BY <1>3, <3>1
    <3>. QED  BY <3>1, <3>2 DEF RowMajor
  <2>2. Place(a, S) \in Nat /\ Place(b, S) \in Nat
    BY <1>2
  <2>. QED  BY <2>1, <2>2, LaterCellHasMore
<1>4. f \in Injection(S, 1..n)
  BY <1>2, <1>3 DEF Injection, IsInjective
<1>5. IsFiniteSet(1..n) /\ Cardinality(1..n) = n
  BY <1>1, FS_Interval
<1>6. f \in Surjection(S, 1..n)
  <2>. HIDE DEF f
  <2>. QED  BY <1>4, <1>5, FS_Injection
<1>7. \A k \in 1..n : \E c \in S : f[c] = k
  <2>. HIDE DEF f
  <2>. QED  BY <1>6 DEF Surjection
<1>. QED  BY <1>2, <1>3, <1>7

-----------------------------------------------------------------------------
LEMMA TrainingFinite ==
  ASSUME NEW c \in Interior
  PROVE  /\ c \in Cells /\ Training[c] \subseteq Cells /\ c \notin Training[c]
         /\ IsFiniteSet(Training[c]) /\ Cardinality(Training[c]) \in Nat
         /\ Training[c] # {} => Cardinality(Training[c]) > 0
<1>1. c \in Cells /\ Training[c] \subseteq Cells
  BY DEF Interior, Training
<1>2. c \notin Training[c]
  <2>1. c[1] \in Nat /\ c[2] \in Nat
    BY <1>1, CellTyped
  <2>2. Near(c, c, CFARGuardCells)
    BY <2>1, DetectionAssumption DEF Near, Abs
  <2>. QED  BY <1>1, <2>2 DEF Training
<1>3. IsFiniteSet(Training[c]) /\ Cardinality(Training[c]) \in Nat
  BY <1>1, CellsFinite
<1>. QED  BY <1>1, <1>2, <1>3, FS_EmptySet

LEMMA BackgroundTyped ==
  ASSUME NEW m \in [Cells -> Nat], NEW c \in Interior
  PROVE  Background(m, c) \in Nat
<1>1. \A n \in Training[c] : m[n] \in Nat
  BY TrainingFinite
<1>. QED  BY <1>1, TrainingFinite, SumNatural DEF Background

LEMMA SNRTyped ==
  ASSUME NEW m \in [Cells -> Nat], NEW c \in Interior
  PROVE  SNR(m, c) \in Nat
<1>. DEFINE a == m[c]
            n == Cardinality(Training[c])
            b == Background(m, c)
<1>1. a \in Nat /\ n \in Nat /\ b \in Nat
  BY TrainingFinite, BackgroundTyped
<1>2. SNR(m, c) = IF b = 0 THEN 5000 * a ELSE (100 * a * n) \div b
  BY DEF SNR
<1>. HIDE DEF a, n, b
<1>3. 5000 * a \in Nat /\ 100 * a * n \in Nat
  BY <1>1
<1>4. ASSUME NEW x \in Nat, NEW y \in Nat, y # 0 PROVE x \div y \in Nat
  BY <1>4
<1>. QED  BY <1>1, <1>2, <1>3, <1>4

(* The list CFAR makes: the cells it detects, each of them once.           *)
LEMMA PeaksListed ==
  ASSUME NEW m \in [Cells -> Nat]
  PROVE  /\ PeaksOf(m) \in Seq(Peak)
         /\ Len(PeaksOf(m)) = Cardinality(Detected(m))
         /\ DOMAIN PeaksOf(m) = 1..Cardinality(Detected(m))
         /\ \A k \in 1..Cardinality(Detected(m)) :
              <<PeaksOf(m)[k].doppler, PeaksOf(m)[k].bin>> \in Detected(m)
         /\ \A c \in Detected(m) : \E k \in 1..Cardinality(Detected(m)) :
              <<PeaksOf(m)[k].doppler, PeaksOf(m)[k].bin>> = c
<1>. DEFINE S == Detected(m)
            n == Cardinality(S)
            cell == [k \in 1..n |-> CHOOSE c \in S : Place(c, S) = k]
<1>1. S \subseteq Interior /\ S \subseteq Cells /\ n \in Nat
  BY CellsFinite DEF Detected, Interior
<1>2. ASSUME NEW k \in 1..n PROVE cell[k] \in S /\ Place(cell[k], S) = k
  <2>1. \E c \in S : Place(c, S) = k
    BY <1>1, PlacesTaken
  <2>. QED  BY <2>1
<1>3. PeaksOf(m) = [k \in 1..n |-> [bin |-> cell[k][2], doppler |-> cell[k][1], snr |-> SNR(m, cell[k])]]
  BY DEF PeaksOf
<1>. HIDE DEF S, n, cell
<1>4. ASSUME NEW k \in 1..n
      PROVE  /\ PeaksOf(m)[k] \in Peak
             /\ <<PeaksOf(m)[k].doppler, PeaksOf(m)[k].bin>> = cell[k]
  <2>1. cell[k] \in Interior /\ cell[k] \in Cells
    BY <1>1, <1>2
  <2>2. cell[k][1] \in Nat /\ cell[k][2] \in Nat /\ cell[k] = <<cell[k][1], cell[k][2]>>
    BY <2>1, CellTyped
  <2>3. SNR(m, cell[k]) \in Nat
    BY <2>1, SNRTyped
  <2>. QED  BY <1>3, <2>2, <2>3 DEF Peak
<1>5. PeaksOf(m) \in Seq(Peak) /\ Len(PeaksOf(m)) = n /\ DOMAIN PeaksOf(m) = 1..n
  BY <1>1, <1>3, <1>4
<1>6. \A c \in S : \E k \in 1..n : cell[k] = c
  BY <1>1, <1>2, PlacesTaken DEF n
<1>. QED  BY <1>2, <1>4, <1>5, <1>6 DEF S, n

-----------------------------------------------------------------------------
(* The stages of DetectPeaks.  The invariant remembers of each stage what  *)
(* it made: the mask the matrix, attenuated in the bins it found           *)
(* incoherent; CFAR the list, of that matrix; the solver the index, which  *)
(* is one to which the first survivor may be refined.                      *)
DetectTyped ==
  /\ stage \in {"mask", "cfar", "sweep", "solve", "done", "alone"}
  /\ given \in [Cells -> Int] /\ \A c \in Cells : given[c] % 20 = 0
  /\ phase \in [Cells -> Int]
  /\ masked \subseteq Columns
  /\ index \in Cells

Unlisted == peaks = <<>> /\ valid = {} /\ order = 2 /\ i = 1

MatrixMasked ==
  /\ stage \in {"mask", "alone"} => masked = {}
  /\ stage \notin {"mask", "alone"} => rd = Attenuate(Clean(given), masked)
  /\ \A r \in masked : Incoherent(Clean(given), r)

PeaksFollow ==
  /\ stage \in {"mask", "cfar"} => Unlisted
  /\ FromMatrix => peaks = PeaksOf(rd)
  /\ stage = "done" /\ valid # {} =>
       \A c \in Cells : c = CellOf(Min(valid)) => index \in Refined(c)

DetectInv ==
  SweepInv /\ DetectTyped /\ MatrixMasked /\ PeaksFollow

-----------------------------------------------------------------------------
LEMMA CleanTyped ==
  ASSUME NEW m \in [Cells -> Int], \A c \in Cells : m[c] % 20 = 0
  PROVE  /\ Clean(m) \in [Cells -> Nat]
         /\ \A c \in Cells : Clean(m)[c] % 20 = 0
<1>1. ASSUME NEW c \in Cells
      PROVE  Clean(m)[c] \in Nat /\ Clean(m)[c] % 20 = 0
  <2>1. m[c] \in Int /\ m[c] % 20 = 0 /\ Clean(m)[c] = IF m[c] < 0 THEN 0 ELSE m[c]
    BY DEF Clean
  <2>2. ASSUME NEW x \in Int, x % 20 = 0
        PROVE  (IF x < 0 THEN 0 ELSE x) \in Nat /\ (IF x < 0 THEN 0 ELSE x) % 20 = 0
    BY <2>2
  <2>. QED  BY <2>1, <2>2
<1>2. Clean(m) \in [Cells -> Nat]
  BY <1>1 DEF Clean
<1>. QED  BY <1>1, <1>2

LEMMA AttenuateTyped ==
  ASSUME NEW m \in [Cells -> Nat], \A c \in Cells : m[c] % 20 = 0, NEW bins
  PROVE  /\ Attenuate(m, bins) \in [Cells -> Nat]
         /\ \A c \in Cells : c[2] \in bins => 20 * Attenuate(m, bins)[c] = m[c]
         /\ \A c \in Cells : c[2] \notin bins => Attenuate(m, bins)[c] = m[c]
         /\ \A c \in Cells : m[c] <= 20 * Attenuate(m, bins)[c]
<1>1. ASSUME NEW c \in Cells
      PROVE  /\ Attenuate(m, bins)[c] \in Nat
             /\ c[2] \in bins => 20 * Attenuate(m, bins)[c] = m[c]
             /\ c[2] \notin bins => Attenuate(m, bins)[c] = m[c]
             /\ m[c] <= 20 * Attenuate(m, bins)[c]
  <2>1. /\ m[c] \in Nat /\ m[c] % 20 = 0
        /\ Attenuate(m, bins)[c] = IF c[2] \in bins THEN m[c] \div 20 ELSE m[c]
    BY DEF Attenuate
  <2>2. ASSUME NEW x \in Nat, x % 20 = 0
        PROVE  x \div 20 \in Nat /\ 20 * (x \div 20) = x /\ x <= 20 * x
    BY <2>2
  <2>. QED  BY <2>1, <2>2
<1>2. Attenuate(m, bins) \in [Cells -> Nat]
  BY <1>1 DEF Attenuate
<1>. QED  BY <1>1, <1>2

LEMMA RefinedInside ==
  ASSUME NEW c \in Cells
  PROVE  Refined(c) \subseteq Cells
<1>1. c[1] \in Nat /\ c[2] \in Nat /\ c[1] < DopplerBins /\ c[2] < RangeBins
      /\ DopplerBins \in Nat /\ RangeBins \in Nat /\ c = <<c[1], c[2]>>
  BY CellTyped, DetectionAssumption DEF Rows, Columns
<1>2. ASSUME NEW n \in 0..2, n = 0 \/ Within(c, n), NEW a \in (-n)..n, NEW b \in (-n)..n
      PROVE  <<c[1] + a, c[2] + b>> \in Cells
  <2>1. c[1] + a \in 0..(DopplerBins - 1) /\ c[2] + b \in 0..(RangeBins - 1)
    BY <1>1, <1>2 DEF Within
  <2>. QED  BY <2>1 DEF Cells, Rows, Columns
<1>3. CASE Iterable(c)
  <2>1. \A a, b \in (-2)..2 : <<c[1] + a, c[2] + b>> \in Cells
    BY <1>2, <1>3 DEF Iterable
  <2>. QED  BY <1>3, <2>1 DEF Refined
<1>4. CASE ~Iterable(c) /\ Within(c, 1)
  <2>1. \A a, b \in (-1)..1 : <<c[1] + a, c[2] + b>> \in Cells
    BY <1>2, <1>4
  <2>. QED  BY <1>4, <2>1 DEF Refined
<1>5. CASE ~Iterable(c) /\ ~Within(c, 1)
  <2>1. \A a, b \in (-0)..0 : <<c[1] + a, c[2] + b>> \in Cells
    BY <1>2
  <2>. QED  BY <1>5, <2>1 DEF Refined
<1>. QED  BY <1>3, <1>4, <1>5

LEMMA MinIn ==
  ASSUME NEW T, T \subseteq Nat, T # {}
  PROVE  Min(T) \in T
<1>1. \E x \in T : \A y \in T : x <= y
  BY LeastNatural
<1>. QED  BY <1>1 DEF Min

LEMMA ZeroTyped == Zero \in [Cells -> Int] /\ \A c \in Cells : Zero[c] % 20 = 0
BY DEF Zero

LEMMA OriginIsCell == <<0, 0>> \in Cells
BY DetectionAssumption DEF Cells, Rows, Columns

(* A list no sweep has touched. *)
LEMMA SweepFresh ==
  peaks \in Seq(Peak) /\ valid = 1..Len(peaks) /\ order = 2 /\ i = 1 => SweepInv
<1>. SUFFICES ASSUME peaks \in Seq(Peak), valid = 1..Len(peaks), order = 2, i = 1
              PROVE  SweepInv
  OBVIOUS
<1>1. SweepTyped
  BY MultipathAssumption DEF SweepTyped, Sweeping, Peak
<1>2. DiscardsJustified
  BY DEF DiscardsJustified
<1>3. Settled
  BY <1>1, MultipathAssumption DEF Settled, Compared, SweepTyped
<1>. QED  BY <1>1, <1>2, <1>3 DEF SweepInv

LEMMA DetectInvInit == Init => DetectInv
<1>. SUFFICES ASSUME Init PROVE DetectInv
  OBVIOUS
<1>0. masked = {} /\ index \in Cells /\ masked \subseteq Columns
  BY OriginIsCell DEF Init
<1>1. CASE stage = "mask"
  <2>1. /\ given \in Matrices /\ phase \in PhaseFields /\ Offered(<<>>)
    BY <1>1 DEF Init
  <2>2. Unlisted
    BY <2>1 DEF Offered, Unlisted
  <2>3. SweepInv
    BY <2>2, SweepFresh DEF Unlisted
  <2>4. DetectTyped
    BY <1>0, <1>1, <2>1, DetectionAssumption DEF DetectTyped
  <2>. QED  BY <1>0, <1>1, <2>2, <2>3, <2>4 DEF DetectInv, MatrixMasked, PeaksFollow, FromMatrix
<1>2. CASE stage = "alone"
  <2>1. given = Zero /\ phase = Zero /\ SuppressorInit
    BY <1>2 DEF Init
  <2>2. SweepInv
    BY <2>1, SweepInit
  <2>3. DetectTyped
    BY <1>0, <1>2, <2>1, ZeroTyped DEF DetectTyped
  <2>. QED  BY <1>0, <1>2, <2>2, <2>3 DEF DetectInv, MatrixMasked, PeaksFollow, FromMatrix
<1>. QED  BY <1>1, <1>2 DEF Init

(* What the next state makes of the expressions over rd and phase.         *)
LEMMA IncoherentKept ==
  ASSUME given' = given, phase' = phase, NEW r
  PROVE  Incoherent(Clean(given), r)' <=> Incoherent(Clean(given), r)
<1>1. ASSUME NEW d PROVE UnitStep(r, d)' = UnitStep(r, d)
  BY Zenon DEF UnitStep
<1>2. [d \in 0..(DopplerBins - 2) |-> UnitStep(r, d)[1]]' = [d \in 0..(DopplerBins - 2) |-> UnitStep(r, d)[1]]
  BY <1>1, Zenon
<1>3. [d \in 0..(DopplerBins - 2) |-> UnitStep(r, d)[2]]' = [d \in 0..(DopplerBins - 2) |-> UnitStep(r, d)[2]]
  BY <1>1, Zenon
<1>4. ResultantSquared(r)' = ResultantSquared(r)
  BY <1>2, <1>3, Zenon DEF ResultantSquared
<1>. QED  BY <1>4 DEF Incoherent

LEMMA RefinedKept ==
  ASSUME rd' = rd, NEW c
  PROVE  Refined(c)' = Refined(c)
<1>1. ASSUME NEW n PROVE At(n)' = At(n)
  BY Zenon DEF At
<1>2. GradientVanishes(c)' <=> GradientVanishes(c)
  BY <1>1 DEF GradientVanishes
<1>. QED  BY <1>2 DEF Refined

LEMMA MaskKeeps == ASSUME DetectInv, Mask PROVE DetectInv'
<1>1. /\ stage = "mask" /\ stage' = "cfar"
      /\ UNCHANGED suppressorVars /\ given' = given /\ phase' = phase /\ index' = index
      /\ rd' = Attenuate(Clean(given), masked')
  BY DEF Mask
<1>2. /\ masked' \subseteq Columns
      /\ \A r \in masked' : Incoherent(Clean(given), r)
  BY DEF Mask
<1>3. SweepInv'
  BY <1>1, SweepStep DEF DetectInv
<1>4. DetectTyped'
  BY <1>1, <1>2 DEF DetectInv, DetectTyped
<1>5. MatrixMasked'
  <2>1. \A r \in masked' : Incoherent(Clean(given), r)'
    BY <1>1, <1>2, IncoherentKept
  <2>. QED  BY <1>1, <2>1 DEF MatrixMasked
<1>6. PeaksFollow'
  BY <1>1 DEF DetectInv, PeaksFollow, Unlisted, FromMatrix, suppressorVars
<1>. QED  BY <1>3, <1>4, <1>5, <1>6 DEF DetectInv

(* The matrix CFAR sees is made of natural numbers. *)
LEMMA MatrixTyped ==
  ASSUME DetectInv, stage \notin {"mask", "alone"}
  PROVE  /\ rd \in [Cells -> Nat]
         /\ \A c \in Cells : c[2] \in masked => 20 * rd[c] = Clean(given)[c]
         /\ \A c \in Cells : c[2] \notin masked => rd[c] = Clean(given)[c]
         /\ \A c \in Cells : Clean(given)[c] <= 20 * rd[c]
         /\ Clean(given) \in [Cells -> Nat]
<1>1. rd = Attenuate(Clean(given), masked)
  BY DEF DetectInv, MatrixMasked
<1>2. Clean(given) \in [Cells -> Nat] /\ \A c \in Cells : Clean(given)[c] % 20 = 0
  BY CleanTyped DEF DetectInv, DetectTyped
<1>. QED  BY <1>1, <1>2, AttenuateTyped

(* What later stages leave of the mask's part of the invariant. *)
LEMMA MatrixKept ==
  ASSUME DetectInv, UNCHANGED <<given, phase, rd, masked>>,
         stage \notin {"mask", "alone"}, stage' \notin {"mask", "alone"}
  PROVE  MatrixMasked'
<1>1. \A r \in masked' : Incoherent(Clean(given), r)'
  BY IncoherentKept DEF DetectInv, MatrixMasked
<1>. QED  BY <1>1 DEF DetectInv, MatrixMasked

LEMMA CFARDetectKeeps == ASSUME DetectInv, CFARDetect PROVE DetectInv'
<1>1. /\ stage = "cfar" /\ stage' = "sweep" /\ peaks' = PeaksOf(rd) /\ valid' = DOMAIN peaks'
      /\ UNCHANGED <<order, i, given, phase, rd, masked, index>>
  BY DEF CFARDetect
<1>2. peaks' \in Seq(Peak)
  BY <1>1, MatrixTyped, PeaksListed
<1>3. valid' = 1..Len(peaks') /\ order' = 2 /\ i' = 1
  BY <1>1, <1>2 DEF DetectInv, PeaksFollow, Unlisted
<1>4. SweepInv'
  <2>1. (peaks \in Seq(Peak) /\ valid = 1..Len(peaks) /\ order = 2 /\ i = 1)'
    BY <1>2, <1>3
  <2>. QED  BY <2>1, SweepFresh, PTL
<1>5. DetectTyped'
  BY <1>1 DEF DetectInv, DetectTyped
<1>6. MatrixMasked'
  BY <1>1, MatrixKept
<1>7. PeaksFollow'
  BY <1>1 DEF PeaksFollow, FromMatrix
<1>. QED  BY <1>4, <1>5, <1>6, <1>7 DEF DetectInv

LEMMA SuppressKeeps == ASSUME DetectInv, Suppress PROVE DetectInv'
<1>1. stage \in {"sweep", "alone"} /\ Sweep /\ UNCHANGED detectionVars /\ peaks' = peaks
  BY DEF Suppress, Sweep
<1>2. SweepInv'
  BY <1>1, SweepStep DEF DetectInv
<1>3. DetectTyped'
  BY <1>1 DEF DetectInv, DetectTyped, detectionVars
<1>4. MatrixMasked'
  <2>1. \A r \in masked' : Incoherent(Clean(given), r)'
    BY <1>1, IncoherentKept DEF DetectInv, MatrixMasked, detectionVars
  <2>. QED  BY <1>1, <2>1 DEF DetectInv, MatrixMasked, detectionVars
<1>5. PeaksFollow'
  BY <1>1 DEF DetectInv, detectionVars, PeaksFollow, FromMatrix
<1>. QED  BY <1>2, <1>3, <1>4, <1>5 DEF DetectInv

LEMMA SuppressedKeeps == ASSUME DetectInv, Suppressed PROVE DetectInv'
<1>1. /\ stage = "sweep" /\ stage' = "solve" /\ UNCHANGED suppressorVars
      /\ UNCHANGED <<given, phase, rd, masked, index>>
  BY DEF Suppressed
<1>2. SweepInv'
  BY <1>1, SweepStep DEF DetectInv
<1>3. DetectTyped'
  BY <1>1 DEF DetectInv, DetectTyped
<1>4. MatrixMasked'
  BY <1>1, MatrixKept
<1>5. PeaksFollow'
  BY <1>1 DEF DetectInv, suppressorVars, PeaksFollow, FromMatrix
<1>. QED  BY <1>2, <1>3, <1>4, <1>5 DEF DetectInv

LEMMA PeakInside ==
  ASSUME DetectInv, FromMatrix, NEW k \in 1..Len(peaks)
  PROVE  CellOf(k) \in Detected(rd) /\ CellOf(k) \in Cells
<1>1. peaks = PeaksOf(rd) /\ rd \in [Cells -> Nat]
  BY MatrixTyped DEF DetectInv, PeaksFollow, FromMatrix
<1>2. CellOf(k) \in Detected(rd)
  BY <1>1, PeaksListed DEF CellOf
<1>. QED  BY <1>2 DEF Detected, Interior

LEMMA SolvePeaksKeeps == ASSUME DetectInv, SolvePeaks PROVE DetectInv'
<1>1. /\ stage = "solve" /\ stage' = "done" /\ UNCHANGED suppressorVars
      /\ UNCHANGED <<given, phase, rd, masked>>
      /\ valid # {} => index' \in Refined(CellOf(Min(valid)))
      /\ valid = {} => index' = index
  BY DEF SolvePeaks
<1>2. SweepInv'
  BY <1>1, SweepStep DEF DetectInv
<1>3. index' \in Cells
  <2>1. CASE valid = {}
    BY <1>1, <2>1 DEF DetectInv, DetectTyped
  <2>2. CASE valid # {}
    <3>1. valid \subseteq 1..Len(peaks) /\ valid \subseteq Nat
      BY DEF DetectInv, SweepInv, SweepTyped
    <3>2. Min(valid) \in 1..Len(peaks)
      BY <2>2, <3>1, MinIn
    <3>3. CellOf(Min(valid)) \in Cells
      BY <1>1, <3>2, PeakInside DEF FromMatrix
    <3>. QED  BY <1>1, <2>2, <3>3, RefinedInside
  <2>. QED  BY <2>1, <2>2
<1>4. DetectTyped'
  BY <1>1, <1>3 DEF DetectInv, DetectTyped
<1>5. MatrixMasked'
  BY <1>1, MatrixKept
<1>6. PeaksFollow'
  <2>1. FromMatrix' => peaks' = PeaksOf(rd)'
    BY <1>1 DEF DetectInv, suppressorVars, PeaksFollow, FromMatrix
  <2>2. ASSUME valid' # {}, NEW c \in Cells, c = CellOf(Min(valid))'
        PROVE  index' \in Refined(c)'
    <3>1. valid # {} /\ c = CellOf(Min(valid))
      BY <1>1, <2>2 DEF suppressorVars, CellOf
    <3>. QED  BY <1>1, <3>1, RefinedKept
  <2>. QED  BY <1>1, <2>1, <2>2 DEF PeaksFollow
<1>. QED  BY <1>2, <1>4, <1>5, <1>6 DEF DetectInv

LEMMA DetectInvStep == DetectInv /\ [Next]_vars => DetectInv'
<1>. SUFFICES ASSUME DetectInv, [Next]_vars PROVE DetectInv'
  OBVIOUS
<1>1. CASE UNCHANGED vars
  <2>1. UNCHANGED suppressorVars /\ UNCHANGED detectionVars
    BY <1>1 DEF vars
  <2>2. SweepInv'
    BY <2>1, SweepStep DEF DetectInv
  <2>3. DetectTyped'
    BY <2>1 DEF DetectInv, DetectTyped, detectionVars
  <2>4. MatrixMasked'
    <3>1. \A r \in masked' : Incoherent(Clean(given), r)'
      BY <2>1, IncoherentKept DEF DetectInv, MatrixMasked, detectionVars
    <3>. QED  BY <2>1, <3>1 DEF DetectInv, MatrixMasked, detectionVars
  <2>5. PeaksFollow'
    <3>1. CellOf(Min(valid))' = CellOf(Min(valid))
      BY <2>1 DEF CellOf, suppressorVars
    <3>2. \A c \in Cells : Refined(c)' = Refined(c)
      BY <2>1, RefinedKept DEF detectionVars
    <3>. QED  BY <2>1, <3>1, <3>2 DEF DetectInv, suppressorVars, detectionVars, PeaksFollow, Unlisted, FromMatrix
  <2>. QED  BY <2>2, <2>3, <2>4, <2>5 DEF DetectInv
<1>. QED
  BY <1>1, MaskKeeps, CFARDetectKeeps, SuppressKeeps, SuppressedKeeps, SolvePeaksKeeps DEF Next

(* However the solver moves, PeakDopplerIdx and PeakRangeIdx are indexes   *)
(* of the matrix: its reach is chosen by the distance to the border.       *)
THEOREM DetectionIndexInside == Spec => []IndexInside
<1>1. DetectInv => IndexInside
  BY DEF DetectInv, DetectTyped, IndexInside
<1>. QED  BY <1>1, DetectInvInit, DetectInvStep, PTL DEF Spec

(* What the suppressor promises of any list, it promises of the peaks CFAR *)
(* found, in every stage.                                                  *)
THEOREM DetectionDiscardsJustified == Spec => []DiscardsJustified
<1>1. DetectInv => DiscardsJustified
  BY DEF DetectInv, SweepInv
<1>. QED  BY <1>1, DetectInvInit, DetectInvStep, PTL DEF Spec

(* After the sweep no survivor of CFAR's peaks is a weak harmonic of       *)
(* another.                                                                *)
THEOREM DetectionSurvivorsAreSettled == Spec => []SurvivorsAreSettled
<1>1. DetectInv => SurvivorsAreSettled
  BY SweptIsSettled DEF DetectInv
<1>. QED  BY <1>1, DetectInvInit, DetectInvStep, PTL DEF Spec

(* A masked bin loses a factor 20, the cells around it at most as much: a  *)
(* cell that outshines them in the masked matrix did so before.            *)
LEMMA FoundIsDetected ==
  ASSUME DetectInv, FromMatrix
  PROVE  Found = Detected(rd)
<1>1. peaks = PeaksOf(rd) /\ rd \in [Cells -> Nat]
  BY MatrixTyped DEF DetectInv, PeaksFollow, FromMatrix
<1>2. /\ DOMAIN peaks = 1..Cardinality(Detected(rd))
      /\ \A k \in 1..Cardinality(Detected(rd)) : CellOf(k) \in Detected(rd)
      /\ \A c \in Detected(rd) : \E k \in 1..Cardinality(Detected(rd)) : CellOf(k) = c
  BY <1>1, PeaksListed DEF CellOf
<1>. QED  BY <1>2 DEF Found

LEMMA AttenuatedBackground ==
  ASSUME DetectInv, FromMatrix, NEW c \in Interior
  PROVE  /\ Background(Clean(given), c) \in Nat /\ Background(rd, c) \in Nat
         /\ Background(Clean(given), c) <= 20 * Background(rd, c)
<1>. DEFINE T == Training[c]
<1>1. /\ rd \in [Cells -> Nat] /\ Clean(given) \in [Cells -> Nat]
      /\ \A n \in Cells : Clean(given)[n] <= 20 * rd[n]
  BY MatrixTyped DEF FromMatrix
<1>2. T \subseteq Cells /\ IsFiniteSet(T)
  BY TrainingFinite
<1>3. \A n \in T : Clean(given)[n] \in Nat /\ rd[n] \in Nat /\ Clean(given)[n] <= 20 * rd[n]
  BY <1>1, <1>2
<1>. HIDE DEF T
<1>4. SumFunctionOnSet(Clean(given), T) <= 20 * SumFunctionOnSet(rd, T)
  BY <1>2, <1>3, SumBounded
<1>5. Background(Clean(given), c) <= 20 * Background(rd, c)
  BY <1>4 DEF Background, T
<1>. QED  BY <1>1, <1>5, BackgroundTyped

(* In an attenuated range bin nothing is detected that would not have been *)
(* without the mask, for every matrix and every CFAR window.               *)
THEOREM DetectionMaskAddsOnlyOutside == Spec => []MaskAddsOnlyOutside
<1>1. DetectInv => MaskAddsOnlyOutside
  <2>. SUFFICES ASSUME DetectInv, FromMatrix, NEW c \in Found, c[2] \in masked
                PROVE  c \in Detected(Clean(given))
    BY DEF MaskAddsOnlyOutside
  <2>1. c \in Interior /\ c \in Cells /\ Training[c] # {} /\ Outshines(rd, c)
    BY FoundIsDetected DEF Detected, Interior
  <2>2. rd[c] \in Nat /\ Clean(given)[c] = 20 * rd[c]
    BY <2>1, MatrixTyped DEF FromMatrix
  <2>3. /\ Background(Clean(given), c) \in Nat /\ Background(rd, c) \in Nat
        /\ Background(Clean(given), c) <= 20 * Background(rd, c)
    BY <2>1, AttenuatedBackground
  <2>4. Cardinality(Training[c]) \in Nat /\ CFARThreshold \in Nat
    BY <2>1, TrainingFinite, DetectionAssumption
  <2>5. ASSUME NEW a \in Nat, NEW n \in Nat, NEW t \in Nat, NEW b \in Nat, NEW d \in Nat,
               a * n > t * b, d <= 20 * b
        PROVE  (20 * a) * n > t * d
    <3>1. t * d <= t * (20 * b)
      BY <2>5
    <3>2. t * (20 * b) = 20 * (t * b) /\ (20 * a) * n = 20 * (a * n)
      BY <2>5
    <3>3. a * n \in Nat /\ t * b \in Nat /\ t * d \in Nat /\ t * (20 * b) \in Nat /\ (20 * a) * n \in Nat
      BY <2>5
    <3>. QED  BY <2>5, <3>1, <3>2, <3>3
  <2>6. rd[c] * Cardinality(Training[c]) > CFARThreshold * Background(rd, c)
    BY <2>1 DEF Outshines
  <2>7. (20 * rd[c]) * Cardinality(Training[c]) > CFARThreshold * Background(Clean(given), c)
    BY <2>2, <2>3, <2>4, <2>5, <2>6
  <2>. QED  BY <2>1, <2>2, <2>7 DEF Detected, Outshines
<1>. QED  BY <1>1, DetectInvInit, DetectInvStep, PTL DEF Spec

-----------------------------------------------------------------------------
(* With phases that are all zero the steps add up to their number, so the  *)
(* coherence is one and its weight alone reaches the threshold.            *)
LEMMA StabilityNatural ==
  ASSUME NEW m \in [Cells -> Nat], NEW r \in Columns
  PROVE  AmplitudeStability(m, r) \in Nat
<1>. DEFINE a == [d \in Rows |-> m[<<d, r>>] \div 20]
            s == [d \in Rows |-> a[d] * a[d]]
            sum == SumFunctionOnSet(a, Rows)
            squares == SumFunctionOnSet(s, Rows)
<1>1. \A d \in Rows : a[d] \in Nat
  <2>1. ASSUME NEW d \in Rows PROVE m[<<d, r>>] \in Nat
    <3>1. <<d, r>> \in Cells
      BY DEF Cells
    <3>. QED  BY <3>1
  <2>2. \A x \in Nat : x \div 20 \in Nat
    OBVIOUS
  <2>. QED  BY <2>1, <2>2
<1>2. \A d \in Rows : s[d] \in Nat /\ a[d] <= s[d]
  <2>1. ASSUME NEW x \in Nat PROVE x * x \in Nat /\ x <= x * x
    BY <2>1
  <2>. HIDE DEF a
  <2>. QED  BY <1>1, <2>1
<1>3. IsFiniteSet(Rows)
  BY CellsFinite
<1>4. /\ SumFunction([d \in Rows |-> m[<<d, r>>] \div 20]) = sum
      /\ SumFunction([d \in Rows |-> a[d] * a[d]]) = squares
  BY Zenon DEF SumFunction
<1>5. AmplitudeStability(m, r) =
        IF DopplerBins < 2 \/ sum = 0 THEN 0 ELSE (100 * sum * sum) \div (DopplerBins * squares)
  BY <1>4 DEF AmplitudeStability
<1>. HIDE DEF a, s
<1>6. sum \in Nat /\ squares \in Nat
  BY <1>1, <1>2, <1>3, SumNatural
<1>7. sum <= 1 * squares
  BY <1>1, <1>2, <1>3, SumBounded
<1>. HIDE DEF sum, squares
<1>8. ASSUME NEW x \in Nat, NEW y \in Nat, NEW n \in Nat, n > 0, x <= y, x # 0
      PROVE  (100 * x * x) \div (n * y) \in Nat
  <2>1. 100 * x * x \in Nat /\ n * y \in Nat /\ n * y > 0
    BY <1>8
  <2>2. ASSUME NEW p \in Nat, NEW q \in Nat, q > 0 PROVE p \div q \in Nat
    BY <2>2
  <2>. QED  BY <2>1, <2>2
<1>. QED  BY <1>5, <1>6, <1>7, <1>8, DetectionAssumption

LEMMA SteadyResultant ==
  ASSUME phase = Zero, DopplerBins >= 3, NEW r \in Columns
  PROVE  ResultantSquared(r) = (DopplerBins - 1) * (DopplerBins - 1)
<1>. DEFINE steps == 0..(DopplerBins - 2)
            x == [d \in steps |-> UnitStep(r, d)[1]]
            y == [d \in steps |-> UnitStep(r, d)[2]]
<1>1. DopplerBins \in Nat
  BY DetectionAssumption
<1>2. \A d \in steps : UnitStep(r, d) = <<1, 0>>
  <2>. SUFFICES ASSUME NEW d \in steps PROVE UnitStep(r, d) = <<1, 0>>
    OBVIOUS
  <2>1. <<d + 1, r>> \in Cells /\ <<d, r>> \in Cells
    BY <1>1 DEF Cells, Rows
  <2>2. phase[<<d + 1, r>>] = 0 /\ phase[<<d, r>>] = 0
    BY <2>1 DEF Zero
  <2>3. (phase[<<d + 1, r>>] - phase[<<d, r>>]) % 4 = 0
    BY <2>2
  <2>. QED  BY <2>3 DEF UnitStep
<1>3. (\A d \in steps : x[d] = 1) /\ (\A d \in steps : y[d] = 0)
  BY <1>2
<1>4. IsFiniteSet(steps) /\ Cardinality(steps) = DopplerBins - 1
  <2>1. 0 \in Int /\ DopplerBins - 2 \in Int /\ ~(0 > DopplerBins - 2)
    BY <1>1
  <2>2. IsFiniteSet(0..(DopplerBins - 2)) /\ Cardinality(0..(DopplerBins - 2)) = (DopplerBins - 2) - 0 + 1
    BY <2>1, FS_Interval
  <2>. QED  BY <1>1, <2>2
<1>5. SumFunction([d \in steps |-> UnitStep(r, d)[1]]) = SumFunctionOnSet(x, steps)
      /\ SumFunction([d \in steps |-> UnitStep(r, d)[2]]) = SumFunctionOnSet(y, steps)
  BY Zenon DEF SumFunction
<1>6. ResultantSquared(r) = SumFunctionOnSet(x, steps) * SumFunctionOnSet(x, steps)
                            + SumFunctionOnSet(y, steps) * SumFunctionOnSet(y, steps)
  <2>1. ~(DopplerBins < 3)
    BY <1>1
  <2>. QED  BY <1>5, <2>1, Zenon DEF ResultantSquared
<1>. HIDE DEF steps, x, y
<1>7. SumFunctionOnSet(x, steps) = 1 * (DopplerBins - 1)
  BY <1>3, <1>4, SumConstant
<1>8. SumFunctionOnSet(y, steps) = 0 * (DopplerBins - 1)
  BY <1>3, <1>4, SumConstant
<1>. QED  BY <1>1, <1>6, <1>7, <1>8

LEMMA SteadyIsCoherent ==
  ASSUME CoherenceMaskThreshold <= PhaseCoherenceWeight, phase = Zero, DopplerBins >= 3,
         NEW m \in [Cells -> Nat], NEW r \in Columns
  PROVE  ~Incoherent(m, r)
<1>. DEFINE s == AmplitudeStability(m, r)
            n == DopplerBins - 1
            reach == 100 * PhaseCoherenceWeight
<1>1. /\ s \in Nat /\ n \in Nat /\ n > 0
      /\ CoherenceMaskThreshold \in Nat /\ PhaseCoherenceWeight \in Nat /\ AmplitudeStabilityWeight \in Nat
  BY StabilityNatural, DetectionAssumption
<1>2. Missing(m, r) \in Int /\ Missing(m, r) <= reach /\ reach \in Nat
  <2>. HIDE DEF s
  <2>1. Missing(m, r) = 100 * CoherenceMaskThreshold - s * AmplitudeStabilityWeight
    BY DEF Missing, s
  <2>2. s * AmplitudeStabilityWeight \in Nat
    BY <1>1
  <2>. QED  BY <1>1, <2>1, <2>2
<1>3. ResultantSquared(r) = n * n
  BY SteadyResultant
<1>4. Incoherent(m, r) <=> /\ Missing(m, r) * n > 0
                           /\ reach * reach * (n * n) < (Missing(m, r) * n) * (Missing(m, r) * n)
  BY <1>3 DEF Incoherent
<1>. HIDE DEF n, reach
<1>5. ASSUME NEW a \in Int, NEW b \in Nat, NEW k \in Nat, a <= b, a * k > 0
      PROVE  ~(b * b * (k * k) < (a * k) * (a * k))
  <2>1. a * k \in Nat /\ b * k \in Nat /\ a * k <= b * k
    BY <1>5
  <2>2. (b * k) * (b * k) = b * b * (k * k)
    BY <1>5
  <2>3. ASSUME NEW p \in Nat, NEW q \in Nat, p <= q PROVE p * p <= q * q /\ p * p \in Nat /\ q * q \in Nat
    BY <2>3
  <2>4. (a * k) * (a * k) <= (b * k) * (b * k)
        /\ (a * k) * (a * k) \in Nat /\ (b * k) * (b * k) \in Nat
    BY <2>1, <2>3
  <2>. QED  BY <2>2, <2>4
<1>. QED  BY <1>1, <1>2, <1>4, <1>5

(* When the threshold is at most the weight of the coherence, as shipped   *)
(* (35 and 60), the mask touches no matrix of magnitudes.                  *)
THEOREM DetectionMaskSparesMagnitudes ==
  ASSUME CoherenceMaskThreshold <= PhaseCoherenceWeight
  PROVE  Spec => []MaskSparesMagnitudes
<1>1. DetectInv => MaskSparesMagnitudes
  <2>. SUFFICES ASSUME DetectInv, phase = Zero, DopplerBins >= 3, NEW r \in masked
                PROVE  FALSE
    BY DEF MaskSparesMagnitudes
  <2>1. Incoherent(Clean(given), r) /\ r \in Columns
    BY DEF DetectInv, MatrixMasked, DetectTyped
  <2>2. Clean(given) \in [Cells -> Nat]
    BY CleanTyped DEF DetectInv, DetectTyped
  <2>. QED  BY <2>1, <2>2, SteadyIsCoherent
<1>. QED  BY <1>1, DetectInvInit, DetectInvStep, PTL DEF Spec

-----------------------------------------------------------------------------
(* A matrix wider than the guard window in one direction leaves every cell *)
(* under test a cell to be compared with.                                  *)
LEMMA TrainingSurrounds ==
  ASSUME 2 * CFARGuardCells + 1 < DopplerBins \/ 2 * CFARGuardCells + 1 < RangeBins,
         NEW c \in Interior
  PROVE  Training[c] # {}
<1>. DEFINE G == CFARGuardCells
            reach == CFARGuardCells + CFARTrainCells
<1>1. /\ c \in Cells /\ c = <<c[1], c[2]>>
      /\ c[1] \in Nat /\ c[2] \in Nat /\ c[1] < DopplerBins /\ c[2] < RangeBins
      /\ G \in Nat /\ reach \in Nat /\ G + 1 <= reach
      /\ DopplerBins \in Nat /\ RangeBins \in Nat
  BY TrainingFinite, CellTyped, DetectionAssumption DEF Rows, Columns
<1>2. ASSUME NEW n \in Cells, Near(n, c, reach), ~Near(n, c, G) PROVE Training[c] # {}
  BY <1>2 DEF Training
<1>3. CASE 2 * G + 1 < DopplerBins
  <2>1. \/ c[1] - (G + 1) \in Rows
        \/ c[1] + (G + 1) \in Rows
    BY <1>1, <1>3 DEF Rows
  <2>2. ASSUME NEW q \in Rows, q = c[1] - (G + 1) \/ q = c[1] + (G + 1)
        PROVE  Training[c] # {}
    <3>1. <<q, c[2]>> \in Cells
      BY <1>1, CellTyped DEF Cells
    <3>2. Near(<<q, c[2]>>, c, reach) /\ ~Near(<<q, c[2]>>, c, G)
      <4>. HIDE DEF G, reach
      <4>. QED  BY <1>1, <2>2 DEF Near, Abs, Rows
    <3>. QED  BY <1>2, <3>1, <3>2
  <2>. QED  BY <2>1, <2>2
<1>4. CASE 2 * G + 1 < RangeBins
  <2>1. \/ c[2] - (G + 1) \in Columns
        \/ c[2] + (G + 1) \in Columns
    BY <1>1, <1>4 DEF Columns
  <2>2. ASSUME NEW q \in Columns, q = c[2] - (G + 1) \/ q = c[2] + (G + 1)
        PROVE  Training[c] # {}
    <3>1. <<c[1], q>> \in Cells
      BY <1>1, CellTyped DEF Cells
    <3>2. Near(<<c[1], q>>, c, reach) /\ ~Near(<<c[1], q>>, c, G)
      <4>. HIDE DEF G, reach
      <4>. QED  BY <1>1, <2>2 DEF Near, Abs, Columns
    <3>. QED  BY <1>2, <3>1, <3>2
  <2>. QED  BY <2>1, <2>2
<1>. QED  BY <1>3, <1>4

(* A matrix that is zero but in one cell: CFAR detects that cell alone.    *)
LEMMA LoneCellDetected ==
  ASSUME 2 * CFARGuardCells + 1 < DopplerBins \/ 2 * CFARGuardCells + 1 < RangeBins,
         NEW m \in [Cells -> Nat], NEW c \in Interior, m[c] > 0,
         \A n \in Cells \ {c} : m[n] = 0
  PROVE  Detected(m) = {c}
<1>1. c \in Cells /\ Training[c] # {} /\ Training[c] \subseteq Cells \ {c} /\ IsFiniteSet(Training[c])
      /\ Cardinality(Training[c]) \in Nat /\ Cardinality(Training[c]) > 0
  BY TrainingSurrounds, TrainingFinite
<1>2. Background(m, c) = 0
  <2>1. \A n \in Training[c] : m[n] = 0
    BY <1>1
  <2>2. SumFunctionOnSet(m, Training[c]) = 0 * Cardinality(Training[c])
    BY <1>1, <2>1, SumConstant
  <2>. QED  BY <1>1, <2>2 DEF Background
<1>3. c \in Detected(m)
  <2>1. m[c] \in Nat /\ CFARThreshold \in Nat
    BY <1>1, DetectionAssumption
  <2>2. m[c] * Cardinality(Training[c]) > 0
    BY <1>1, <2>1
  <2>. QED  BY <1>1, <1>2, <2>1, <2>2 DEF Detected, Outshines
<1>4. ASSUME NEW d \in Interior, d # c PROVE d \notin Detected(m)
  <2>1. /\ d \in Cells /\ m[d] = 0 /\ Background(m, d) \in Nat /\ CFARThreshold \in Nat
        /\ Cardinality(Training[d]) \in Nat
    BY <1>4, TrainingFinite, BackgroundTyped, DetectionAssumption
  <2>2. CFARThreshold * Background(m, d) \in Nat /\ m[d] * Cardinality(Training[d]) = 0
    BY <2>1
  <2>. QED  BY <2>1, <2>2 DEF Detected, Outshines
<1>. QED  BY <1>3, <1>4 DEF Detected

LEMMA LoneEchoSolved ==
  ASSUME 2 * CFARGuardCells + 1 < DopplerBins \/ 2 * CFARGuardCells + 1 < RangeBins,
         DetectInv, stage = "done", NEW c \in Cells, Within(c, CFARGuardCells), given[c] > 0,
         \A n \in Cells \ {c} : given[n] <= 0
  PROVE  Found = {c} /\ valid = {1} /\ index = c
<1>1. c \in Interior
  BY CellTyped, DetectionAssumption DEF Within, Interior
<1>2. /\ rd \in [Cells -> Nat] /\ FromMatrix
      /\ \A n \in Cells : n[2] \in masked => 20 * rd[n] = Clean(given)[n]
      /\ \A n \in Cells : n[2] \notin masked => rd[n] = Clean(given)[n]
  BY MatrixTyped DEF FromMatrix
<1>3. given[c] \in Int /\ \A n \in Cells : given[n] \in Int
  BY DEF DetectInv, DetectTyped
<1>4. rd[c] > 0
  <2>1. Clean(given)[c] > 0 /\ rd[c] \in Nat /\ Clean(given)[c] \in Int
    BY <1>2, <1>3 DEF Clean
  <2>. QED  BY <1>2, <2>1
<1>5. \A n \in Cells \ {c} : rd[n] = 0
  <2>. SUFFICES ASSUME NEW n \in Cells, n # c PROVE rd[n] = 0
    OBVIOUS
  <2>1. Clean(given)[n] = 0 /\ rd[n] \in Nat
    <3>1. given[n] <= 0 /\ given[n] \in Int
      BY <1>3
    <3>2. \A x \in Int : x <= 0 => (IF x < 0 THEN 0 ELSE x) = 0
      OBVIOUS
    <3>. QED  BY <1>2, <3>1, <3>2 DEF Clean
  <2>. QED  BY <1>2, <2>1
<1>6. Detected(rd) = {c}
  <2>. PICK m \in [Cells -> Nat] : m = rd
    BY <1>2
  <2>1. Detected(m) = {c}
    BY <1>1, <1>4, <1>5, LoneCellDetected
  <2>. QED  BY <2>1
<1>7. Found = {c}
  BY <1>2, <1>6, FoundIsDetected
<1>8. Len(peaks) = 1 /\ peaks \in Seq(Peak)
  <2>1. peaks = PeaksOf(rd)
    BY <1>2 DEF DetectInv, PeaksFollow
  <2>2. Cardinality({c}) = 1
    BY FS_Singleton
  <2>. QED  BY <1>2, <1>6, <2>1, <2>2, PeaksListed
<1>9. valid = {1}
  <2>1. valid \subseteq 1..1 /\ 1..1 = {1}
    BY <1>8 DEF DetectInv, SweepInv, SweepTyped
  <2>2. ASSUME 1 \notin valid PROVE FALSE
    <3>1. \E a \in 1..1 : a # 1
      BY <1>8, <2>2 DEF DetectInv, SweepInv, DiscardsJustified
    <3>. QED  BY <3>1
  <2>. QED  BY <2>1, <2>2
<1>10. index = c
  <2>1. Min(valid) = 1
    <3>1. {1} \subseteq Nat /\ {1} # {}
      OBVIOUS
    <3>2. Min({1}) \in {1}
      BY <3>1, MinIn
    <3>. QED  BY <1>9, <3>2
  <2>2. CellOf(1) = c
    BY <1>7, <1>8 DEF Found
  <2>3. index \in Refined(c)
    BY <1>9, <2>1, <2>2 DEF DetectInv, PeaksFollow
  <2>4. GradientVanishes(c)
    <3>1. \A n : n # c => At(n) = 0
      BY <1>5 DEF At
    <3>2. c[1] \in Nat /\ c[2] \in Nat
      BY CellTyped
    <3>3. /\ <<c[1] - 1, c[2]>> # c /\ <<c[1] + 1, c[2]>> # c
          /\ <<c[1], c[2] - 1>> # c /\ <<c[1], c[2] + 1>> # c
      BY <3>2
    <3>. QED  BY <3>1, <3>3 DEF GradientVanishes
  <2>. QED  BY <2>3, <2>4 DEF Refined
<1>. QED  BY <1>7, <1>9, <1>10

(* A lone echo comes through every stage at its own cell, whatever the     *)
(* mask does to it, if the matrix is wider than the guard window.          *)
THEOREM DetectionLoneEchoIsFound ==
  ASSUME 2 * CFARGuardCells + 1 < DopplerBins \/ 2 * CFARGuardCells + 1 < RangeBins
  PROVE  Spec => []LoneEchoIsFound
<1>1. DetectInv => LoneEchoIsFound
  BY LoneEchoSolved DEF LoneEchoIsFound
<1>. QED  BY <1>1, DetectInvInit, DetectInvStep, PTL DEF Spec
=============================================================================
