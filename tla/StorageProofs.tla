---------------------------- MODULE StorageProofs ----------------------------
(***************************************************************************)
(* Proofs about the storage's batch writer, for any callers, measurements, *)
(* batch size and database behaviour.                                      *)
(*                                                                         *)
(* The inductive invariant strengthens the properties in three ways: the   *)
(* writer never waits in its select with a full batch; the serial numbers  *)
(* of the batch and of the channel are known one by one; and a row's       *)
(* serial number is smaller than any that is pending, except while a copy  *)
(* that was applied is being counted as failed.  The refinement of Journal *)
(* comes last.                                                             *)
(***************************************************************************)
EXTENDS Storage, FiniteSetTheorems, FunctionTheorems, SequenceTheorems, TLAPS

BatchHasRoom == spc = "select" => Len(batch) < BatchSize

SerialsKnown ==
  /\ \A i \in 1..Len(batch) :
       batch[i].serial = accepted - Len(batchCh) - Len(batch) + i
  /\ \A i \in 1..Len(batchCh) :
       batchCh[i].serial = accepted - Len(batchCh) + i

RowsAreOld ==
  \A i \in 1..Len(rows) :
    /\ rows[i].serial <= accepted - Len(batchCh)
    /\ spc # "failCopy" => rows[i].serial <= accepted - Len(batchCh) - Len(batch)

RowsInOrder ==
  \A i, j \in 1..Len(rows) : i < j => rows[i].serial < rows[j].serial

NobodySawMore ==
  \A x \in Callers \cup {Writer} : seen[x] <= refused + failed

Order == SerialsKnown /\ RowsAreOld /\ RowsInOrder
Counts ==
  /\ AcceptedAccounted /\ WrittenNeverOverstated
  /\ ErrorsNeverOvercounted /\ NobodySawMore

StorageInv == TypeOK /\ BatchHasRoom /\ Order /\ Counts

-----------------------------------------------------------------------------
(* The number of batch items that hold a measurement is a natural number.  *)
LEMMA HoldingIsNat ==
  ASSUME NEW q \in Seq(Item), NEW m
  PROVE  Holding(q, m) \in Nat
<1>1. IsFiniteSet(1..Len(q))
  BY FS_Interval
<1>2. IsFiniteSet({i \in DOMAIN q : q[i].m = m})
  BY <1>1, FS_Subset
<1>3. QED
  BY <1>2, FS_CardinalityType DEF Holding

LEMMA UnrefKeepsType ==
  ASSUME batch \in Seq(Item), refs \in [Measurements -> Int], UnrefBatch
  PROVE  refs' \in [Measurements -> Int]
<1>1. \A m \in Measurements : Holding(batch, m) \in Nat
  BY HoldingIsNat
<1>2. QED
  BY <1>1 DEF UnrefBatch

(* Serial numbers are natural numbers.                                     *)
LEMMA SerialsAreNat ==
  ASSUME NEW q \in Seq(Item)
  PROVE  \A i \in 1..Len(q) : q[i].serial \in Nat
<1> TAKE i \in 1..Len(q)
<1>1. q[i] \in Item
  OBVIOUS
<1>2. QED
  BY <1>1 DEF Item

(* A copied batch goes behind the rows that are there.                     *)
LEMMA RowsGrow ==
  ASSUME TypeOK, Order, spc = "copy", rows' = rows \o batch
  PROVE  /\ rows' \in Seq(Item)
         /\ Len(rows') = Len(rows) + Len(batch)
         /\ RowsInOrder'
         /\ \A i \in 1..Len(rows') : rows'[i].serial <= accepted - Len(batchCh)
<1> USE DEF TypeOK, Order
<1>1. /\ rows' \in Seq(Item)
      /\ Len(rows') = Len(rows) + Len(batch)
      /\ \A i \in 1..Len(rows) : rows'[i] = rows[i]
      /\ \A i \in 1..Len(batch) : rows'[Len(rows) + i] = batch[i]
  OBVIOUS
<1>2. \A i \in 1..Len(rows) :
        rows'[i].serial <= accepted - Len(batchCh) - Len(batch)
  BY <1>1 DEF RowsAreOld
<1>3. \A i \in 1..Len(rows') : i > Len(rows) =>
        rows'[i].serial = accepted - Len(batchCh) - Len(batch) + (i - Len(rows))
  <2> TAKE i \in 1..Len(rows')
  <2> HAVE i > Len(rows)
  <2> DEFINE k == i - Len(rows)
  <2>1. k \in 1..Len(batch) /\ i = Len(rows) + k
    BY <1>1
  <2>2. rows'[i] = batch[k]
    BY <1>1, <2>1
  <2>3. QED
    BY <2>1, <2>2 DEF SerialsKnown
<1>4. /\ \A i \in 1..Len(rows') : rows'[i].serial \in Nat
      /\ Len(rows) \in Nat /\ Len(batch) \in Nat /\ Len(batchCh) \in Nat
  BY <1>1, SerialsAreNat
<1>5. \A i \in 1..Len(rows') : rows'[i].serial <= accepted - Len(batchCh)
  <2> TAKE i \in 1..Len(rows')
  <2>1. CASE i <= Len(rows)
    <3>1. i \in 1..Len(rows)
      BY <1>4, <2>1
    <3>2. rows'[i].serial <= accepted - Len(batchCh) - Len(batch)
      BY <1>2, <3>1
    <3>3. QED
      BY <1>4, <3>2
  <2>2. CASE i > Len(rows)
    <3>1. rows'[i].serial = accepted - Len(batchCh) - Len(batch) + (i - Len(rows))
      BY <1>3, <2>2
    <3>2. QED
      BY <1>1, <1>4, <2>2, <3>1
  <2>3. QED
    BY <1>4, <2>1, <2>2
<1>6. RowsInOrder'
  <2> SUFFICES ASSUME NEW i \in 1..Len(rows'), NEW j \in 1..Len(rows'), i < j
               PROVE  rows'[i].serial < rows'[j].serial
    BY DEF RowsInOrder
  <2>1. CASE j <= Len(rows)
    BY <1>1, <2>1 DEF RowsInOrder
  <2>2. CASE j > Len(rows) /\ i <= Len(rows)
    <3>1. i \in 1..Len(rows)
      BY <1>4, <2>2
    <3>2. rows'[i].serial <= accepted - Len(batchCh) - Len(batch)
      BY <1>2, <3>1
    <3>3. rows'[j].serial = accepted - Len(batchCh) - Len(batch) + (j - Len(rows))
      BY <1>3, <2>2
    <3>4. QED
      BY <1>4, <2>2, <3>2, <3>3
  <2>3. CASE j > Len(rows) /\ i > Len(rows)
    BY <1>1, <1>3, <2>3
  <2>4. QED
    BY <1>1, <2>1, <2>2, <2>3
<1>7. QED
  BY <1>1, <1>5, <1>6

-----------------------------------------------------------------------------
LEMMA StorageInitial == Init => StorageInv
<1> SUFFICES ASSUME Init PROVE StorageInv
  OBVIOUS
<1> USE StorageAssumption DEF Init, StorageInit
<1>1. /\ batchCh = <<>> /\ Len(batchCh) = 0 /\ batchCh \in Seq(Item)
      /\ batch = <<>> /\ Len(batch) = 0 /\ batch \in Seq(Item)
      /\ rows = <<>> /\ Len(rows) = 0 /\ rows \in Seq(Item)
  OBVIOUS
<1>2. BatchChCap \in Nat /\ BatchSize \in Nat
  BY DEF BatchChCap
<1>3. /\ refs \in [Measurements -> Int]
      /\ wpc \in [Callers -> {"idle", "counting"}]
      /\ seen \in [Callers \cup {Writer} -> Nat]
      /\ \A x \in Callers \cup {Writer} : seen[x] = 0
  OBVIOUS
<1>4. TypeOK
  BY <1>1, <1>2, <1>3 DEF TypeOK, WriterPlaces
<1>5. BatchHasRoom /\ Order
  BY <1>1, <1>2 DEF BatchHasRoom, Order, SerialsKnown, RowsAreOld, RowsInOrder
<1>6. Counts
  BY <1>1, <1>3 DEF Counts, AcceptedAccounted, WrittenNeverOverstated,
     ErrorsNeverOvercounted, NobodySawMore
<1>7. QED
  BY <1>4, <1>5, <1>6 DEF StorageInv

-----------------------------------------------------------------------------
(* The callers.                                                            *)
LEMMA AcceptKeeps ==
  ASSUME StorageInv, NEW c \in Callers, NEW m \in Measurements, Accept(c, m),
         UNCHANGED <<cancelled, closed>>
  PROVE  StorageInv'
<1> USE DEF StorageInv, TypeOK, Accept
<1> DEFINE item == [m |-> m, serial |-> accepted + 1]
<1>1. /\ item \in Item /\ item.serial = accepted + 1
      /\ batchCh' \in Seq(Item)
      /\ Len(batchCh') = Len(batchCh) + 1
      /\ \A i \in 1..Len(batchCh) : batchCh'[i] = batchCh[i]
      /\ batchCh'[Len(batchCh) + 1] = item
  BY DEF Item
<1>2. Len(batchCh') <= BatchChCap
  BY <1>1, StorageAssumption DEF BatchChCap
<1>3. refs' \in [Measurements -> Int]
  OBVIOUS
<1>4. TypeOK'
  BY <1>1, <1>2, <1>3
<1>5. BatchHasRoom'
  BY DEF BatchHasRoom
<1>6. SerialsKnown'
  <2>1. \A i \in 1..Len(batch') :
          batch'[i].serial = accepted' - Len(batchCh') - Len(batch') + i
    <3>1. /\ batch' = batch
          /\ accepted' - Len(batchCh') = accepted - Len(batchCh)
      BY <1>1
    <3>2. QED
      BY <3>1 DEF Order, SerialsKnown
  <2>2. \A i \in 1..Len(batchCh') :
          batchCh'[i].serial = accepted' - Len(batchCh') + i
    <3> TAKE i \in 1..Len(batchCh')
    <3>1. CASE i = Len(batchCh) + 1
      BY <1>1, <3>1
    <3>2. CASE i \in 1..Len(batchCh)
      BY <1>1, <3>2 DEF Order, SerialsKnown
    <3>3. QED
      BY <1>1, <3>1, <3>2
  <2>3. QED
    BY <2>1, <2>2 DEF SerialsKnown
<1>7. RowsAreOld' /\ RowsInOrder'
  BY <1>1 DEF Order, RowsAreOld, RowsInOrder
<1>8. Counts'
  <2>1. AcceptedAccounted'
    BY <1>1 DEF Counts, AcceptedAccounted
  <2>2. WrittenNeverOverstated' /\ ErrorsNeverOvercounted' /\ NobodySawMore'
    BY DEF Counts, WrittenNeverOverstated, ErrorsNeverOvercounted, NobodySawMore
  <2>3. QED
    BY <2>1, <2>2 DEF Counts
<1>9. QED
  BY <1>4, <1>5, <1>6, <1>7, <1>8 DEF Order

LEMMA RefuseFullKeeps ==
  ASSUME StorageInv, NEW c \in Callers, NEW m \in Measurements, RefuseFull(c, m),
         UNCHANGED <<cancelled, closed>>
  PROVE  StorageInv'
<1> USE DEF StorageInv, TypeOK, RefuseFull
<1>1. UNCHANGED <<batchCh, batch, spc, safter, refs, writeErrors, written, rows,
                  accepted, failed, refused>>
  BY DEF historyVars
<1>2. /\ wpc' \in [Callers -> {"idle", "counting"}]
      /\ seen' \in [Callers \cup {Writer} -> Nat]
  OBVIOUS
<1>3. TypeOK'
  BY <1>1, <1>2
<1>4. BatchHasRoom' /\ Order'
  BY <1>1 DEF BatchHasRoom, Order, SerialsKnown, RowsAreOld, RowsInOrder
<1>5. NobodySawMore'
  BY <1>1 DEF Counts, ErrorsNeverOvercounted, NobodySawMore
<1>6. Counts'
  BY <1>1, <1>5 DEF Counts, AcceptedAccounted, WrittenNeverOverstated,
     ErrorsNeverOvercounted
<1>7. QED
  BY <1>3, <1>4, <1>6

LEMMA CountRefusalKeeps ==
  ASSUME StorageInv, NEW c \in Callers, CountRefusal(c),
         UNCHANGED <<cancelled, closed>>
  PROVE  StorageInv'
<1> USE DEF StorageInv, TypeOK, CountRefusal
<1>1. seen[c] \in Nat /\ seen[c] <= refused + failed
  BY DEF Counts, NobodySawMore
<1>2. writeErrors' \in Nat /\ refused' \in Nat /\ writeErrors' <= refused' + failed
  BY <1>1
<1>3. wpc' \in [Callers -> {"idle", "counting"}]
  OBVIOUS
<1>4. TypeOK'
  BY <1>2, <1>3
<1>5. BatchHasRoom' /\ Order'
  BY DEF BatchHasRoom, Order, SerialsKnown, RowsAreOld, RowsInOrder
<1>6. NobodySawMore' /\ ErrorsNeverOvercounted'
  BY <1>2 DEF Counts, ErrorsNeverOvercounted, NobodySawMore
<1>7. Counts'
  BY <1>6 DEF Counts, AcceptedAccounted, WrittenNeverOverstated
<1>8. QED
  BY <1>4, <1>5, <1>7

-----------------------------------------------------------------------------
(* The writer.                                                             *)
LEMMA TakeKeeps ==
  ASSUME StorageInv, Take, UNCHANGED <<cancelled, closed>>
  PROVE  StorageInv'
<1> USE StorageAssumption DEF StorageInv, TypeOK, Take
<1>1. /\ Len(batchCh) >= 1 /\ Head(batchCh) = batchCh[1] /\ batchCh[1] \in Item
      /\ batchCh' \in Seq(Item)
      /\ Len(batchCh') = Len(batchCh) - 1
      /\ \A i \in 1..Len(batchCh') : batchCh'[i] = batchCh[i + 1]
  OBVIOUS
<1>2. /\ batch' \in Seq(Item)
      /\ Len(batch') = Len(batch) + 1
      /\ \A i \in 1..Len(batch) : batch'[i] = batch[i]
      /\ batch'[Len(batch) + 1] = batchCh[1]
  BY <1>1
<1>3. /\ Len(batch') <= BatchSize
      /\ spc' \in {"select", "acquire"}
      /\ spc' = "select" => Len(batch') < BatchSize
      /\ safter' \in {"select", "exit"}
  BY <1>2 DEF BatchHasRoom, StartFlush
<1>4. TypeOK'
  <2>1. Len(batchCh') <= BatchChCap
    BY <1>1 DEF BatchChCap
  <2>2. QED
    BY <1>1, <1>2, <1>3, <2>1 DEF WriterPlaces, historyVars
<1>5. BatchHasRoom'
  BY <1>3 DEF BatchHasRoom
<1>6. SerialsKnown'
  <2>1. \A i \in 1..Len(batch') :
          batch'[i].serial = accepted' - Len(batchCh') - Len(batch') + i
    <3> TAKE i \in 1..Len(batch')
    <3>1. accepted' = accepted /\ Len(batchCh') + Len(batch') = Len(batchCh) + Len(batch)
      BY <1>1, <1>2 DEF historyVars
    <3>2. SerialsKnown /\ accepted \in Nat /\ Len(batch) \in Nat /\ Len(batchCh) \in Nat
      BY DEF Order
    <3> HIDE DEF StorageInv, TypeOK, Take
    <3>3. CASE i = Len(batch) + 1
      <4>1. 1 \in 1..Len(batchCh)
        BY <1>1, <3>2
      <4>2. batchCh[1].serial = accepted - Len(batchCh) + 1
        BY <3>2, <4>1 DEF SerialsKnown
      <4>3. batch'[i].serial = batchCh[1].serial
        BY <1>2, <3>3
      <4>4. QED
        BY <1>1, <1>2, <3>1, <3>2, <3>3, <4>2, <4>3
    <3>4. CASE i \in 1..Len(batch)
      <4>1. batch[i].serial = accepted - Len(batchCh) - Len(batch) + i
        BY <3>2, <3>4 DEF SerialsKnown
      <4>2. batch'[i].serial = batch[i].serial
        BY <1>2, <3>4
      <4>3. QED
        BY <1>1, <1>2, <3>1, <3>2, <3>4, <4>1, <4>2
    <3>5. i = Len(batch) + 1 \/ i \in 1..Len(batch)
      BY <1>2, <3>2
    <3>6. QED
      BY <3>3, <3>4, <3>5
  <2>2. \A i \in 1..Len(batchCh') :
          batchCh'[i].serial = accepted' - Len(batchCh') + i
    <3> TAKE i \in 1..Len(batchCh')
    <3>1. SerialsKnown /\ accepted' = accepted /\ accepted \in Nat /\ Len(batchCh) \in Nat
      BY DEF Order, historyVars
    <3> HIDE DEF StorageInv, TypeOK, Take
    <3>2. i + 1 \in 1..Len(batchCh) /\ batchCh'[i] = batchCh[i + 1]
      BY <1>1, <3>1
    <3>3. batchCh[i + 1].serial = accepted - Len(batchCh) + (i + 1)
      BY <3>1, <3>2 DEF SerialsKnown
    <3>4. QED
      BY <1>1, <3>1, <3>2, <3>3
  <2>3. QED
    BY <2>1, <2>2 DEF SerialsKnown
<1>7. RowsAreOld' /\ RowsInOrder'
  <2>1. /\ UNCHANGED <<accepted, rows>> /\ spc = "select"
        /\ accepted' - Len(batchCh') - Len(batch') = accepted - Len(batchCh) - Len(batch)
        /\ accepted' - Len(batchCh') = accepted - Len(batchCh) + 1
    BY <1>1, <1>2 DEF historyVars
  <2>2. \A i \in 1..Len(rows) :
          /\ rows[i].serial \in Nat
          /\ rows[i].serial <= accepted - Len(batchCh)
          /\ rows[i].serial <= accepted - Len(batchCh) - Len(batch)
    BY <2>1, SerialsAreNat DEF Order, RowsAreOld
  <2>3. RowsInOrder
    BY DEF Order
  <2>0. /\ accepted \in Nat /\ Len(batchCh) \in Nat /\ Len(batch) \in Nat
        /\ Len(batchCh') = Len(batchCh) - 1 /\ Len(batch') = Len(batch) + 1
        /\ accepted' = accepted
    BY <1>1, <1>2, <2>1
  <2> HIDE DEF StorageInv, TypeOK, Take
  <2>4. RowsAreOld'
    <3>1. ASSUME NEW i \in 1..Len(rows)
          PROVE  /\ rows[i].serial <= accepted' - Len(batchCh')
                 /\ rows[i].serial <= accepted' - Len(batchCh') - Len(batch')
      <4>1. /\ rows[i].serial \in Nat
            /\ rows[i].serial <= accepted - Len(batchCh)
            /\ rows[i].serial <= accepted - Len(batchCh) - Len(batch)
        BY <2>2
      <4>2. QED
        BY <2>0, <4>1
    <3>2. rows' = rows
      BY <2>1
    <3>3. QED
      BY <3>1, <3>2, Zenon DEF RowsAreOld
  <2>5. RowsInOrder'
    BY <2>1, <2>3, Zenon DEF RowsInOrder
  <2>6. QED
    BY <2>4, <2>5
<1>8. Counts'
  <2>1. AcceptedAccounted'
    BY <1>1, <1>2 DEF Counts, AcceptedAccounted, historyVars
  <2>2. WrittenNeverOverstated' /\ ErrorsNeverOvercounted' /\ NobodySawMore'
    BY DEF Counts, WrittenNeverOverstated, ErrorsNeverOvercounted, NobodySawMore,
       historyVars
  <2>3. QED
    BY <2>1, <2>2 DEF Counts
<1>9. QED
  BY <1>4, <1>5, <1>6, <1>7, <1>8 DEF Order

LEMMA MoveKeeps ==
  ASSUME StorageInv, FlushTick \/ WriterStop \/ AcquireOk \/ AcquireFails,
         UNCHANGED <<cancelled, closed>>
  PROVE  StorageInv'
<1> USE DEF StorageInv, TypeOK
<1>1. UNCHANGED <<batchCh, batch, refs, wpc, writeErrors, written, rows,
                  accepted, failed, refused>>
  BY DEF FlushTick, WriterStop, AcquireOk, AcquireFails, historyVars
<1>2. /\ spc' \in {"acquire", "copy", "failAcquire", "exit"}
      /\ safter' \in {"select", "exit"}
      /\ seen' \in [Callers \cup {Writer} -> Nat]
      /\ spc # "failCopy"
  BY DEF FlushTick, WriterStop, AcquireOk, AcquireFails, StartFlush
<1>3. TypeOK'
  BY <1>1, <1>2 DEF WriterPlaces
<1>4. BatchHasRoom' /\ Order'
  BY <1>1, <1>2 DEF BatchHasRoom, Order, SerialsKnown, RowsAreOld, RowsInOrder
<1>5. NobodySawMore'
  BY <1>1 DEF FlushTick, WriterStop, AcquireOk, AcquireFails, Counts,
     NobodySawMore, ErrorsNeverOvercounted
<1>6. Counts'
  BY <1>1, <1>5 DEF Counts, AcceptedAccounted, WrittenNeverOverstated,
     ErrorsNeverOvercounted
<1>7. QED
  BY <1>3, <1>4, <1>6

LEMMA CopyOkKeeps ==
  ASSUME StorageInv, CopyOk, UNCHANGED <<cancelled, closed>>
  PROVE  StorageInv'
<1> USE StorageAssumption DEF StorageInv, TypeOK, CopyOk, EndFlush
<1>1. /\ rows' \in Seq(Item)
      /\ Len(rows') = Len(rows) + Len(batch)
      /\ RowsInOrder'
      /\ \A i \in 1..Len(rows') : rows'[i].serial <= accepted - Len(batchCh)
  BY RowsGrow
<1>2. batch' = <<>> /\ Len(batch') = 0 /\ batch' \in Seq(Item)
  OBVIOUS
<1>3. refs' \in [Measurements -> Int]
  BY UnrefKeepsType
<1>4. UNCHANGED <<batchCh, wpc, seen, writeErrors, safter, accepted, failed, refused>>
  BY DEF historyVars
<1>5. TypeOK'
  BY <1>1, <1>2, <1>3, <1>4 DEF WriterPlaces
<1>6. BatchHasRoom' /\ SerialsKnown'
  BY <1>2, <1>4 DEF BatchHasRoom, Order, SerialsKnown
<1>7. RowsAreOld'
  BY <1>1, <1>2, <1>4, SerialsAreNat DEF RowsAreOld
<1>8. Counts'
  BY <1>1, <1>2, <1>4 DEF Counts, AcceptedAccounted, WrittenNeverOverstated,
     ErrorsNeverOvercounted, NobodySawMore
<1>9. QED
  BY <1>1, <1>5, <1>6, <1>7, <1>8 DEF Order

LEMMA CopyFailsKeeps ==
  ASSUME StorageInv, CopyFails, UNCHANGED <<cancelled, closed>>
  PROVE  StorageInv'
<1> USE DEF StorageInv, TypeOK, CopyFails
<1>1. UNCHANGED <<batchCh, batch, safter, refs, wpc, writeErrors, written,
                  accepted, failed, refused>>
  BY DEF historyVars
<1>2. /\ rows' \in Seq(Item)
      /\ Len(rows') >= Len(rows)
      /\ RowsInOrder'
      /\ \A i \in 1..Len(rows') : rows'[i].serial <= accepted - Len(batchCh)
  <2>1. CASE rows' = rows \o batch
    <3>1. /\ rows' \in Seq(Item) /\ Len(rows') = Len(rows) + Len(batch) /\ RowsInOrder'
          /\ \A i \in 1..Len(rows') : rows'[i].serial <= accepted - Len(batchCh)
      BY <2>1, RowsGrow
    <3>2. Len(rows) \in Nat /\ Len(batch) \in Nat
      OBVIOUS
    <3> HIDE DEF StorageInv, TypeOK, CopyFails
    <3>3. Len(rows') >= Len(rows)
      BY <3>1, <3>2
    <3>4. QED
      BY <3>1, <3>3, Zenon
  <2>2. CASE rows' = rows
    <3>1. RowsInOrder' /\ Len(rows') >= Len(rows) /\ rows' \in Seq(Item)
      <4>1. RowsInOrder /\ Len(rows) \in Nat /\ rows \in Seq(Item)
        BY DEF Order
      <4> HIDE DEF StorageInv, TypeOK, CopyFails
      <4>2. Len(rows') >= Len(rows) /\ rows' \in Seq(Item)
        BY <2>2, <4>1
      <4>3. RowsInOrder'
        BY <2>2, <4>1, Zenon DEF RowsInOrder
      <4>4. QED
        BY <4>2, <4>3
    <3>2. \A i \in 1..Len(rows') : rows'[i].serial <= accepted - Len(batchCh)
      BY <2>2 DEF Order, RowsAreOld
    <3>3. QED
      BY <2>2, <3>1, <3>2
  <2>3. QED
    BY <2>1, <2>2
<1>3. seen' \in [Callers \cup {Writer} -> Nat] /\ spc' = "failCopy"
  OBVIOUS
<1>4. TypeOK'
  BY <1>1, <1>2, <1>3 DEF WriterPlaces
<1>5. BatchHasRoom' /\ SerialsKnown' /\ RowsAreOld'
  <2>1. BatchHasRoom' /\ RowsAreOld'
    BY <1>1, <1>2, <1>3 DEF BatchHasRoom, RowsAreOld
  <2>2. SerialsKnown'
    BY <1>1 DEF Order, SerialsKnown
  <2>3. QED
    BY <2>1, <2>2
<1>6. NobodySawMore'
  BY <1>1 DEF Counts, NobodySawMore, ErrorsNeverOvercounted
<1>7. Counts'
  BY <1>1, <1>2, <1>6 DEF Counts, AcceptedAccounted, WrittenNeverOverstated,
     ErrorsNeverOvercounted
<1>8. QED
  BY <1>2, <1>4, <1>5, <1>7 DEF Order

LEMMA CountFailureKeeps ==
  ASSUME StorageInv, CountFailure, UNCHANGED <<cancelled, closed>>
  PROVE  StorageInv'
<1> USE StorageAssumption DEF StorageInv, TypeOK, CountFailure, EndFlush
<1>1. batch' = <<>> /\ Len(batch') = 0 /\ batch' \in Seq(Item)
  OBVIOUS
<1>2. refs' \in [Measurements -> Int]
  BY UnrefKeepsType
<1>3. seen[Writer] \in Nat /\ seen[Writer] <= refused + failed
  BY DEF Counts, NobodySawMore
<1>4. writeErrors' \in Nat /\ failed' \in Nat /\ failed' = failed + Len(batch)
  BY <1>3
<1>5. TypeOK'
  BY <1>1, <1>2, <1>4 DEF WriterPlaces
<1>6. BatchHasRoom' /\ SerialsKnown'
  BY <1>1 DEF BatchHasRoom, Order, SerialsKnown
<1>7. RowsAreOld' /\ RowsInOrder'
  <2>1. UNCHANGED <<rows, accepted, batchCh>>
    OBVIOUS
  <2>2. accepted - Len(batchCh) - 0 = accepted - Len(batchCh)
    OBVIOUS
  <2>3. RowsAreOld'
    BY <1>1, <2>1, <2>2 DEF Order, RowsAreOld
  <2>4. QED
    BY <2>1, <2>3 DEF Order, RowsInOrder
<1>8. NobodySawMore' /\ ErrorsNeverOvercounted'
  BY <1>3, <1>4 DEF Counts, NobodySawMore, ErrorsNeverOvercounted
<1>9. AcceptedAccounted' /\ WrittenNeverOverstated'
  BY <1>1, <1>4 DEF Counts, AcceptedAccounted, WrittenNeverOverstated
<1>10. QED
  BY <1>5, <1>6, <1>7, <1>8, <1>9 DEF Order, Counts

LEMMA OthersKeep ==
  ASSUME StorageInv, UNCHANGED storageVars,
         cancelled' \subseteq {"storage"}, closed' \subseteq {"batchCh"}
  PROVE  StorageInv'
BY DEF StorageInv, TypeOK, BatchHasRoom, Order, SerialsKnown, RowsAreOld,
   RowsInOrder, Counts, AcceptedAccounted, WrittenNeverOverstated,
   ErrorsNeverOvercounted, NobodySawMore, storageVars, queueVars, historyVars

-----------------------------------------------------------------------------
LEMMA CallKeeps ==
  ASSUME StorageInv, NEW c \in Callers, Call(c)
  PROVE  StorageInv'
<1>1. ASSUME NEW m \in Measurements, Accept(c, m), UNCHANGED <<cancelled, closed>>
      PROVE  StorageInv'
  BY <1>1, AcceptKeeps
<1>2. ASSUME NEW m \in Measurements, RefuseFull(c, m), UNCHANGED <<cancelled, closed>>
      PROVE  StorageInv'
  BY <1>2, RefuseFullKeeps
<1>3. ASSUME NEW m \in Measurements, RefuseCancelled(c, m),
             UNCHANGED <<cancelled, closed>>
      PROVE  StorageInv'
  BY <1>3, OthersKeep DEF RefuseCancelled, StorageInv, TypeOK
<1>4. ASSUME CountRefusal(c), UNCHANGED <<cancelled, closed>>
      PROVE  StorageInv'
  BY <1>4, CountRefusalKeeps
<1>5. QED
  BY <1>1, <1>2, <1>3, <1>4 DEF Call

LEMMA StorageStep == StorageInv /\ [Next]_vars => StorageInv'
<1> SUFFICES ASSUME StorageInv, [Next]_vars PROVE StorageInv'
  OBVIOUS
<1>1. ASSUME NEW c \in Callers, Call(c) PROVE StorageInv'
  BY <1>1, CallKeeps
<1>2. CASE WriterStep
  BY <1>2, TakeKeeps, MoveKeeps, CopyOkKeeps, CopyFailsKeeps, CountFailureKeeps
     DEF WriterStep, BatchWriter
<1>3. CASE CancelStorage \/ CloseBatchCh \/ UNCHANGED vars
  BY <1>3, OthersKeep DEF CancelStorage, CloseBatchCh, vars, StorageInv, TypeOK
<1>4. QED
  BY <1>1, <1>2, <1>3 DEF Next

LEMMA StorageInvariant == Spec => []StorageInv
BY StorageInitial, StorageStep, PTL DEF Spec

-----------------------------------------------------------------------------
(* Type correctness, with the batch never above BatchSize.                 *)
THEOREM StorageTypeCorrect == Spec => []TypeOK
BY StorageInvariant, PTL DEF StorageInv

(* No accepted measurement is forgotten by any path of the flush.          *)
THEOREM StorageAccounts == Spec => []AcceptedAccounted
<1>1. StorageInv => AcceptedAccounted
  BY DEF StorageInv, Counts
<1>2. QED
  BY <1>1, StorageInvariant, PTL

(* The batch and the channel are one first-in first-out queue of the most  *)
(* recently accepted measurements.                                         *)
THEOREM StoragePendingInOrder == Spec => []PendingInOrder
<1>1. StorageInv => PendingInOrder
  <2> SUFFICES ASSUME StorageInv, NEW i \in 1..Len(Pending)
               PROVE  Pending[i].serial = accepted - Len(Pending) + i
    BY DEF PendingInOrder
  <2> USE DEF StorageInv, TypeOK, Pending, Order, SerialsKnown
  <2>1. Len(Pending) = Len(batch) + Len(batchCh)
    OBVIOUS
  <2>2. CASE i <= Len(batch)
    <3>1. i \in 1..Len(batch) /\ Pending[i] = batch[i]
      BY <2>2
    <3>2. QED
      BY <2>1, <3>1
  <2>3. CASE i > Len(batch)
    <3> DEFINE k == i - Len(batch)
    <3>1. k \in 1..Len(batchCh) /\ Pending[i] = batchCh[k]
      BY <2>1, <2>3
    <3>2. QED
      BY <2>1, <3>1
  <2>4. QED
    BY <2>1, <2>2, <2>3
<1>2. QED
  BY <1>1, StorageInvariant, PTL

(* The table receives each measurement at most once, in order.             *)
THEOREM StorageRowsOnce == Spec => []RowsAtMostOnceInOrder
<1>1. StorageInv => RowsAtMostOnceInOrder
  <2> SUFFICES ASSUME StorageInv PROVE RowsAtMostOnceInOrder
    OBVIOUS
  <2>1. DOMAIN rows = 1..Len(rows)
    BY DEF StorageInv, TypeOK
  <2>2. QED
    BY <2>1 DEF StorageInv, Order, RowsInOrder, RowsAtMostOnceInOrder
<1>2. QED
  BY <1>1, StorageInvariant, PTL

(* MeasurementsWritten never claims more than the table holds, and the     *)
(* unsynchronised error counter can lose updates, never invent them.       *)
THEOREM StorageCountersHonest == Spec => []CountersHonest
<1>1. StorageInv => CountersHonest
  BY DEF StorageInv, Counts, CountersHonest
<1>2. QED
  BY <1>1, StorageInvariant, PTL

-----------------------------------------------------------------------------
(* How many items of a queue hold a measurement: the counts of two parts   *)
(* of a queue add up, and a new item counts once, if at all.               *)
LEMMA HoldingOfParts ==
  ASSUME NEW p \in Seq(Item), NEW q \in Seq(Item), NEW m
  PROVE  Holding(p \o q, m) = Holding(p, m) + Holding(q, m)
<1> DEFINE A == {i \in 1..Len(p) : p[i].m = m}
           B == {i \in 1..Len(q) : q[i].m = m}
           C == {i \in 1..(Len(p) + Len(q)) : (p \o q)[i].m = m}
           D == {i \in C : i > Len(p)}
           f == [i \in B |-> i + Len(p)]
<1>1. /\ Len(p) \in Nat /\ Len(q) \in Nat
      /\ DOMAIN p = 1..Len(p) /\ DOMAIN q = 1..Len(q)
      /\ DOMAIN (p \o q) = 1..(Len(p) + Len(q))
      /\ \A i \in 1..Len(p) : (p \o q)[i] = p[i]
      /\ \A i \in 1..Len(q) : (p \o q)[i + Len(p)] = q[i]
  OBVIOUS
<1>2. /\ Holding(p, m) = Cardinality(A) /\ Holding(q, m) = Cardinality(B)
      /\ Holding(p \o q, m) = Cardinality(C)
  BY <1>1, Zenon DEF Holding
<1>3. C = A \cup D
  <2>1. ASSUME NEW i \in 1..(Len(p) + Len(q))
        PROVE  i \in C <=> i \in A \cup D
    <3>1. CASE i <= Len(p)
      <4>1. i \in 1..Len(p) /\ (p \o q)[i] = p[i] /\ ~(i > Len(p))
        BY <1>1, <3>1
      <4>. QED  BY <4>1
    <3>2. CASE i > Len(p)
      <4>1. i \notin 1..Len(p)
        BY <1>1, <3>2
      <4>. QED  BY <4>1, <3>2
    <3>. QED  BY <1>1, <3>1, <3>2
  <2>2. A \cup D \subseteq 1..(Len(p) + Len(q)) /\ C \subseteq 1..(Len(p) + Len(q))
    BY <1>1
  <2>. QED  BY <2>1, <2>2, Zenon
<1>4. A \cap D = {}
  BY <1>1
<1>5. f \in Bijection(B, D)
  <2>1. ASSUME NEW i \in B PROVE f[i] \in D
    BY <1>1
  <2>2. ASSUME NEW d \in D PROVE \E i \in B : f[i] = d
    <3>1. d - Len(p) \in 1..Len(q) /\ (d - Len(p)) + Len(p) = d
      BY <1>1
    <3>2. (p \o q)[d] = q[d - Len(p)]
      BY <1>1, <3>1, Zenon
    <3>3. d - Len(p) \in B
      BY <3>1, <3>2
    <3>. QED  BY <3>1, <3>3
  <2>3. \A i, j \in B : f[i] = f[j] => i = j
    BY <1>1
  <2>4. f \in [B -> D]
    BY <2>1
  <2>. HIDE DEF B, D, f
  <2>. QED
    BY <2>2, <2>3, <2>4, Fun_IsBij
<1>6. IsFiniteSet(A) /\ IsFiniteSet(B)
  <2>1. A \subseteq 1..Len(p) /\ B \subseteq 1..Len(q)
    OBVIOUS
  <2>2. IsFiniteSet(1..Len(p)) /\ IsFiniteSet(1..Len(q))
    BY <1>1, FS_Interval
  <2>. HIDE DEF A, B
  <2>. QED
    BY <2>1, <2>2, FS_Subset
<1>7. IsFiniteSet(D) /\ Cardinality(D) = Cardinality(B)
  <2>. HIDE DEF B, D, f
  <2>1. ExistsBijection(B, D)
    BY <1>5 DEF ExistsBijection
  <2>. QED
    BY <1>6, <2>1, FS_Bijection
<1>8. /\ Cardinality(A) \in Nat /\ Cardinality(D) \in Nat
      /\ Cardinality(A \cap D) = 0
      /\ Cardinality(A \cup D) = Cardinality(A) + Cardinality(D) - Cardinality(A \cap D)
  <2>. HIDE DEF A, D
  <2>. QED
    BY <1>4, <1>6, <1>7, FS_CardinalityType, FS_EmptySet, FS_Union
<1>. HIDE DEF A, B, C, D, f
<1>. QED
  BY <1>2, <1>3, <1>7, <1>8

LEMMA HoldingOfOne ==
  ASSUME NEW x \in Item, NEW m
  PROVE  Holding(<<x>>, m) = IF x.m = m THEN 1 ELSE 0
<1>1. {i \in DOMAIN <<x>> : <<x>>[i].m = m} = IF x.m = m THEN {1} ELSE {}
  OBVIOUS
<1>2. Cardinality({1}) = 1 /\ Cardinality({}) = 0
  BY FS_Singleton, FS_EmptySet
<1>. QED
  BY <1>1, <1>2, Zenon DEF Holding

(* What is pending is referenced, after a step of the writer: taking an    *)
(* item from the channel changes nothing of what is pending, and a flush   *)
(* gives back one reference for each item it lets go.                      *)
LEMMA FlushedAreReleased ==
  ASSUME TypeOK, PendingIsReferenced, batch' = <<>>, UNCHANGED batchCh,
         UnrefBatch \/ UNCHANGED refs
  PROVE  PendingIsReferenced'
<1>. SUFFICES ASSUME NEW m \in Measurements
              PROVE  refs'[m] >= 1 + Holding(Pending', m)
  BY DEF PendingIsReferenced
<1>1. Holding(Pending, m) = Holding(batch, m) + Holding(batchCh, m)
  BY HoldingOfParts DEF TypeOK, Pending
<1>2. Pending' = batchCh
  BY DEF TypeOK, Pending
<1>3. Holding(batch, m) \in Nat /\ Holding(batchCh, m) \in Nat /\ refs[m] \in Int
  BY HoldingIsNat DEF TypeOK
<1>4. refs[m] >= 1 + Holding(Pending, m)
  BY DEF PendingIsReferenced
<1>5. refs'[m] = refs[m] - Holding(batch, m) \/ refs'[m] = refs[m]
  BY DEF UnrefBatch
<1>. QED
  BY <1>1, <1>2, <1>3, <1>4, <1>5

LEMMA AcceptedAreReferenced ==
  ASSUME TypeOK, PendingIsReferenced,
         NEW c \in Callers, NEW n \in Measurements, Accept(c, n)
  PROVE  PendingIsReferenced'
<1>. DEFINE x == [m |-> n, serial |-> accepted + 1]
<1>1. x \in Item /\ x.m = n
  BY DEF TypeOK, Item
<1>2. Pending' = Pending \o <<x>> /\ Pending \in Seq(Item)
  <2>1. batchCh' = Append(batchCh, x) /\ UNCHANGED batch
    BY DEF Accept
  <2>. HIDE DEF x
  <2>. QED
    BY <1>1, <2>1 DEF TypeOK, Pending
<1>. SUFFICES ASSUME NEW m \in Measurements
              PROVE  refs'[m] >= 1 + Holding(Pending', m)
  BY DEF PendingIsReferenced
<1>3. Holding(<<x>>, m) = IF n = m THEN 1 ELSE 0
  BY <1>1, HoldingOfOne, Zenon
<1>4. Holding(Pending', m) = Holding(Pending, m) + Holding(<<x>>, m)
  <2>1. <<x>> \in Seq(Item)
    BY <1>1
  <2>. HIDE DEF x
  <2>. QED
    BY <1>2, <2>1, HoldingOfParts
<1>5. refs'[m] = IF n = m THEN refs[m] + 1 ELSE refs[m]
  BY DEF Accept, TypeOK
<1>6. refs[m] >= 1 + Holding(Pending, m) /\ refs[m] \in Int
      /\ Holding(Pending, m) \in Nat
  BY <1>2, HoldingIsNat DEF PendingIsReferenced, TypeOK
<1>. HIDE DEF x
<1>. QED
  BY <1>3, <1>4, <1>5, <1>6

LEMMA TakenStayReferenced ==
  ASSUME TypeOK, PendingIsReferenced, Take
  PROVE  PendingIsReferenced'
<1>1. Pending' = Pending
  <2>1. batchCh \in Seq(Item) /\ batchCh # <<>> /\ batch \in Seq(Item)
    BY DEF Take, TypeOK
  <2>2. batch' = Append(batch, Head(batchCh)) /\ batchCh' = Tail(batchCh)
    BY DEF Take
  <2>. QED
    BY <2>1, <2>2 DEF Pending
<1>2. UNCHANGED refs
  BY DEF Take
<1>. QED
  BY <1>1, <1>2 DEF PendingIsReferenced

(* A measurement that waits for its flush is referenced, whoever else has  *)
(* queued it and however its flush ends: its RawData is not cleared before *)
(* it is copied.                                                           *)
THEOREM StoragePendingReferenced == Spec => []PendingIsReferenced
<1>1. Init => PendingIsReferenced
  <2>. SUFFICES ASSUME Init, NEW m \in Measurements
                PROVE  refs[m] >= 1 + Holding(Pending, m)
    BY DEF PendingIsReferenced
  <2>1. Pending = <<>> /\ refs[m] = 1
    BY DEF Init, StorageInit, Pending
  <2>2. {i \in DOMAIN <<>> : <<>>[i].m = m} = {}
    OBVIOUS
  <2>3. Holding(<<>>, m) = 0
    BY <2>2, FS_EmptySet, Zenon DEF Holding
  <2>. QED
    BY <2>1, <2>3
<1>2. TypeOK /\ PendingIsReferenced /\ [Next]_vars => PendingIsReferenced'
  <2>. SUFFICES ASSUME TypeOK, PendingIsReferenced, [Next]_vars
                PROVE  PendingIsReferenced'
    OBVIOUS
  <2>1. ASSUME UNCHANGED <<batch, batchCh, refs>> PROVE PendingIsReferenced'
    BY <2>1 DEF PendingIsReferenced, Pending
  <2>2. ASSUME NEW c \in Callers, Call(c) PROVE PendingIsReferenced'
    BY <2>1, <2>2, AcceptedAreReferenced
       DEF Call, RefuseCancelled, RefuseFull, CountRefusal, storageVars,
                          queueVars
  <2>3. CASE WriterStep
    <3>1. CASE CopyOk \/ CountFailure
      BY <3>1, FlushedAreReleased DEF CopyOk, CountFailure, EndFlush
    <3>2. CASE FlushTick \/ WriterStop \/ AcquireOk \/ AcquireFails \/ CopyFails
      BY <2>1, <3>2 DEF FlushTick, WriterStop, AcquireOk, AcquireFails, CopyFails
    <3>. QED
      BY <2>3, <3>1, <3>2, TakenStayReferenced DEF WriterStep, BatchWriter
  <2>4. CASE CancelStorage \/ CloseBatchCh \/ UNCHANGED vars
    BY <2>1, <2>4 DEF CancelStorage, CloseBatchCh, vars, storageVars, queueVars
  <2>. QED
    BY <2>2, <2>3, <2>4 DEF Next
<1>. QED
  BY <1>1, <1>2, StorageTypeCorrect, PTL DEF Spec
-----------------------------------------------------------------------------
(* The refinement of the journal: accepting a measurement enqueues it, the *)
(* outcome of a copy (or of the connection it needed) settles the batch,   *)
(* and every other step leaves the journal alone.  Besides StorageInv the  *)
(* simulation needs that no flush has an empty batch, because the journal  *)
(* never settles nothing.                                                  *)
FlushHasItems ==
  spc \in {"acquire", "copy", "failAcquire", "failCopy"} => batch # <<>>

queue == SerialsOf(Waiting)
log == SerialsOf(rows)
Stutters == UNCHANGED <<queue, log, accepted>>

(* The serial numbers of parts of a queue of items.                        *)
LEMMA SerialsShape ==
  ASSUME NEW q \in Seq(Item)
  PROVE  /\ SerialsOf(q) \in Seq(Nat)
         /\ Len(SerialsOf(q)) = Len(q)
         /\ \A i \in 1..Len(q) : SerialsOf(q)[i] = q[i].serial
<1>1. \A i \in 1..Len(q) : q[i].serial \in Nat
  BY SerialsAreNat
<1>2. Len(q) \in Nat
  OBVIOUS
<1>3. SerialsOf(q) \in [1..Len(q) -> Nat]
  BY <1>1 DEF SerialsOf
<1>. QED
  BY <1>2, <1>3 DEF SerialsOf

LEMMA SerialsOfConcat ==
  ASSUME NEW q \in Seq(Item), NEW r \in Seq(Item)
  PROVE  SerialsOf(q \o r) = SerialsOf(q) \o SerialsOf(r)
<1>. DEFINE s == SerialsOf(q)
            t == SerialsOf(r)
            u == SerialsOf(q \o r)
<1>1. /\ q \o r \in Seq(Item)
      /\ Len(q \o r) = Len(q) + Len(r)
      /\ \A i \in 1..(Len(q) + Len(r)) :
           (q \o r)[i] = IF i <= Len(q) THEN q[i] ELSE r[i - Len(q)]
  OBVIOUS
<1>2. /\ s \in Seq(Nat) /\ Len(s) = Len(q) /\ \A i \in 1..Len(q) : s[i] = q[i].serial
      /\ t \in Seq(Nat) /\ Len(t) = Len(r) /\ \A i \in 1..Len(r) : t[i] = r[i].serial
  BY SerialsShape
<1>3. /\ u \in Seq(Nat) /\ Len(u) = Len(q) + Len(r)
      /\ \A i \in 1..(Len(q) + Len(r)) : u[i] = (q \o r)[i].serial
  BY <1>1, SerialsShape
<1>4. Len(q) \in Nat /\ Len(r) \in Nat
  OBVIOUS
<1>. HIDE DEF s, t, u
<1>5. /\ s \o t \in Seq(Nat) /\ Len(s \o t) = Len(q) + Len(r)
      /\ \A i \in 1..(Len(q) + Len(r)) :
           (s \o t)[i] = IF i <= Len(q) THEN s[i] ELSE t[i - Len(q)]
  <2>1. s \in Seq(Nat) /\ t \in Seq(Nat) /\ Len(s) = Len(q) /\ Len(t) = Len(r)
    BY <1>2
  <2>2. /\ s \o t \in Seq(Nat) /\ Len(s \o t) = Len(s) + Len(t)
        /\ \A i \in 1..(Len(s) + Len(t)) :
             (s \o t)[i] = IF i <= Len(s) THEN s[i] ELSE t[i - Len(s)]
    BY <2>1, ConcatProperties, Zenon
  <2>. QED
    BY <2>1, <2>2, Zenon
<1>6. ASSUME NEW i \in 1..(Len(q) + Len(r)) PROVE u[i] = (s \o t)[i]
  <2>1. CASE i <= Len(q)
    <3>1. i \in 1..Len(q)
      BY <1>4, <2>1
    <3>. QED
      BY <1>1, <1>2, <1>3, <1>5, <2>1, <3>1
  <2>2. CASE ~(i <= Len(q))
    <3>1. i - Len(q) \in 1..Len(r)
      BY <1>4, <2>2
    <3>. QED
      BY <1>1, <1>2, <1>3, <1>5, <2>2, <3>1
  <2>. QED
    BY <2>1, <2>2
<1>7. u = s \o t
  BY <1>3, <1>5, <1>6, SeqEqual
<1>. QED
  BY <1>7 DEF s, t, u

(* Cutting a sequence of numbers where it was joined.                      *)
LEMMA CutWhereJoined ==
  ASSUME NEW s \in Seq(Nat), NEW t \in Seq(Nat)
  PROVE  /\ SubSeq(s \o t, 1, Len(s)) = s
         /\ SubSeq(s \o t, Len(s) + 1, Len(s \o t)) = t
OBVIOUS

(* One item more in the queue.                                             *)
LEMMA SerialsOfAppend ==
  ASSUME NEW q \in Seq(Item), NEW x \in Item
  PROVE  SerialsOf(Append(q, x)) = Append(SerialsOf(q), x.serial)
<1>1. x.serial \in Nat
  BY DEF Item
<1>. DEFINE one == <<x>>
            num == <<x.serial>>
<1>2. one \in Seq(Item) /\ Len(one) = 1 /\ one[1] = x
  OBVIOUS
<1>3. num \in Seq(Nat) /\ Len(num) = 1 /\ num[1] = x.serial
  BY <1>1
<1>4. Append(q, x) = q \o one
  BY AppendIsConcat
<1>5. SerialsOf(q) \in Seq(Nat)
  BY SerialsShape
<1>6. Append(SerialsOf(q), x.serial) = SerialsOf(q) \o num
  BY <1>1, <1>5, AppendIsConcat
<1>. HIDE DEF one, num
<1>7. SerialsOf(one) = num
  <2>1. /\ SerialsOf(one) \in Seq(Nat) /\ Len(SerialsOf(one)) = 1
        /\ SerialsOf(one)[1] = x.serial
    BY <1>2, SerialsShape
  <2>2. \A i \in 1..1 : SerialsOf(one)[i] = num[i]
    BY <1>3, <2>1
  <2>. QED
    BY <1>3, <2>1, <2>2, SeqEqual
<1>8. SerialsOf(q \o one) = SerialsOf(q) \o SerialsOf(one)
  BY <1>2, SerialsOfConcat
<1>. QED
  BY <1>4, <1>6, <1>7, <1>8

-----------------------------------------------------------------------------
LEMMA FlushHasItemsStep ==
  ASSUME TypeOK, FlushHasItems, [Next]_vars
  PROVE  FlushHasItems'
<1>1. CASE Take
  <2>1. batch' # <<>>
    BY <1>1 DEF Take, TypeOK
  <2>. QED
    BY <2>1 DEF FlushHasItems
<1>2. CASE FlushTick \/ WriterStop \/ AcquireOk \/ AcquireFails \/ CopyFails
  BY <1>2 DEF FlushTick, WriterStop, AcquireOk, AcquireFails, CopyFails, StartFlush,
              FlushHasItems
<1>3. CASE CopyOk \/ CountFailure
  BY <1>3 DEF CopyOk, CountFailure, EndFlush, TypeOK, FlushHasItems
<1>4. CASE UNCHANGED <<spc, batch>>
  BY <1>4 DEF FlushHasItems
<1>. QED
  BY <1>1, <1>2, <1>3, <1>4
     DEF Next, Call, Accept, RefuseCancelled, RefuseFull, CountRefusal, WriterStep,
         BatchWriter, CancelStorage, CloseBatchCh, vars, storageVars, queueVars

-----------------------------------------------------------------------------
(* The steps that the journal does not see.                                *)
LEMMA TakeStutters ==
  ASSUME TypeOK, Take
  PROVE  Stutters
<1>1. batch \in Seq(Item) /\ batchCh \in Seq(Item) /\ batchCh # <<>>
  BY DEF TypeOK, Take
<1>2. Append(batch, Head(batchCh)) \o Tail(batchCh) = batch \o batchCh
  BY <1>1
<1>3. spc' \in {"select", "acquire"} /\ spc = "select"
  BY DEF Take, StartFlush
<1>4. Waiting' = Waiting
  BY <1>2, <1>3 DEF Take, Waiting, Pending
<1>. QED
  BY <1>4 DEF Take, Stutters, queue, log, SerialsOf, historyVars

LEMMA MoveStutters ==
  ASSUME FlushTick \/ WriterStop \/ AcquireOk
  PROVE  Stutters
<1>1. /\ UNCHANGED <<batch, batchCh, rows, accepted>>
      /\ spc \notin {"failAcquire", "failCopy"} /\ spc' \notin {"failAcquire", "failCopy"}
  BY DEF FlushTick, WriterStop, AcquireOk, StartFlush, historyVars
<1>2. Waiting' = Waiting
  BY <1>1 DEF Waiting, Pending
<1>. QED
  BY <1>1, <1>2 DEF Stutters, queue, log, SerialsOf

LEMMA CountFailureStutters ==
  ASSUME TypeOK, CountFailure
  PROVE  Stutters
<1>1. /\ UNCHANGED <<batchCh, rows, accepted>> /\ batch' = <<>>
      /\ spc \in {"failAcquire", "failCopy"} /\ spc' \in {"select", "exit"}
  BY DEF CountFailure, EndFlush, TypeOK
<1>2. <<>> \o batchCh = batchCh
  BY ConcatEmptySeq DEF TypeOK
<1>3. Waiting' = Waiting
  BY <1>1, <1>2 DEF Waiting, Pending
<1>. QED
  BY <1>1, <1>3 DEF Stutters, queue, log, SerialsOf

LEMMA OthersStutter ==
  ASSUME UNCHANGED <<batch, batchCh, spc, rows, accepted>>
  PROVE  Stutters
BY DEF Stutters, queue, log, Waiting, Pending, SerialsOf

-----------------------------------------------------------------------------
(* The steps that are the journal's.                                       *)
LEMMA AcceptEnqueues ==
  ASSUME TypeOK, NEW c \in Callers, NEW m \in Measurements, Accept(c, m)
  PROVE  J!Enqueue
<1>. DEFINE item == [m |-> m, serial |-> accepted + 1]
<1>1. /\ batch \in Seq(Item) /\ batchCh \in Seq(Item) /\ item \in Item
      /\ item.serial = accepted + 1
      /\ Len(batch) <= BatchSize /\ Len(batchCh) < 2 * BatchSize
  BY DEF TypeOK, Accept, Item, BatchChCap
<1>2. Waiting \in Seq(Item) /\ Len(Waiting) < 3 * BatchSize
  BY <1>1, StorageAssumption DEF Waiting, Pending
<1>3. Waiting' = Append(Waiting, item)
  BY <1>1 DEF Accept, Waiting, Pending
<1>4. queue' = Append(queue, accepted + 1)
  <2>1. queue' = SerialsOf(Append(Waiting, item))
    BY <1>3 DEF queue, SerialsOf
  <2>. QED
    BY <1>1, <1>2, <2>1, SerialsOfAppend DEF queue
<1>5. Len(queue) = Len(Waiting)
  BY <1>2, SerialsShape DEF queue
<1>. QED
  BY <1>2, <1>4, <1>5 DEF Accept, J!Enqueue, queue, log, SerialsOf

(* While a copy may still succeed the batch is the front of the queue.     *)
LEMMA BatchInFront ==
  ASSUME TypeOK, FlushHasItems, spc \in {"acquire", "copy"}
  PROVE  /\ SerialsOf(batch) \in Seq(Nat) /\ SerialsOf(batchCh) \in Seq(Nat)
         /\ Len(batch) \in 1..BatchSize
         /\ Len(batch) <= Len(queue)
         /\ SubSeq(queue, 1, Len(batch)) = SerialsOf(batch)
         /\ SubSeq(queue, Len(batch) + 1, Len(queue)) = SerialsOf(batchCh)
<1>1. /\ batch \in Seq(Item) /\ batchCh \in Seq(Item)
      /\ batch # <<>> /\ Len(batch) <= BatchSize
  BY DEF TypeOK, FlushHasItems
<1>2. /\ SerialsOf(batch) \in Seq(Nat) /\ Len(SerialsOf(batch)) = Len(batch)
      /\ SerialsOf(batchCh) \in Seq(Nat) /\ Len(SerialsOf(batchCh)) = Len(batchCh)
  BY <1>1, SerialsShape
<1>3. queue = SerialsOf(batch) \o SerialsOf(batchCh)
  <2>1. Waiting = batch \o batchCh
    BY DEF Waiting, Pending
  <2>. QED
    BY <1>1, <2>1, SerialsOfConcat DEF queue
<1>4. Len(batch) \in 1..BatchSize
  BY <1>1, StorageAssumption
<1>5. Len(queue) = Len(batch) + Len(batchCh)
  <2>1. Len(queue) = Len(SerialsOf(batch)) + Len(SerialsOf(batchCh))
    BY <1>2, <1>3, ConcatProperties
  <2>. QED
    BY <1>2, <2>1
<1>6. Len(batch) <= Len(queue)
  BY <1>1, <1>5
<1>7. /\ SubSeq(queue, 1, Len(batch)) = SerialsOf(batch)
      /\ SubSeq(queue, Len(batch) + 1, Len(queue)) = SerialsOf(batchCh)
  BY <1>2, <1>3, CutWhereJoined
<1>. QED
  BY <1>2, <1>4, <1>6, <1>7

LEMMA OutcomeSettles ==
  ASSUME TypeOK, FlushHasItems, AcquireFails \/ CopyOk \/ CopyFails
  PROVE  J!JournalNext
<1>1. /\ spc \in {"acquire", "copy"} /\ UNCHANGED <<batchCh, accepted>>
      /\ rows' = rows \o batch \/ rows' = rows
      /\ \/ batch' = <<>> /\ spc' \in {"select", "exit"}
         \/ spc' \in {"failAcquire", "failCopy"}
  BY DEF AcquireFails, CopyOk, CopyFails, EndFlush, TypeOK, historyVars
<1>2. Waiting' = batchCh
  <2>1. <<>> \o batchCh = batchCh
    BY ConcatEmptySeq DEF TypeOK
  <2>. QED
    BY <1>1, <2>1 DEF Waiting, Pending
<1>3. queue' = SubSeq(queue, Len(batch) + 1, Len(queue))
  BY <1>1, <1>2, BatchInFront DEF queue, SerialsOf
<1>4. log' = log \o SubSeq(queue, 1, Len(batch)) \/ log' = log
  <2>1. CASE rows' = rows \o batch
    <3>1. log' = SerialsOf(rows \o batch)
      BY <2>1 DEF log, SerialsOf
    <3>2. log' = log \o SerialsOf(batch)
      BY <3>1, SerialsOfConcat DEF log, TypeOK
    <3>. QED
      BY <1>1, <3>2, BatchInFront
  <2>2. CASE rows' = rows
    BY <2>2 DEF log, SerialsOf
  <2>. QED
    BY <1>1, <2>1, <2>2
<1>5. Len(batch) \in 1..BatchSize /\ Len(batch) <= Len(queue)
  BY <1>1, BatchInFront
<1>6. J!Settle(Len(batch))
  BY <1>1, <1>3, <1>4 DEF J!Settle, queue, log
<1>. QED
  BY <1>5, <1>6 DEF J!JournalNext, queue

-----------------------------------------------------------------------------
(* Every behaviour of the storage is one of the journal: the rows of the   *)
(* table are the journal's log, whatever the database answers and whenever *)
(* Close comes.                                                            *)
THEOREM StorageImplementsJournal == Spec => ImplementsJournal
<1>1. Init => FlushHasItems
  BY DEF Init, StorageInit, FlushHasItems
<1>2. Spec => []FlushHasItems
  BY <1>1, FlushHasItemsStep, StorageTypeCorrect, PTL DEF Spec
<1>3. Init => J!JournalInit
  <2>. SUFFICES ASSUME Init PROVE J!JournalInit
    OBVIOUS
  <2>1. Waiting = <<>> /\ rows = <<>> /\ accepted = 0
    BY DEF Init, StorageInit, Waiting, Pending
  <2>2. SerialsOf(<<>>) = <<>>
    BY DEF SerialsOf
  <2>. QED
    BY <2>1, <2>2 DEF J!JournalInit
<1>4. TypeOK /\ FlushHasItems /\ [Next]_vars => [J!JournalNext]_(J!journalVars)
  <2>. SUFFICES ASSUME TypeOK, FlushHasItems, [Next]_vars
       PROVE  Stutters \/ J!JournalNext
    BY DEF Stutters, J!journalVars, queue, log
  <2>1. ASSUME NEW c \in Callers, Call(c) PROVE Stutters \/ J!JournalNext
    <3>1. ASSUME NEW m \in Measurements, Accept(c, m) PROVE J!JournalNext
      BY <3>1, AcceptEnqueues DEF J!JournalNext
    <3>2. CASE \E m \in Measurements : RefuseCancelled(c, m) \/ RefuseFull(c, m)
      BY <3>2, OthersStutter
         DEF RefuseCancelled, RefuseFull, storageVars, queueVars, historyVars
    <3>3. CASE CountRefusal(c)
      BY <3>3, OthersStutter DEF CountRefusal
    <3>. QED
      BY <2>1, <3>1, <3>2, <3>3 DEF Call
  <2>2. CASE WriterStep
    BY <2>2, TakeStutters, MoveStutters, CountFailureStutters, OutcomeSettles
       DEF WriterStep, BatchWriter
  <2>3. CASE CancelStorage \/ CloseBatchCh \/ UNCHANGED vars
    BY <2>3, OthersStutter
       DEF CancelStorage, CloseBatchCh, vars, storageVars, queueVars, historyVars
  <2>. QED
    BY <2>1, <2>2, <2>3 DEF Next
<1>. QED
  BY <1>2, <1>3, <1>4, StorageTypeCorrect, PTL
     DEF Spec, ImplementsJournal, J!JournalSpec

-----------------------------------------------------------------------------
(* Once Close has cancelled the context no copy begins any more, because   *)
(* the connection for it is acquired with that context; the table changes  *)
(* only in a copy.                                                         *)
Lost(n) == "storage" \in cancelled /\ spc # "copy" /\ ~InRows(n)

LEMMA LostStaysLost ==
  ASSUME TypeOK, [Next]_vars, NEW n, Lost(n)
  PROVE  Lost(n)'
<1>1. ASSUME rows' = rows, cancelled \subseteq cancelled', spc' # "copy"
      PROVE  Lost(n)'
  BY <1>1 DEF Lost, InRows
<1>2. spc # "copy" /\ "storage" \in cancelled
  BY DEF Lost
<1>3. CASE \E c \in Callers : Call(c)
  BY <1>1, <1>2, <1>3 DEF Call, Accept, RefuseCancelled, RefuseFull, CountRefusal, storageVars,
                          queueVars
<1>4. CASE WriterStep
  <2>1. CASE Take \/ FlushTick \/ WriterStop
    BY <1>1, <1>2, <1>4, <2>1 DEF WriterStep, Take, FlushTick, WriterStop, StartFlush
  <2>2. CASE AcquireFails \/ CountFailure
    BY <1>1, <1>2, <1>4, <2>2 DEF WriterStep, AcquireFails, CountFailure, EndFlush, TypeOK
  <2>3. ~AcquireOk /\ ~CopyOk /\ ~CopyFails
    BY <1>2 DEF AcquireOk, CopyOk, CopyFails
  <2>. QED
    BY <1>4, <2>1, <2>2, <2>3 DEF WriterStep, BatchWriter
<1>5. CASE CancelStorage \/ CloseBatchCh
  BY <1>1, <1>2, <1>5 DEF CancelStorage, CloseBatchCh, storageVars, queueVars
<1>6. CASE UNCHANGED vars
  BY <1>1, <1>2, <1>6 DEF vars, storageVars, queueVars
<1>. QED
  BY <1>3, <1>4, <1>5, <1>6 DEF Next

(* What is not in the table when Close has cancelled and no copy is under  *)
(* way never gets there, although the writer makes a last flush on its way *)
(* out: for any callers, batch size and database.                          *)
THEOREM StorageCloseLoses == Spec => CloseLosesPending
<1>. SUFFICES ASSUME NEW n \in Serials
              PROVE  Spec => []("storage" \in cancelled /\ spc # "copy" /\ ~InRows(n) => []~InRows(n))
  BY DEF CloseLosesPending
<1>1. Lost(n) <=> "storage" \in cancelled /\ spc # "copy" /\ ~InRows(n)
  BY DEF Lost
<1>2. TypeOK /\ [Next]_vars /\ Lost(n) => Lost(n)'
  BY LostStaysLost
<1>. QED
  BY <1>1, <1>2, StorageTypeCorrect, PTL DEF Spec
=============================================================================
