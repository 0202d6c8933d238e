------------------------------ MODULE Storage ------------------------------
(***************************************************************************)
(* The TimescaleDB writer: callers of WriteMeasurement queue measurements  *)
(* in batchCh without ever blocking, one goroutine (batchWriter) moves     *)
(* them to a batch and copies whole batches to the database, when the      *)
(* batch is full, when the ticker fires, and once more when it stops.      *)
(*                                                                         *)
(* A queued measurement carries the serial number of its acceptance, which *)
(* is history: the properties read it, no action does.  The columns of a   *)
(* row are abstracted to the item itself.  stats.WriteErrors is updated by *)
(* callers and batchWriter without a lock, so its increment is a read and  *)
(* a write.  The database is external: a connection may be refused, a copy *)
(* applies all its rows or none, and its answer may be lost.               *)
(***************************************************************************)
EXTENDS Integers, Sequences, FiniteSets

CONSTANTS
  Callers,        \* goroutines that call WriteMeasurement
  Measurements,   \* the measurements they pass
  BatchSize,      \* cfg.BatchSize; batchCh holds twice as many
  MaxCalls        \* bound: calls made with one measurement

ASSUME StorageAssumption ==
  /\ BatchSize \in Nat \ {0}
  /\ MaxCalls \in Nat

BatchChCap == 2 * BatchSize

VARIABLES
  batchCh,      \* accepted and not yet received by batchWriter
  batch,        \* s.batch
  spc,          \* where batchWriter is
  safter,       \* where it goes after the flush under way
  refs,         \* refCount of each measurement
  wpc,          \* each caller: "idle", or "counting" a refusal
  seen,         \* WriteErrors as last read by each caller and by batchWriter
  writeErrors,  \* stats.WriteErrors
  written,      \* stats.MeasurementsWritten
  rows,         \* the hypertable (external)
  accepted,     \* history: calls accepted
  failed,       \* history: accepted measurements a flush gave up
  refused,      \* history: calls refused with "write buffer full"
  calls,        \* calls made with each measurement (environment)
  cancelled,    \* components whose context is cancelled
  closed        \* channels that are closed

queueVars   == <<batchCh, batch, spc, safter, refs, wpc, seen, writeErrors,
                 written, rows>>
historyVars == <<accepted, failed, refused>>
storageVars == <<queueVars, historyVars>>
vars        == <<storageVars, calls, cancelled, closed>>

Item == [m : Measurements, serial : Nat]
WriterPlaces == {"select", "acquire", "copy", "failAcquire", "failCopy", "exit"}
Writer == "batchWriter"

-----------------------------------------------------------------------------
(* WriteMeasurement: take a reference, then one of the select's cases.     *)
(* The default case is taken only when the queue is full and the context   *)
(* alive; it gives the reference back and counts an error.                 *)
AcceptUnreferenced(c, m) ==  \* mutant: no Ref
  /\ wpc[c] = "idle"
  /\ Len(batchCh) < BatchChCap
  /\ batchCh' = Append(batchCh, [m |-> m, serial |-> accepted + 1])
  /\ accepted' = accepted + 1
  /\ UNCHANGED <<batch, spc, safter, refs, wpc, seen, writeErrors, written, rows,
                 failed, refused>>

Accept(c, m) ==
  /\ wpc[c] = "idle"
  /\ Len(batchCh) < BatchChCap
  /\ batchCh' = Append(batchCh, [m |-> m, serial |-> accepted + 1])
  /\ refs' = [refs EXCEPT ![m] = @ + 1]
  /\ accepted' = accepted + 1
  /\ UNCHANGED <<batch, spc, safter, wpc, seen, writeErrors, written, rows,
                 failed, refused>>

RefuseCancelled(c, m) ==
  /\ wpc[c] = "idle"
  /\ "storage" \in cancelled
  /\ UNCHANGED storageVars

RefuseFull(c, m) ==
  /\ wpc[c] = "idle"
  /\ Len(batchCh) >= BatchChCap
  /\ "storage" \notin cancelled
  /\ wpc' = [wpc EXCEPT ![c] = "counting"]
  /\ seen' = [seen EXCEPT ![c] = writeErrors]
  /\ UNCHANGED <<batchCh, batch, spc, safter, refs, writeErrors, written, rows,
                 historyVars>>

CountRefusal(c) ==
  /\ wpc[c] = "counting"
  /\ wpc' = [wpc EXCEPT ![c] = "idle"]
  /\ writeErrors' = seen[c] + 1
  /\ refused' = refused + 1
  /\ UNCHANGED <<batchCh, batch, spc, safter, refs, seen, written, rows,
                 accepted, failed>>

-----------------------------------------------------------------------------
(* batchWriter.  flushBatchLocked returns at once on an empty batch, so a  *)
(* tick with an empty batch changes nothing and is not a step.             *)
StartFlush(after) == spc' = "acquire" /\ safter' = after

TakeLosesLast ==  \* mutant: the flush comes before the append and replaces it
  /\ spc = "select"
  /\ batchCh # <<>>
  /\ batchCh' = Tail(batchCh)
  /\ IF Len(batch) + 1 >= BatchSize
       THEN StartFlush("select") /\ UNCHANGED batch
       ELSE UNCHANGED <<spc, safter>> /\ batch' = Append(batch, Head(batchCh))
  /\ UNCHANGED <<refs, wpc, seen, writeErrors, written, rows, historyVars>>

Take ==
  /\ spc = "select"
  /\ batchCh # <<>>
  /\ batch' = Append(batch, Head(batchCh))
  /\ batchCh' = Tail(batchCh)
  /\ IF Len(batch) + 1 >= BatchSize
       THEN StartFlush("select")
       ELSE UNCHANGED <<spc, safter>>
  /\ UNCHANGED <<refs, wpc, seen, writeErrors, written, rows, historyVars>>

FlushTickFullOnly ==  \* mutant: the tick flushes full batches only
  /\ spc = "select"
  /\ Len(batch) >= BatchSize
  /\ StartFlush("select")
  /\ UNCHANGED <<batchCh, batch, refs, wpc, seen, writeErrors, written, rows,
                 historyVars>>

FlushTick ==
  /\ spc = "select"
  /\ batch # <<>>
  /\ StartFlush("select")
  /\ UNCHANGED <<batchCh, batch, refs, wpc, seen, writeErrors, written, rows,
                 historyVars>>

(* The context is done, or the channel is closed and drained: a last flush *)
(* and out.                                                                *)
WriterStop ==
  /\ spc = "select"
  /\ \/ "storage" \in cancelled
     \/ batchCh = <<>> /\ "batchCh" \in closed
  /\ IF batch = <<>>
       THEN spc' = "exit" /\ UNCHANGED safter
       ELSE StartFlush("exit")
  /\ UNCHANGED <<batchCh, batch, refs, wpc, seen, writeErrors, written, rows,
                 historyVars>>

(* pool.Acquire(s.ctx): a cancelled context always fails.                  *)
AcquireBackground ==  \* mutant: context.Background() for s.ctx
  /\ spc = "acquire"
  /\ spc' = "copy"
  /\ UNCHANGED <<batchCh, batch, safter, refs, wpc, seen, writeErrors, written,
                 rows, historyVars>>

AcquireOk ==
  /\ spc = "acquire"
  /\ "storage" \notin cancelled
  /\ spc' = "copy"
  /\ UNCHANGED <<batchCh, batch, safter, refs, wpc, seen, writeErrors, written,
                 rows, historyVars>>

AcquireRetries ==  \* mutant: try again for ever
  /\ spc = "acquire"
  /\ UNCHANGED storageVars

AcquireFails ==
  /\ spc = "acquire"
  /\ spc' = "failAcquire"
  /\ seen' = [seen EXCEPT ![Writer] = writeErrors]
  /\ UNCHANGED <<batchCh, batch, safter, refs, wpc, writeErrors, written, rows,
                 historyVars>>

(* How many of the batch's items hold measurement m; the batch's Unref     *)
(* calls, one for each.                                                    *)
Holding(q, m) == Cardinality({i \in DOMAIN q : q[i].m = m})
UnrefBatch == refs' = [m \in Measurements |-> refs[m] - Holding(batch, m)]

EndFlush == batch' = <<>> /\ spc' = safter

CopyOk ==
  /\ spc = "copy"
  /\ rows' = rows \o batch
  /\ written' = written + Len(batch)
  /\ UnrefBatch
  /\ EndFlush
  /\ UNCHANGED <<batchCh, safter, wpc, seen, writeErrors, historyVars>>

(* CopyFrom returned an error: the rows are not there, or they are and the *)
(* answer was lost.                                                        *)
CopyRetries ==  \* mutant: a failed copy is tried again
  /\ spc = "copy"
  /\ \E applied \in BOOLEAN : rows' = IF applied THEN rows \o batch ELSE rows
  /\ spc' = "acquire"
  /\ UNCHANGED <<batchCh, batch, safter, refs, wpc, seen, writeErrors, written,
                 historyVars>>

CopyFails ==
  /\ spc = "copy"
  /\ \E applied \in BOOLEAN : rows' = IF applied THEN rows \o batch ELSE rows
  /\ spc' = "failCopy"
  /\ seen' = [seen EXCEPT ![Writer] = writeErrors]
  /\ UNCHANGED <<batchCh, batch, safter, refs, wpc, writeErrors, written,
                 historyVars>>

(* The two error paths count the whole batch and clear it.  Only the       *)
(* second one releases the measurements.                                   *)
CountFailureFallsThrough ==  \* mutant: no return after the acquire error
  \/ /\ spc = "failAcquire"
     /\ writeErrors' = seen[Writer] + Len(batch)
     /\ seen' = [seen EXCEPT ![Writer] = writeErrors']
     /\ spc' = "failCopy"
     /\ UNCHANGED <<batchCh, batch, safter, refs, wpc, written, rows, historyVars>>
  \/ /\ spc = "failCopy"
     /\ writeErrors' = seen[Writer] + Len(batch)
     /\ UnrefBatch
     /\ EndFlush
     /\ failed' = failed + Len(batch)
     /\ UNCHANGED <<batchCh, safter, wpc, seen, written, rows, accepted, refused>>

CountFailure ==
  /\ spc \in {"failAcquire", "failCopy"}
  /\ writeErrors' = seen[Writer] + Len(batch)
  /\ IF spc = "failCopy" THEN UnrefBatch ELSE UNCHANGED refs
  /\ EndFlush
  /\ failed' = failed + Len(batch)
  /\ UNCHANGED <<batchCh, safter, wpc, seen, written, rows, accepted, refused>>

BatchWriter ==
  \/ Take \/ FlushTick \/ WriterStop
  \/ AcquireOk \/ AcquireFails \/ CopyOk \/ CopyFails \/ CountFailure

-----------------------------------------------------------------------------
(* The environment: the callers and main.  Calculate hands out each        *)
(* measurement with one reference; main calls Close after the callers have *)
(* stopped, and Close cancels before it closes the channel.                *)
Call(c) ==
  \/ \E m \in Measurements :
       /\ "batchCh" \notin closed
       /\ calls[m] < MaxCalls
       /\ calls' = [calls EXCEPT ![m] = @ + 1]
       /\ Accept(c, m) \/ RefuseCancelled(c, m) \/ RefuseFull(c, m)
       /\ UNCHANGED <<cancelled, closed>>
  \/ CountRefusal(c) /\ UNCHANGED <<calls, cancelled, closed>>

CancelStorage ==
  /\ "storage" \notin cancelled
  /\ cancelled' = cancelled \cup {"storage"}
  /\ UNCHANGED <<storageVars, calls, closed>>

CloseBatchCh ==
  /\ "storage" \in cancelled
  /\ "batchCh" \notin closed
  /\ closed' = closed \cup {"batchCh"}
  /\ UNCHANGED <<storageVars, calls, cancelled>>

StorageInit ==
  /\ batchCh = <<>>
  /\ batch = <<>>
  /\ spc = "select"
  /\ safter = "select"
  /\ refs = [m \in Measurements |-> 1]
  /\ wpc = [c \in Callers |-> "idle"]
  /\ seen = [c \in Callers \cup {Writer} |-> 0]
  /\ writeErrors = 0
  /\ written = 0
  /\ rows = <<>>
  /\ accepted = 0
  /\ failed = 0
  /\ refused = 0

Init ==
  /\ StorageInit
  /\ calls = [m \in Measurements |-> 0]
  /\ cancelled = {}
  /\ closed = {}

WriterStep == BatchWriter /\ UNCHANGED <<calls, cancelled, closed>>

Next ==
  \/ \E c \in Callers : Call(c)
  \/ WriterStep
  \/ CancelStorage \/ CloseBatchCh

(* batchWriter runs, its ticker fires, the database answers (or reports an *)
(* error), and main carries a Close it has begun to its end.               *)
Fairness == WF_vars(WriterStep) /\ WF_vars(CloseBatchCh)

Spec == Init /\ [][Next]_vars /\ Fairness

-----------------------------------------------------------------------------
TypeOK ==
  /\ batchCh \in Seq(Item) /\ Len(batchCh) <= BatchChCap
  /\ batch \in Seq(Item) /\ Len(batch) <= BatchSize
  /\ spc \in WriterPlaces
  /\ safter \in {"select", "exit"}
  /\ refs \in [Measurements -> Int]
  /\ wpc \in [Callers -> {"idle", "counting"}]
  /\ seen \in [Callers \cup {Writer} -> Nat]
  /\ writeErrors \in Nat
  /\ written \in Nat
  /\ rows \in Seq(Item)
  /\ accepted \in Nat /\ failed \in Nat /\ refused \in Nat
  /\ cancelled \subseteq {"storage"}
  /\ closed \subseteq {"batchCh"}

Pending == batch \o batchCh

(* Every accepted measurement is written, counted as failed, or still in   *)
(* the batch or the channel: no path of the flush forgets an item.         *)
AcceptedAccounted ==
  accepted = written + failed + Len(batch) + Len(batchCh)

(* What is pending is the most recently accepted, in order: the batch and  *)
(* the channel together behave as one first-in first-out queue.            *)
PendingInOrder ==
  \A i \in 1..Len(Pending) :
    Pending[i].serial = accepted - Len(Pending) + i

(* The table receives each accepted measurement at most once and in the    *)
(* order of acceptance, whatever fails; a copy whose answer was lost is    *)
(* never sent again.                                                       *)
RowsAtMostOnceInOrder ==
  \A i, j \in DOMAIN rows : i < j => rows[i].serial < rows[j].serial

(* MeasurementsWritten never claims a row the table does not hold.         *)
WrittenNeverOverstated == written <= Len(rows)

(* The unsynchronised WriteErrors can lose updates but never counts more   *)
(* refusals and failed measurements than there were.                       *)
ErrorsNeverOvercounted == writeErrors <= refused + failed

(* The counters the shutdown logs err on one side only: the written on the *)
(* low side, because an answer can be lost, and the errors on the low side *)
(* too, because an unsynchronised update can be.                           *)
CountersHonest == WrittenNeverOverstated /\ ErrorsNeverOvercounted

(* A measurement waiting for its flush is referenced once for each place   *)
(* it waits in, beside the reference Calculate handed out, so its RawData  *)
(* is not cleared before it is copied.                                     *)
PendingIsReferenced ==
  \A m \in Measurements : refs[m] >= 1 + Holding(Pending, m)

(* What Close loses: a measurement that is not in the table when the       *)
(* context has been cancelled and no copy is under way never gets there.   *)
(* The flush batchWriter makes on its way out uses the cancelled context.  *)
InRows(n) == \E i \in DOMAIN rows : rows[i].serial = n
Serials == 1..(MaxCalls * Cardinality(Measurements))

CloseLosesPending ==
  \A n \in Serials :
    []("storage" \in cancelled /\ spc # "copy" /\ ~InRows(n) => []~InRows(n))

(* While the storage runs, whatever is accepted is settled: copied or      *)
(* given up; a partly filled batch does not wait for more.                 *)
AcceptedSettles ==
  \A n \in Serials :
    (accepted >= n) ~> (written + failed >= n \/ "storage" \in cancelled)

(* The storage implements the journal: its batch and channel are the       *)
(* queue, until the copy of the batch has had its outcome.                 *)
SerialsOf(q) == [i \in 1..Len(q) |-> q[i].serial]
Waiting == IF spc \in {"failAcquire", "failCopy"} THEN batchCh ELSE Pending

J == INSTANCE Journal WITH
       JournalCap <- 3 * BatchSize, BatchMax <- BatchSize,
       queue <- SerialsOf(Waiting), log <- SerialsOf(rows), last <- accepted

ImplementsJournal == J!JournalSpec
=============================================================================
