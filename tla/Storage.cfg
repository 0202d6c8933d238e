\* Two callers (a demux worker and the sink) with one measurement between them,
\* handed over up to six times: batches of two, a queue of four, so that a batch
\* waits half full and the queue reaches its limit.
CONSTANTS
  c1 = c1
  c2 = c2
  m1 = m1
  Callers <- TwoCallers
  Measurements <- OneMeasurement
  BatchSize = 2
  MaxCalls = 6
SPECIFICATION Spec
CHECK_DEADLOCK FALSE
INVARIANTS
  AcceptedAccounted
  RowsAtMostOnceInOrder
  CountersHonest
  PendingIsReferenced
PROPERTIES
  ImplementsJournal
  CloseLosesPending
  AcceptedSettles
