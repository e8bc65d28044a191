CONSTANTS
  a = a  b = b  c = c
  NoKey = NoKey
  Streams = {a, b}
  Keys = {}
  Batches <- SingleBatches
  Txs = {t1, t2}
  MaxAppends = 2
  PinAhead = 0
  PageSize = 2
  Faults = FALSE
SPECIFICATION FairSpec
PROPERTIES
  CatchUpMissesNothing
\* Callers may stop appending: an idle store is a normal end.
CHECK_DEADLOCK FALSE
