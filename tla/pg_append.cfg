CONSTANTS
  a = a  b = b  c = c
  NoKey = NoKey
  Streams = {a, b, c}
  Keys = {k1}
  Batches <- TransferBatches
  Txs = {t1, t2}
  MaxAppends = 3
  PinAhead = 1
  PageSize = 1
  Faults = TRUE
SPECIFICATION FairSpec
INVARIANTS
  TypeOK
  VersionsNeverCollide
  LinksAreComplete
PROPERTIES
  ImplementsContract
  SeenInVersionOrder
  EveryAppendEnds
\* Callers may stop appending: an idle store is a normal end.
CHECK_DEADLOCK FALSE
