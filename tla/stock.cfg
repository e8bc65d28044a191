CONSTANTS
  a = a  b = b  i = i  k1 = k1  k2 = k2
  NoKey = NoKey
  Accounts = {}
  Items = {i}
  Streams = {i}
  Keys = {k1}
  Handlers = {h1, h2}
  Commands <- StockCommands
  IntMax = 4
  MaxRetries = 1
  MaxCalls = 4
  PinAhead = 0
  Faults = FALSE
SPECIFICATION FairSpec
INVARIANTS
  LogIsSerial
  Solvent
  RejectionIsJustified
  PublishedExactlyOnce
PROPERTIES
  ImplementsAtomicLedger
  EveryCallEnds
  EveryEventPublished
\* Clients may stop calling: an idle service with all calls made is a normal end.
CHECK_DEADLOCK FALSE
