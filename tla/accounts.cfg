CONSTANTS
  a = a  b = b  i = i  k1 = k1  k2 = k2
  NoKey = NoKey
  Accounts = {a, b}
  Items = {}
  Streams = {a, b}
  Keys = {k1, k2}
  Handlers = {h1, h2}
  Commands <- AccountCommands
  IntMax = 3
  MaxRetries = 1
  MaxCalls = 4
  PinAhead = 0
  Faults = TRUE
SPECIFICATION Spec
INVARIANTS
  TypeOK
  LogIsSerial
  Solvent
  OneEffectPerKey
  AppliedIsInLog
  RejectionIsJustified
  ConflictMeansProgress
  DuplicateIsOriginal
  PublishedExactlyOnce
PROPERTIES
  ImplementsAtomicLedger
SYMMETRY HandlerSymmetry
\* Clients may stop calling: an idle service with all calls made is a normal end.
CHECK_DEADLOCK FALSE
