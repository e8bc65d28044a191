CONSTANTS
  a = a  b = b  i = i  k1 = k1  k2 = k2
  NoKey = NoKey
  Accounts = {a}
  Items = {}
  Streams = {a}
  Keys = {k1}
  Handlers = {h1, h2}
  Commands <- HotCommands
  IntMax = 3
  MaxRetries = 1
  MaxCalls = 3
  PinAhead = 1
  Faults = FALSE
SPECIFICATION Spec
INVARIANTS
  BalanceNeverNegative
SYMMETRY HandlerSymmetry
\* Clients may stop calling: an idle service with all calls made is a normal end.
CHECK_DEADLOCK FALSE
