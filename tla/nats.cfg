CONSTANTS
  a = a  b = b
  NoKey = NoKey
  Accounts = {a}
  Items = {}
  Streams = {a}
  Commands <- CreditCommands
  IntMax = 3
  Writers = {w1, w2}
  BusOn = FALSE
  ExtraDeliveries = 0
  BatchSize = 1
  MaxFaults = 2
SPECIFICATION NatsSpec
INVARIANTS
  NatsTypeOK
  NeverAppliedTwice
  AckedIsHandled
PROPERTIES
  EveryMessageSettles
  LagSettles
