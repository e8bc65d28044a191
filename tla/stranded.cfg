CONSTANTS
  a = a  b = b
  NoKey = NoKey
  Accounts = {a}
  Items = {}
  Streams = {a}
  Commands <- CreditCommands
  IntMax = 3
  Writers = {w1, w2}
  BusOn = TRUE
  ExtraDeliveries = 0
  BatchSize = 2
  MaxFaults = 0
SPECIFICATION FairSpec
PROPERTIES
  EventuallyConsistent
