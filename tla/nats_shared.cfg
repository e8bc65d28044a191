CONSTANTS
  a = a  b = b
  NoKey = NoKey
  Accounts = {a}
  Items = {}
  Streams = {a}
  Commands <- OneCommand
  IntMax = 3
  Writers = {w1}
  BusOn = FALSE
  ExtraDeliveries = 0
  BatchSize = 1
  MaxFaults = 0
SPECIFICATION NatsSpec
PROPERTIES
  AtLeastOnce
