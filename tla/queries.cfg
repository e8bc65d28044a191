CONSTANTS
  a = a  i = i
  NoKey = NoKey
  Accounts = {a}
  Items = {i}
  Streams = {a, i}
  Commands <- TwoStreams
  IntMax = 3
  Writers = {w1}
  Clients = {c1}
  BusOn = TRUE
  ExtraDeliveries = 0
  BatchSize = 2
  MaxFaults = 0
SPECIFICATION QuerySpec
INVARIANTS
  ViewIsFoldAtCheckpoint
  LagBoundsStaleness
PROPERTIES
  EventuallyConsistent
