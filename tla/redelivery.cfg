CONSTANTS
  a = a  b = b
  NoKey = NoKey
  Accounts = {a, b}
  Items = {}
  Streams = {a, b}
  Commands <- TransferCommands
  IntMax = 3
  Writers = {w1, w2}
  BusOn = TRUE
  ExtraDeliveries = 1
  BatchSize = 2
  MaxFaults = 1
SPECIFICATION Spec
INVARIANTS
  TypeOK
  NeverAppliedTwice
PROPERTIES
  CheckpointsOnlyAdvance
SYMMETRY WriterSymmetry
