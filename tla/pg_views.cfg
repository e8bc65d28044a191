CONSTANTS
  a = a  i = i
  balancesPoller = balancesPoller
  inventoryPoller = inventoryPoller
  inventoryBus = inventoryBus
  NoKey = NoKey
  Accounts = {a}
  Items = {i}
  Streams = {a, i}
  Commands <- BothCommands
  IntMax = 3
  Pollers = {balancesPoller, inventoryPoller}
  Subscribers = {inventoryBus}
  Serves <- Wiring
  BatchSize = 2
  MaxDeliveries = 1
  MaxFaults = 1
SPECIFICATION FairSpec
INVARIANTS
  TypeOK
  ViewIsFoldAtCheckpoint
PROPERTIES
  ImplementsReadModel
  EventuallyConsistent
  CheckpointsOnlyAdvance
  EveryApplyEnds
