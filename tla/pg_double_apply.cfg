CONSTANTS
  a = a  i = i
  balancesPoller = balancesPoller
  inventoryPoller = inventoryPoller
  inventoryBus = inventoryBus
  NoKey = NoKey
  Accounts = {a}
  Items = {i}
  Streams = {a, i}
  Commands <- OneCommand
  IntMax = 3
  Pollers = {inventoryPoller}
  Subscribers = {inventoryBus}
  Serves <- Wiring
  BatchSize = 2
  MaxDeliveries = 1
  MaxFaults = 0
SPECIFICATION Spec
INVARIANTS
  CountedOnce
