CONSTANTS
  Values = {0, 1, 2, 3}
  PowerOn <- At
  Clients = {a, b}
  a = a
  b = b
  Hub = Hub
  NoOne = NoOne
  NoState = NoState
  Commands <- Given
  MaxVolts = 3
  Fallback = 2
  Buffer = 1
  MaxCommands = 2
  MaxFaults = 1
  Backlog = 0
SPECIFICATION FairSpec
INVARIANTS CacheSettles SubscriberAgrees
PROPERTIES CommandsReturn Reconnects
