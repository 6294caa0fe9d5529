CONSTANTS
  Symbols <- MCSymbols
  Venues <- MCVenues
  InitialLocate <- MCInitialLocate
  TapeLocate <- MCTapeLocate
  Configs <- MCConfigs
  PacketCap = 1
  Second = 2
  Slack = 1
  OrderEntryCap = 2
  MaxLost = 1
  MaxOrders = 1
SPECIFICATION Spec
INVARIANTS
  StreamIsTape
  ReplayPaced
PROPERTY SessionRuns
CHECK_DEADLOCK FALSE
