CONSTANTS
  Syms = {s1, s2}
  QuoteQty = 1
  RefMod = 6
  RefRing = 2
  FirstRef = 4
  MaxAllocs = 4
  Band = {1, 2}
  VenueRing = 2
  Prices = {1, 2}
  TapeQtys = {1}
  MaxTape = 1
  MaxTests = 0
  MaxLost = 0
  MaxResets = 0
  MaxEvents = 1
SPECIFICATION FairSpec
INVARIANTS
  PositionExact
  RoutesFindOrders
PROPERTY
  PendingResolves
CHECK_DEADLOCK FALSE
