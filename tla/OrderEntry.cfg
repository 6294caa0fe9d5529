CONSTANTS
  Syms = {s1}
  QuoteQty = 2
  RefMod = 16
  RefRing = 4
  FirstRef = 1
  MaxAllocs = 4
  Band = {1, 2}
  VenueRing = 4
  Prices = {1, 2, 3}
  TapeQtys = {1}
  MaxTape = 2
  MaxTests = 1
  MaxLost = 1
  MaxResets = 1
  MaxEvents = 3
SPECIFICATION Spec
INVARIANTS
  NoOrphans
  OneOrderPerSide
  PositionExact
  QuietAgreement
  OneRequestOutstanding
  SelfTradeNeedsDisorder
  UnknownNeedsDisruption
CHECK_DEADLOCK FALSE
