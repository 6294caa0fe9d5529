CONSTANTS
  Syms = {s1}
  QuoteQty = 1
  RefMod = 16
  RefRing = 8
  FirstRef = 1
  MaxAllocs = 4
  Band = {1, 2, 3, 4, 5, 6}
  VenueRing = 8
  Prices = {1, 2, 3, 4, 5, 6}
  TapeQtys = {1}
  MaxTape = 0
  MaxTests = 0
  MaxLost = 0
  MaxResets = 0
  MaxEvents = 0
  Fairs = {2, 3}
  HalfSpread = 0
  SkewTicks = 0
  BandLow = 1
  BandHigh = 6
  HoursOnly = TRUE
  MaxPackets = 5
SPECIFICATION DutSpec
INVARIANT
  HaltedHasNoQuote
CHECK_DEADLOCK FALSE
