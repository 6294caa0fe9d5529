CONSTANTS
  Refs = {1, 2, 3}
  OwnRefs = {3}
  Prices = {7, 8, 12}
  MaxShares = 2
  None = None
  BaseTick = 2
  SubDollarTick = 1
  Dollar = 8
  BandTicks = 1
  MaxBandTicks = 2
  FracNum = 1
  FracDen = 2
  AnchorPrices <- MCAnchorPrices
  TapeTerms <- MCTapeTerms
  OwnTerms <- MCOwnTerms
  ZeroTerms <- MCZeroTerms
  WordBits = 2
  Hash <- MCHash
  MinCapacity = 4
SPECIFICATION Spec
INVARIANTS
  MapExact
  ParkedExact
  IndexesExact
PROPERTY
  ImplementsRefBook
CHECK_DEADLOCK FALSE
