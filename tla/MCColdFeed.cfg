CONSTANTS
  MaxSeq = 4
  PacketCap = 2
  RingDepth = 2
  QueueCap = 2
  Margin = 1
  RxLead = 1
  MaxFrames = 4
  Tapes <- MCTapes
  Locates = {1, 2}
  HotStocks = {1}
  Profiled = {1}
SPECIFICATION RunSpec
INVARIANTS
  TypeOK
  NothingAppliedTwice
  ValidBooksAreComplete
  MissedIsExact
  RecycledNeedsSlack
  ColdBooksAccounted
  HotBookFaithful
  LiveExact
PROPERTY
  ColdResponds
CHECK_DEADLOCK FALSE
