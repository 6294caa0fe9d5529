CONSTANTS
  SampleCap = 1
  WorstCap = 1
  Slots = {s1, s2}
  SendCap = 1
  AckCap = 1
  TxRefs = 2
  InFlightSize = 2
  MaxPackets = 2
  MaxRequests = 3
SPECIFICATION Spec
INVARIANTS
  MispairNeedsReuse
  SamplesAccounted
PROPERTIES
  RequestsAnswered
  ShutdownEnds
CHECK_DEADLOCK FALSE
