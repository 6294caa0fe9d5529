CONSTANTS
  Syms = {s1}
  QuoteQty = 2
  RefMod = 5
  RefRing = 2
  FirstRef = 3
  MaxAllocs = 4
  Prices = {1}
  AckQtys = {1}
  MaxAnswers = 3
SPECIFICATION Spec
INVARIANTS
  TypeOK
  SlotsWellFormed
  RefsBelong
PROPERTY
  AnswersStayHome
CHECK_DEADLOCK FALSE
