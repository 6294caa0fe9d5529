CONSTANTS
  Syms = {s1}
  Band = {1, 2}
  VenueRing = 2
  Prices = {1, 2, 3}
  Qtys = {1, 2}
  MaxRefs = 2
  MaxAdds = 2
  MaxDays = 1
SPECIFICATION Spec
INVARIANTS
  PublishedBookExact
  AnswersMatchFeed
CHECK_DEADLOCK FALSE
