CONSTANTS
  NumThread = 3
  Iterations = 4
  Capacity = 4
  Modulus = 8
  Spurious = TRUE
SPECIFICATION TicketFairSpec
INVARIANTS
  SlotsDistinct
  NoTicketLost
  IndInv
PROPERTIES
  CursorSteps
  FinishesUnlessGivenUp
CHECK_DEADLOCK FALSE
