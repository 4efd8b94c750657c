CONSTANTS
  NumProducer = 3
  NumReader = 2
  TotalRounds = 1
  RecordPerRound = 1
  Capacity = 2
  NoRecord = NoRecord
SPECIFICATION FairSpec
INVARIANTS
  RingInv
PROPERTIES
  FailsOnlyWhenAhead
  AllSeenUnlessOver
