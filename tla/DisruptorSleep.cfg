CONSTANTS
  NumProducer = 1
  NumReader = 1
  TotalRounds = 1
  RecordPerRound = 1
  Capacity = 2
  NoRecord = NoRecord
SPECIFICATION Spec
INVARIANT ConsumersCompleted
