CONSTANTS
  NumProducer = 2
  NumConsumer = 2
  TotalRounds = 2
  RecordPerRound = 1
  Capacity = 2
  NoRecord = NoRecord
SPECIFICATION FairSpec
INVARIANTS
  InOrder
  ReportComplete
  IndInv
PROPERTIES
  TransferSpec
  Terminates
