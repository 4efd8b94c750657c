CONSTANTS
  NumProducer = 3
  Count = 2
  Capacity = 2
SPECIFICATION FairSpec
INVARIANTS
  PipeInv
PROPERTIES
  TransferSpec
  Terminates
