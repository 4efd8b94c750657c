CONSTANTS
  NumProducer = 1
  NumConsumer = 2
  Loop = 2
  CntPerLoop = 1
SPECIFICATION FairSpec
INVARIANT JoinedAll
CHECK_DEADLOCK FALSE
