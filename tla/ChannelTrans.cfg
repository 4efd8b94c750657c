CONSTANTS
  NumProducer = 2
  NumConsumer = 4
  Loop = 2
  CntPerLoop = 1
SPECIFICATION FairSpec
INVARIANTS
  ChannelInv
  JoinedAllUnlessLate
PROPERTIES
  TransferSpec
  TerminatesUnlessLate
CHECK_DEADLOCK FALSE
