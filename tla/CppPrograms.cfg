CONSTANTS
  Programs = {"c_malloc_free", "time", "ws_trans_server", "ws_trans_client", "thread_trans"}
  Processors = {0, 1, 2}
  Loop = 2
  CntPerLoop = 3
  Capacity = 4
  AllocFails = TRUE
  Null = Null
SPECIFICATION FairSpec
INVARIANTS
  ConfigInv
  FreeInv
  ReportExactUnlessLapped
PROPERTIES
  Terminates
