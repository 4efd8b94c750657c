CONSTANTS
  MaxCnt = 5
  Steps = {0, 20, 25, 30, 101}
  MaxLabels = 6
  Latencies = {1, 2}
  Unread = 3
SPECIFICATION FairReportSpec
INVARIANTS
  IndexInv
  QuantileUnderLabel
PROPERTIES
  ReportEnds
