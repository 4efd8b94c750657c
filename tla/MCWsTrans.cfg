CONSTANTS
  Clients = {c1, c2}
  Refused = {c2}
  Confs <- MCConfs
  NoMsg = NoMsg
SPECIFICATION FairSpec
INVARIANTS
  ElapsedInv
  LoneReportExact
  ClientReportExact
PROPERTIES
  AllEnd
