CONSTANTS
  Clients = {c1, c2, c3}
  Refused = {c3}
  Confs <- MCConfs
SPECIFICATION HubFairSpec
INVARIANTS
  HubInv
  LeaverReported
  LeaverGotAll
PROPERTIES
  HubAllEnd
