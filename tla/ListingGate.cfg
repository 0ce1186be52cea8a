SPECIFICATION Spec
CONSTANTS
  w1 = w1  w2 = w2  a1 = a1
  p1 = p1  p2 = p2  s1 = s1
  NoPrice = NoPrice
  Workers <- TwoWorkers
  Approvals <- OneApproval
  Prices <- OnePrice
  Specifics <- OneSpecific
  Channel = "trading"
  Events = {"crash","duplicate","timeout","api_crash","settings","ask_seller"}
  MaxFaults = 1
  MaxRequests = 2
CHECK_DEADLOCK FALSE
INVARIANT TypeOK
INVARIANT ApprovalGate
PROPERTY ImplementsPublishGate
