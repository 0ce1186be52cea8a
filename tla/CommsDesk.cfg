SPECIFICATION Spec
CONSTANTS
  m1 = m1  m2 = m2  w1 = w1  w2 = w2
  d1 = d1  d2 = d2  r1 = r1
  Messages <- OneMessage
  Workers <- TwoWorkers
  Deliveries <- OneDelivery
  Requests <- OneRequest
  Levels = {"draft","auto_low_risk","full_auto"}
  Events = {"crash","lost_delete","duplicate","timeout","api_crash"}
  MaxCalls = 2
  MaxFaults = 1
  MaxDeliveries = 1
  MaxRequests = 1
SYMMETRY Symmetry
CHECK_DEADLOCK FALSE
INVARIANT TypeOK
INVARIANT OneAutomaticReply
INVARIANT NothingDropped
INVARIANT OneNegotiation
PROPERTY ImplementsReplyConsent
