SPECIFICATION FairSpec
CONSTANTS
  m1 = m1  m2 = m2  w1 = w1  w2 = w2
  d1 = d1  d2 = d2  r1 = r1
  Messages <- OneMessage
  Workers <- OneWorker
  Deliveries <- OneDelivery
  Requests <- OneRequest
  Levels = {"draft","auto_low_risk","full_auto"}
  Events = {}
  MaxCalls = 1
  MaxFaults = 0
  MaxDeliveries = 1
  MaxRequests = 1
CHECK_DEADLOCK FALSE
PROPERTY AnswersAreUsed
