SPECIFICATION FairSpec
CONSTANTS
  m1 = m1  m2 = m2  w1 = w1  w2 = w2
  d1 = d1  d2 = d2  r1 = r1
  Messages <- TwoMessages
  Workers <- OneWorker
  Deliveries <- TwoDeliveries
  Requests <- OneRequest
  Levels = {"full_auto"}
  Events = {"crash"}
  MaxCalls = 1
  MaxFaults = 1
  MaxDeliveries = 2
  MaxRequests = 0
CHECK_DEADLOCK FALSE
INVARIANT QueuedOnce
INVARIANT OneNegotiation
PROPERTY MessagesAreProcessed
