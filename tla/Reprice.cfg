SPECIFICATION Spec
CONSTANTS
  t1 = t1  t2 = t2  e1 = e1 
  Amounts <- SomeAmounts
  Floors <- SomeFloors
  Caps <- SomeCaps
  Tasks <- TwoTasks
  Scans <- OneScan
  Events = {"crash", "lost_delete", "timeout"}
  MaxFaults = 1
  MaxRequests = 2
CHECK_DEADLOCK FALSE
INVARIANT TypeOK
INVARIANT AuditTrail
INVARIANT CapRespected
INVARIANT AskingPriceIsAcceptable
INVARIANT ShownIsPosted
PROPERTY SoldStaysEnded
PROPERTY ImplementsMarkdown
PROPERTY StaleIsAssessed
