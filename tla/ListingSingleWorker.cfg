SPECIFICATION FairSpec
CONSTANTS
  w1 = w1  w2 = w2  a1 = a1
  p1 = p1  p2 = p2  s1 = s1
  NoPrice = NoPrice
  Workers <- OneWorker
  Approvals <- OneApproval
  Prices <- TwoPrices
  Specifics <- OneSpecific
  Channel = "trading"
  Events = {"lost_delete","sale"}
  MaxFaults = 1
  MaxRequests = 3
CHECK_DEADLOCK FALSE
PROPERTY PublishingEnds
INVARIANT PublishingIsOwned
INVARIANT LiveIsMirrored
INVARIANT AtMostOneListing
INVARIANT PostedPriceIsListed
