SPECIFICATION MCSpec
CONSTANTS
  i1 = i1  i2 = i2  s1 = s1  u1 = u1  u2 = u2
  x1 = x1  x2 = x2  x3 = x3  x4 = x4
  n1 = n1  n2 = n2  c1 = c1  c2 = c2  r1 = r1  r2 = r2
  b1 = b1  b2 = b2  k1 = k1  k2 = k2  h1 = h1  h2 = h2
  Items <- TwoItems
  NoItem = NoItem
  Specifics <- OneSpecific
  Uploads <- TwoUploads
  MaxIterations = 2
  MaxCalls = 2
  MaxTurns = 2
  MaxPhotos = 2
  Comparables <- FourComparables
  PriceOf <- ThePrices
  Junk <- TheJunk
  OtherCondition <- TheOthers
  Target = 2
  SellerFloors <- SomeFloors
  Predictions <- SomePredictions
  Nonces <- TwoNonces
  Callbacks <- TwoCallbacks
  Refreshers <- TwoRefreshers
  Rotating = TRUE
  MaxConsents = 2
  MaxExpiries = 1
  Subscriptions <- TwoSubscriptions
  Checkouts <- TwoCheckouts
  Webhooks <- TwoWebhooks
  MaxEvents = 2
  MaxCustomers = 2
CHECK_DEADLOCK FALSE
INVARIANT TypeOK
INVARIANT OneItem
INVARIANT CompleteMeansReady
INVARIANT PhotosInOrder
INVARIANT VerdictsStand
INVARIANT PriceIsGrounded
INVARIANT FloorIsKept
INVARIANT ConfidenceNeedsMarket
INVARIANT LatestConsentStands
INVARIANT NonceIsSpentOnce
INVARIANT InSync
INVARIANT ActiveIsPro
INVARIANT PayerIsKnown
PROPERTY TurnEnds
PROPERTY PricingEnds
