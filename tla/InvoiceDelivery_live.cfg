SPECIFICATION FairSpec
CONSTANTS
  d1 = d1
  d2 = d2
  w1 = w1
  w2 = w2
  a1 = a1
  a2 = a2
  a3 = a3
  c1 = c1
  c2 = c2
  None = None
  Workers <- TwoWorkers
  Deliveries <- TwoDeliveries
  AttemptIds <- TwoIds
  Contents <- OneContent
  Instants <- OneInstant
  TokenReuse = TRUE
  KeyExpires = TRUE
  Failures = FALSE
INVARIANT
  OpenHasWorker
PROPERTIES
  EveryClaimIsDecided
\* Both workers may claim when every attempt id is used.
CHECK_DEADLOCK FALSE
