SPECIFICATION ReadSpec
CONSTANTS
  d1 = d1
  w1 = w1
  w2 = w2
  a1 = a1
  a2 = a2
  a3 = a3
  a4 = a4
  c1 = c1
  c2 = c2
  r1 = r1
  None = None
  Deliveries <- OneDelivery
  Workers <- TwoWorkers
  AttemptIds <- FourIds
  Contents <- TwoContents
  Instants <- OneInstant
  Readers <- OneReader
  TokenReuse = TRUE
  KeyExpires = FALSE
  Failures = TRUE
SYMMETRY Symmetry
INVARIANTS
  RowsReload
  SentIsBacked
  OneContentPerDelivery
  AtMostOneEmail
PROPERTIES
  HistoryIsFinal
  ReadsAreTrue
