SPECIFICATION Spec
CONSTANTS
  d1 = d1
  d2 = d2
  w1 = w1
  w2 = w2
  a1 = a1
  a2 = a2
  a3 = a3
  c1 = c1
  c2 = c2
  None = None
  Workers <- TwoWorkers
  Deliveries <- TwoDeliveries
  AttemptIds <- ThreeIds
  Contents <- TwoContents
  Instants <- TwoInstants
  TokenReuse = FALSE
  KeyExpires = TRUE
  Failures = TRUE
INVARIANTS
  TypeOK
  ExclusiveWork
PROPERTIES
  ImplementsLifecycle
\* Every attempt id used or every delivery decided: the system may stop.
CHECK_DEADLOCK FALSE
