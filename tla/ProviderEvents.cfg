SPECIFICATION Spec
CONSTANTS
  d1 = d1
  d2 = d2
  m1 = m1
  m2 = m2
  m3 = m3
  i1 = i1
  i2 = i2
  b1 = b1
  b2 = b2
  r1 = r1
  r2 = r2
  h1 = h1
  h2 = h2
  None = None
  Deliveries <- TwoDeliveries
  Messages <- ThreeMessages
  Acceptances <- SomeAcceptances
  Events <- SomeEvents
  Recorders <- TwoRecorders
  Hooks <- TwoHooks
  Failures = TRUE
SYMMETRY Symmetry
INVARIANTS
  TypeOK
  Correlated
  OnlyRepeatsDeadlock
PROPERTY
  ImplementsLedger
