SPECIFICATION Spec
CONSTANTS
  d1 = d1
  d2 = d2
  d3 = d3
  k1 = k1
  k2 = k2
  f1 = f1
  f2 = f2
  t1 = t1
  t2 = t2
  None = None
  Drafts <- TwoDrafts
  Contents <- TwoContents
  Facts <- OneFact
  Callers <- TwoCallers
  Values <- SomeValues
  MaxRevision = 2
  MaxInstant = 0
INVARIANTS
  BilledOnce
