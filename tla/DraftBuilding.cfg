SPECIFICATION DraftSpec
CONSTANTS
  k1 = k1
  k2 = k2
  p1 = p1
  p2 = p2
  p3 = p3
  t1 = t1
  t2 = t2
  u1 = u1
  u2 = u2
  b1 = b1
  None = None
  Clients <- TwoClients
  Projects <- ThreeProjects
  Tasks <- TwoTasks
  Parent <- ParentOf
  Entries <- TwoEntries
  Editors <- TwoEditors
  Wishes <- MCWishes
  Founded <- FoundedFirst
  Offers <- MCOffers
  Requests <- MCRequests
  Builders <- OneBuilder
  Billable <- TwoEntries
SYMMETRY Symmetry
INVARIANTS
  TypeOK
  ClassificationIsChained
  DraftReadsBack
  OnePriceList
PROPERTIES
  OverlapOnlyClearsTask
