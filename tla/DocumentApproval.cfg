SPECIFICATION Spec
CONSTANTS
  r1 = r1
  r2 = r2
  v1 = v1
  x1 = x1
  x2 = x2
  a1 = a1
  a2 = a2
  a3 = a3
  a4 = a4
  p1 = p1
  p2 = p2
  p3 = p3
  e1 = e1
  e2 = e2
  k1 = k1
  k2 = k2
  None = None
  Revisions <- TwoRevisions
  Invoices <- OneInvoice
  Versions <- TwoVersions
  ArtifactIds <- FourArtifacts
  ApprovalIds <- ThreeApprovals
  DeliveryIds <- TwoDeliveries
  Callers <- TwoCallers
SYMMETRY Symmetry
INVARIANTS
  TypeOK
  OneTrueApproval
  OneDeliveryPerRevision
PROPERTY
  ImplementsBook
