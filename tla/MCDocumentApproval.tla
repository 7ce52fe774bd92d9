--------------------------- MODULE MCDocumentApproval ---------------------------
(* A finite instance of DocumentApproval for TLC. *)
EXTENDS DocumentApproval, TLC

CONSTANTS r1, r2, v1, x1, x2, a1, a2, a3, a4, p1, p2, p3, e1, e2, k1, k2

TwoRevisions == {r1, r2}
OneInvoice   == {v1}
TwoVersions  == {x1, x2}
FourArtifacts == {a1, a2, a3, a4}
ThreeApprovals == {p1, p2, p3}
TwoDeliveries == {e1, e2}
TwoCallers   == {k1, k2}

Symmetry ==
  Permutations(ArtifactIds) \cup Permutations(ApprovalIds) \cup Permutations(DeliveryIds)
    \cup Permutations(Callers) \cup Permutations(Versions) \cup Permutations(Revisions)
=============================================================================
