--------------------------- MODULE MCInvoiceDelivery ---------------------------
(* Finite instances of InvoiceDelivery for TLC. *)
EXTENDS InvoiceDelivery

CONSTANTS d1, d2, w1, w2, a1, a2, a3, c1, c2

TwoDeliveries == {d1, d2}
TwoWorkers    == {w1, w2}
TwoIds        == {a1, a2}
ThreeIds      == {a1, a2, a3}
TwoContents   == {c1, c2}
OneContent    == {c1}
OneInstant    == {1}
TwoInstants   == {1, 2}
=============================================================================
