--------------------------- MODULE MCInvoiceIssuance ---------------------------
(* Finite instances of InvoiceIssuance for TLC. *)
EXTENDS InvoiceIssuance, TLC

CONSTANTS d1, d2, d3, k1, k2, f1, f2, t1, t2

TwoDrafts  == {d1, d2}
ThreeDrafts == {d1, d2, d3}
TwoCallers == {k1, k2}
TwoFacts   == {f1, f2}
OneFact    == {f1}

\* One piece of work every revision bills, or revisions that may share one.
OneContent  == {{t1}}
TwoContents == {{t1}, {t1, t2}}

\* Settings 0 and 1 are billing timezones: UTC, and half a day ahead.
SomeValues == [seller |-> {1}, client |-> {1}, settings |-> {0, 1}]

Symmetry == Permutations(Drafts) \cup Permutations(Callers) \cup Permutations(Facts)
=============================================================================
