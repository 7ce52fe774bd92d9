------------------------------- MODULE LegalSeries -------------------------------
(***************************************************************************)
(* What issuance promises about a workspace's legal invoice numbers, without *)
(* drafts, locks or transactions: one register, numbered from 1 without a   *)
(* gap, in which no entry ever changes, no logical invoice is entered twice *)
(* and dates never go back (docs/billing-rules.md:132, the numbering rule). *)
(***************************************************************************)
EXTENDS Naturals, Sequences

CONSTANT Drafts

VARIABLE register   \* the n-th entry has the legal number n

Entries == [draft : Drafts, date : Nat]

Init == register = <<>>

\* A draft is entered under the next number.
Issue(d) ==
  LET n == Len(register) IN
  /\ \A i \in 1 .. n : register[i].draft # d
  /\ Len(register') = n + 1
  /\ \A i \in 1 .. n : register'[i] = register[i]
  /\ register'[n + 1].draft = d
  /\ n > 0 => register[n].date <= register'[n + 1].date

Next == \E d \in Drafts : Issue(d)

Spec == Init /\ [][Next]_register
=============================================================================
