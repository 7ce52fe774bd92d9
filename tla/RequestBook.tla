------------------------------- MODULE RequestBook -------------------------------
(***************************************************************************)
(* What generate_pdf, approve and request promise their callers, without   *)
(* concurrent calls, locks or rows: a book in which each request is entered *)
(* at most once, at one instant, with an id of its own; asked again, it is  *)
(* read out of the book (docs/billing-rules.md:109-112, 134, 143).          *)
(***************************************************************************)

CONSTANTS Requests, Revisions, Invoices, ArtifactIds, ApprovalIds, DeliveryIds, None

VARIABLES
  made,       \* request -> the id that was made for it, or None
  answers     \* the requests answered so far, with the id they were given

vars == <<made, answers>>

Init ==
  /\ made = [q \in Requests |-> None]
  /\ answers = {}

IdsFor(q) ==
  {a \in ArtifactIds : q.kind = "generate"} \cup {p \in ApprovalIds : q.kind = "approve"}
    \cup {e \in DeliveryIds : q.kind = "deliver"}

\* An issued invoice is approved for an artifact that was generated for it, and
\* the approval of a draft revision is what a delivery is requested for.
Founded(q) ==
  /\ q.kind = "approve" /\ q.on \in Invoices =>
       \E r \in Requests : r.kind = "generate" /\ r.on = q.on /\ made[r] = q.what
  /\ q.kind = "deliver" =>
       \E r \in Requests : r.kind = "approve" /\ r.on \in Revisions /\ made[r] = q.on

\* Two requests to approve one document.
Rivals(q, r) == q # r /\ q.kind = "approve" /\ r.kind = "approve" /\ q.on = r.on

Make(q, id) ==
  /\ made[q] = None
  /\ Founded(q)
  /\ \A r \in Requests : Rivals(q, r) => made[r] = None
  /\ \A r \in Requests : r.kind = q.kind => made[r] # id
  /\ made' = [made EXCEPT ![q] = id]
  /\ answers' = answers \cup {[request |-> q, id |-> id]}

Again(q) ==
  /\ made[q] # None
  /\ answers' = answers \cup {[request |-> q, id |-> made[q]]}
  /\ UNCHANGED made

Next == \E q \in Requests : Again(q) \/ \E id \in IdsFor(q) : Make(q, id)

Spec == Init /\ [][Next]_vars
=============================================================================
