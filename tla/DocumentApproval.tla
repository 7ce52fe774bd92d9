----------------------------- MODULE DocumentApproval -----------------------------
(***************************************************************************)
(* From a document to its delivery: artifacts, approvals and the request    *)
(* that creates a delivery.                                                *)
(*                                                                         *)
(* A document is an invoice draft revision, whose artifacts are uploaded,   *)
(* or an issued invoice, whose artifacts are generated, one per renderer    *)
(* version.  Either is approved once, for one artifact; an approved draft   *)
(* revision is requested for delivery once.  generate_pdf, approve and      *)
(* request share a shape: lock the row asked about (FOR UPDATE), return     *)
(* what exists for exactly this request, refuse what contradicts it, else   *)
(* add one row.  The lock and the commit are two steps, so other callers    *)
(* move in between, with the same or with another request.                  *)
(*                                                                         *)
(* Left out: documents that do not exist (lock_issued_invoice, lock_revision *)
(* and issued_invoice_exists answer not found, and nothing changes); bytes  *)
(* and digests (an artifact id has one of each); the unique constraints     *)
(* behind the locks (the locks alone must suffice); the states of a         *)
(* delivery (InvoiceDelivery).                                             *)
(***************************************************************************)
EXTENDS Naturals

CONSTANTS
  Revisions, Invoices,        \* draft revisions and issued invoices, all existing
  Versions,                   \* renderer versions in service at the same time
  ArtifactIds, ApprovalIds, DeliveryIds,
  Callers,                    \* concurrent calls
  None                        \* SQL NULL, no row, an empty slot

ASSUME ConstantsAssumption ==
  /\ Revisions \cap Invoices = {}
  /\ None \notin Revisions \cup Invoices \cup Versions
                   \cup ArtifactIds \cup ApprovalIds \cup DeliveryIds

VARIABLES
  artifacts,    \* artifact id -> [document, version], or None
  approvals,    \* approval id -> [document, artifact], or None
  deliveries,   \* delivery id -> the approval it was requested for, or None
  request,      \* caller -> the request it has locked the row of, or None
  answers       \* the requests answered so far, with the id they were given

rows == <<artifacts, approvals, deliveries>>
vars == <<rows, request, answers>>

Documents == Revisions \cup Invoices

\* on: the row that is locked; what: the version or artifact asked for.
Requests ==
  [kind : {"generate"}, on : Invoices, what : Versions]
    \cup [kind : {"approve"}, on : Documents, what : ArtifactIds]
    \cup [kind : {"deliver"}, on : ApprovalIds, what : {None}]

Artifacts == [document : Documents, version : Versions \cup {None}]
Approvals == [document : Documents, artifact : ArtifactIds]

ASSUME NoneIsNoRow == None \notin Artifacts \cup Approvals \cup Requests

Init ==
  /\ artifacts = [a \in ArtifactIds |-> None]
  /\ approvals = [p \in ApprovalIds |-> None]
  /\ deliveries = [e \in DeliveryIds |-> None]
  /\ request = [c \in Callers |-> None]
  /\ answers = {}

-----------------------------------------------------------------------------
\* Mutant of Locked: the row is read without FOR UPDATE.
NeverLocked(row) == FALSE

Locked(row) == \E c \in Callers : request[c] # None /\ request[c].on = row

\* get_artifact_for_revision, get_artifact
ArtifactOf(document, a) == artifacts[a] # None /\ artifacts[a].document = document

ApprovalsOf(document) ==
  {p \in ApprovalIds : approvals[p] # None /\ approvals[p].document = document}

\* Mutant of Existing: a generated artifact is found whatever its version.
ExistingOfAnyVersion(q) ==
  {a \in ArtifactIds : q.kind = "generate" /\ artifacts[a] # None /\ artifacts[a].document = q.on}
  \cup {p \in ApprovalIds : q.kind = "approve" /\ p \in ApprovalsOf(q.on) /\
     approvals[p].artifact = q.what}
  \cup {e \in DeliveryIds : q.kind = "deliver" /\ deliveries[e] = q.on}

\* What was made for exactly this request: get_by_generation, the comparison of
\* an existing approval with the target, get_by_approval.
Existing(q) ==
  {a \in ArtifactIds : q.kind = "generate" /\ artifacts[a] # None /\
     artifacts[a] = [document |-> q.on, version |-> q.what]}
  \cup {p \in ApprovalIds : q.kind = "approve" /\ p \in ApprovalsOf(q.on) /\
     approvals[p].artifact = q.what}
  \cup {e \in DeliveryIds : q.kind = "deliver" /\ deliveries[e] = q.on}

\* Mutant of Admissible: another artifact of an approved document is approved too.
AdmissibleAgain(q) ==
  /\ q.kind = "approve" => ArtifactOf(q.on, q.what)
  /\ q.kind = "deliver" => approvals[q.on] # None /\ approvals[q.on].document \in Revisions

\* Else not found, or a conflict: neither changes anything.  Deliveries are
\* requested for draft approvals only.
Admissible(q) ==
  /\ q.kind = "approve" =>
       ArtifactOf(q.on, q.what) /\ \A p \in ApprovalsOf(q.on) : approvals[p].artifact = q.what
  /\ q.kind = "deliver" => approvals[q.on] # None /\ approvals[q.on].document \in Revisions

\* The row is locked, admissible and nothing exists yet.
Begin(c, q) ==
  /\ request[c] = None
  /\ ~Locked(q.on)
  /\ Admissible(q)
  /\ Existing(q) = {}
  /\ request' = [request EXCEPT ![c] = q]
  /\ UNCHANGED <<rows, answers>>

\* The same request again is answered with the original.
Repeat(c, q) ==
  /\ request[c] = None
  /\ ~Locked(q.on)
  /\ Admissible(q)
  /\ \E id \in Existing(q) : answers' = answers \cup {[request |-> q, id |-> id]}
  /\ UNCHANGED <<rows, request>>

Answer(c, id) ==
  /\ answers' = answers \cup {[request |-> request[c], id |-> id]}
  /\ request' = [request EXCEPT ![c] = None]

-----------------------------------------------------------------------------
\* An upload takes no lock of its own; the foreign key waits for an approver.
UploadArtifact(d, a) ==
  /\ artifacts[a] = None
  /\ ~Locked(d)
  /\ artifacts' = [artifacts EXCEPT ![a] = [document |-> d, version |-> None]]
  /\ UNCHANGED <<approvals, deliveries, request, answers>>

Working(c, kind) == request[c] # None /\ request[c].kind = kind

GenerateCommit(c, a) ==
  /\ Working(c, "generate")
  /\ artifacts[a] = None
  /\ artifacts' = [artifacts EXCEPT ![a] =
                     [document |-> request[c].on, version |-> request[c].what]]
  /\ Answer(c, a)
  /\ UNCHANGED <<approvals, deliveries>>

\* Mutant of ApprovalFor: the two ids change places.
ApprovalSwapped(q) == [document |-> q.what, artifact |-> q.on]

ApprovalFor(q) == [document |-> q.on, artifact |-> q.what]

ApproveCommit(c, p) ==
  /\ Working(c, "approve")
  /\ approvals[p] = None
  /\ approvals' = [approvals EXCEPT ![p] = ApprovalFor(request[c])]
  /\ Answer(c, p)
  /\ UNCHANGED <<artifacts, deliveries>>

RequestCommit(c, e) ==
  /\ Working(c, "deliver")
  /\ deliveries[e] = None
  /\ deliveries' = [deliveries EXCEPT ![e] = request[c].on]
  /\ Answer(c, e)
  /\ UNCHANGED <<artifacts, approvals>>

\* Rendering, the clock check or the connection fails: rolled back.
CallFails(c) ==
  /\ request[c] # None
  /\ request' = [request EXCEPT ![c] = None]
  /\ UNCHANGED <<rows, answers>>

Next ==
  \/ \E d \in Revisions, a \in ArtifactIds : UploadArtifact(d, a)
  \/ \E c \in Callers :
       \/ \E q \in Requests : Begin(c, q) \/ Repeat(c, q)
       \/ \E a \in ArtifactIds : GenerateCommit(c, a)
       \/ \E p \in ApprovalIds : ApproveCommit(c, p)
       \/ \E e \in DeliveryIds : RequestCommit(c, e)
       \/ CallFails(c)

Spec == Init /\ [][Next]_vars

-----------------------------------------------------------------------------
(* Properties *)

TypeOK ==
  /\ artifacts \in [ArtifactIds -> Artifacts \cup {None}]
  /\ approvals \in [ApprovalIds -> Approvals \cup {None}]
  /\ deliveries \in [DeliveryIds -> ApprovalIds \cup {None}]
  /\ request \in [Callers -> Requests \cup {None}]
  /\ answers \subseteq [request : Requests, id : ArtifactIds \cup ApprovalIds \cup DeliveryIds]

\* The same request is always given the same artifact, approval or delivery,
\* however many callers make it at once (docs/billing-rules.md:110, 112, 143).
\* Proved by name; a run has it within ImplementsBook.
SameRequestSameAnswer ==
  \A x, y \in answers : x.request = y.request => x.id = y.id

\* A document has at most one approval, whatever was asked for at the same
\* time, and it is for an artifact of this very document
\* (docs/billing-rules.md:109; the unique and foreign keys never refuse one).
OneTrueApproval ==
  \A p \in ApprovalIds : approvals[p] # None =>
    /\ ArtifactOf(approvals[p].document, approvals[p].artifact)
    /\ \A q \in ApprovalsOf(approvals[p].document) : q = p

\* A draft revision is delivered at most once, although deliveries know
\* approvals only, and an issued invoice, approved or not, never is
\* (docs/billing-rules.md:112, 134).
OneDeliveryPerRevision ==
  \A e, f \in {x \in DeliveryIds : deliveries[x] # None} :
    /\ approvals[deliveries[e]].document \in Revisions
    /\ approvals[deliveries[e]].document = approvals[deliveries[f]].document => e = f

\* Concurrent calls leave what one call after the other would have: a request
\* takes effect at one instant, its commit, and at most once
\* (docs/billing-rules.md:109-112, 134, 143).
TheOne(ids) == IF ids = {} THEN None ELSE CHOOSE id \in ids : TRUE
Book == INSTANCE RequestBook WITH made <- [q \in Requests |-> TheOne(Existing(q))]
ImplementsBook == Book!Spec
=============================================================================
