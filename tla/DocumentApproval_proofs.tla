------------------------ MODULE DocumentApproval_proofs ------------------------
(***************************************************************************)
(* Proofs about DocumentApproval for every set of documents, ids and        *)
(* concurrent callers.                                                     *)
(*                                                                         *)
(* None of the three properties is inductive: what makes the second of two  *)
(* equal requests find the first one's row is that the lock was held, and   *)
(* what was read under it stayed true, from the check to the commit.  The   *)
(* inductive invariant ApprovalInv says so.                                *)
(***************************************************************************)
EXTENDS DocumentApproval, TLAPS

(* The inductive invariant *)

\* A row is locked by one caller at a time.
LocksExclusive ==
  \A b, c \in Callers :
    request[b] # None /\ request[c] # None /\ request[b].on = request[c].on => b = c

\* Under the lock, what the call was admitted on stays true.
AdmissionStands ==
  \A c \in Callers : request[c] # None => Admissible(request[c]) /\ Existing(request[c]) = {}

\* No two rows were made for the same request.
RowsUnique ==
  /\ \A q \in Requests : \A x, y \in Existing(q) : x = y
  /\ \A p, q \in ApprovalIds :
       approvals[p] # None /\ approvals[q] # None /\ approvals[p].document = approvals[q].document
         => p = q

\* Every answer names a row made for its request.
AnswersBacked == \A x \in answers : x.id \in Existing(x.request)

\* Every approval is for an artifact of its document.
ApprovalsBacked ==
  \A p \in ApprovalIds : approvals[p] # None =>
    ArtifactOf(approvals[p].document, approvals[p].artifact)

\* Every delivery is for an approval of a draft revision.
DeliveriesBacked ==
  \A e \in DeliveryIds : deliveries[e] # None =>
    approvals[deliveries[e]] # None /\ approvals[deliveries[e]].document \in Revisions

ApprovalInv ==
  /\ TypeOK
  /\ LocksExclusive /\ AdmissionStands
  /\ RowsUnique /\ AnswersBacked /\ ApprovalsBacked /\ DeliveriesBacked


-----------------------------------------------------------------------------
(* What the end of a call keeps *)

\* A call that ends unlocks its row; everyone else keeps theirs.
LEMMA EndCall ==
  ASSUME ApprovalInv, NEW c \in Callers, request' = [request EXCEPT ![c] = None]
  PROVE  /\ request' \in [Callers -> Requests \cup {None}]
         /\ request'[c] = None
         /\ \A b \in Callers \ {c} : request'[b] = request[b]
         /\ LocksExclusive'
<1>1. /\ request' \in [Callers -> Requests \cup {None}]
      /\ request'[c] = None
      /\ \A b \in Callers \ {c} : request'[b] = request[b]
  BY DEF ApprovalInv, TypeOK
<1>2. QED
  BY <1>1 DEF ApprovalInv, LocksExclusive

\* Others' rows are not the row a call has locked.
LEMMA OtherRows ==
  ASSUME ApprovalInv, NEW b \in Callers, NEW c \in Callers, b # c,
         request[b] # None, request[c] # None
  PROVE  request[b].on # request[c].on /\ request[b] \in Requests /\ request[c] \in Requests
BY DEF ApprovalInv, LocksExclusive, TypeOK

-----------------------------------------------------------------------------
(* ApprovalInv: initially, and after every step *)

\* Nothing is locked and there are no rows.
LEMMA InitApprovalInv == Init => ApprovalInv
<1> SUFFICES ASSUME Init PROVE ApprovalInv
  OBVIOUS
<1>1. TypeOK
  BY DEF Init, TypeOK
<1>2. LocksExclusive /\ AdmissionStands /\ AnswersBacked /\ ApprovalsBacked /\ DeliveriesBacked
  BY DEF Init, LocksExclusive, AdmissionStands, AnswersBacked, ApprovalsBacked, DeliveriesBacked
<1>3. RowsUnique
  <2>1. \A q \in Requests : Existing(q) = {}
    BY ConstantsAssumption DEF Init, Existing, ApprovalsOf, Requests
  <2>2. QED
    BY <2>1 DEF RowsUnique, Init
<1>4. QED
  BY <1>1, <1>2, <1>3 DEF ApprovalInv

\* Locking a row: nobody holds it, and what is read under it is what was checked.
LEMMA BeginInv ==
  ASSUME ApprovalInv, NEW c \in Callers, NEW q \in Requests, Begin(c, q)
  PROVE  ApprovalInv'
<1> USE DEF ApprovalInv, Begin, rows
<1>1. /\ request'[c] = q
      /\ \A b \in Callers \ {c} : request'[b] = request[b]
  BY DEF TypeOK
<1>2. TypeOK'
  BY DEF TypeOK
<1>3. LocksExclusive'
  BY <1>1 DEF LocksExclusive, Locked
<1>4. AdmissionStands'
  <2> SUFFICES ASSUME NEW b \in Callers, request'[b] # None
               PROVE  (Admissible(request[b]) /\ Existing(request[b]) = {})'
    BY DEF AdmissionStands
  <2>1. Admissible(request'[b]) /\ Existing(request'[b]) = {}
    BY <1>1 DEF AdmissionStands
  <2>2. QED
    BY <2>1 DEF Existing, Admissible, ApprovalsOf, ArtifactOf
<1>5. RowsUnique' /\ AnswersBacked' /\ ApprovalsBacked' /\ DeliveriesBacked'
  BY DEF RowsUnique, AnswersBacked, ApprovalsBacked, DeliveriesBacked, Existing, ApprovalsOf,
         ArtifactOf
<1>6. QED
  BY <1>2, <1>3, <1>4, <1>5

\* A repeated request is answered from the rows, which stay as they are.
LEMMA RepeatInv ==
  ASSUME ApprovalInv, NEW c \in Callers, NEW q \in Requests, Repeat(c, q)
  PROVE  ApprovalInv'
<1> USE DEF ApprovalInv, Repeat, rows
<1>1. PICK id \in Existing(q) : answers' = answers \cup {[request |-> q, id |-> id]}
  OBVIOUS
<1>2. id \in ArtifactIds \cup ApprovalIds \cup DeliveryIds
  BY DEF Existing
<1>3. TypeOK'
  BY <1>1, <1>2 DEF TypeOK
<1>4. LocksExclusive' /\ RowsUnique' /\ ApprovalsBacked' /\ DeliveriesBacked'
  BY DEF LocksExclusive, RowsUnique, ApprovalsBacked, DeliveriesBacked, Existing, ApprovalsOf,
         ArtifactOf
<1>5. AdmissionStands'
  BY DEF AdmissionStands, Existing, Admissible, ApprovalsOf, ArtifactOf
<1>6. AnswersBacked'
  <2>1. \A x \in answers' : x.id \in Existing(x.request)
    BY <1>1 DEF AnswersBacked
  <2>2. QED
    BY <2>1 DEF AnswersBacked, Existing, ApprovalsOf
<1>7. QED
  BY <1>3, <1>4, <1>5, <1>6

\* A call that fails has changed nothing.
LEMMA CallFailsInv ==
  ASSUME ApprovalInv, NEW c \in Callers, CallFails(c)
  PROVE  ApprovalInv'
<1> USE DEF CallFails, rows
<1>1. TypeOK' /\ LocksExclusive'
  BY EndCall DEF ApprovalInv, TypeOK
<1>2. AdmissionStands'
  <2> SUFFICES ASSUME NEW b \in Callers, request'[b] # None
               PROVE  (Admissible(request[b]) /\ Existing(request[b]) = {})'
    BY DEF AdmissionStands
  <2>1. Admissible(request'[b]) /\ Existing(request'[b]) = {}
    BY EndCall DEF ApprovalInv, AdmissionStands
  <2>2. QED
    BY <2>1 DEF Existing, Admissible, ApprovalsOf, ArtifactOf
<1>3. RowsUnique' /\ AnswersBacked' /\ ApprovalsBacked' /\ DeliveriesBacked'
  BY DEF ApprovalInv, RowsUnique, AnswersBacked, ApprovalsBacked, DeliveriesBacked, Existing,
         ApprovalsOf, ArtifactOf
<1>4. QED
  BY <1>1, <1>2, <1>3 DEF ApprovalInv

\* An upload makes nothing any request asks for.
LEMMA UploadInv ==
  ASSUME ApprovalInv, NEW d \in Revisions, NEW a \in ArtifactIds, UploadArtifact(d, a)
  PROVE  ApprovalInv'
<1> DEFINE new == [document |-> d, version |-> None]
<1>1. new \in Artifacts /\ new # None
  BY NoneIsNoRow DEF Artifacts, Documents
<1>2. /\ artifacts'[a] = new /\ artifacts[a] = None
      /\ \A x \in ArtifactIds \ {a} : artifacts'[x] = artifacts[x]
      /\ UNCHANGED <<approvals, deliveries, request, answers>>
      /\ artifacts' \in [ArtifactIds -> Artifacts \cup {None}]
  BY <1>1 DEF UploadArtifact, ApprovalInv, TypeOK
<1> HIDE DEF new
<1>3. TypeOK'
  BY <1>2 DEF ApprovalInv, TypeOK
<1>4. LocksExclusive'
  BY <1>2 DEF ApprovalInv, LocksExclusive
<1>5. ASSUME NEW q \in Requests
      PROVE  Existing(q)' = Existing(q) /\ (Admissible(q) => Admissible(q)')
  <2>1. \A x \in ArtifactIds : ArtifactOf(q.on, x) => ArtifactOf(q.on, x)'
    BY <1>2 DEF ArtifactOf
  <2>2. ApprovalsOf(q.on)' = ApprovalsOf(q.on)
    BY <1>2 DEF ApprovalsOf
  <2>3. Admissible(q) => Admissible(q)'
    BY <1>2, <2>1, <2>2 DEF Admissible, Requests
  <2>4. q.kind = "generate" => new # [document |-> q.on, version |-> q.what]
    BY ConstantsAssumption DEF Requests, new
  <2>5. {x \in ArtifactIds : q.kind = "generate" /\ artifacts'[x] # None /\
           artifacts'[x] = [document |-> q.on, version |-> q.what]}
        = {x \in ArtifactIds : q.kind = "generate" /\ artifacts[x] # None /\
             artifacts[x] = [document |-> q.on, version |-> q.what]}
    BY <1>2, <2>4
  <2>6. Existing(q)' = Existing(q)
    BY <1>2, <2>2, <2>5 DEF Existing
  <2>7. QED
    BY <2>3, <2>6
<1>6. AdmissionStands'
  BY <1>2, <1>5 DEF ApprovalInv, TypeOK, AdmissionStands
<1>7. RowsUnique' /\ AnswersBacked'
  BY <1>2, <1>5 DEF ApprovalInv, TypeOK, RowsUnique, AnswersBacked
<1>8. ApprovalsBacked'
  <2>1. \A x \in ArtifactIds : \A doc : ArtifactOf(doc, x) => ArtifactOf(doc, x)'
    BY <1>2 DEF ArtifactOf
  <2>2. \A p \in ApprovalIds : approvals[p] # None => approvals[p].artifact \in ArtifactIds
    BY DEF ApprovalInv, TypeOK, Approvals
  <2>3. QED
    BY <1>2, <2>1, <2>2 DEF ApprovalInv, ApprovalsBacked
<1>9. DeliveriesBacked'
  BY <1>2 DEF ApprovalInv, DeliveriesBacked
<1>10. QED
  BY <1>3, <1>4, <1>6, <1>7, <1>8, <1>9 DEF ApprovalInv

\* What a commit owes to the other callers: it adds a row for its own request, and
\* to those that lock other rows nothing changes.
LEMMA CommitKeeps ==
  ASSUME ApprovalInv, NEW c \in Callers, NEW mine \in Requests, NEW id,
         request[c] = mine, mine # None, Answer(c, id),
         id \in Existing(mine)',
         \A q \in Requests : Existing(q) \subseteq Existing(q)',
         \A q \in Requests : q.on # mine.on =>
           Existing(q)' = Existing(q) /\ (Admissible(q) => Admissible(q)')
  PROVE  LocksExclusive' /\ AdmissionStands' /\ AnswersBacked'
<1>1. /\ request'[c] = None
      /\ \A b \in Callers \ {c} : request'[b] = request[b]
      /\ LocksExclusive'
  BY EndCall DEF Answer
<1>2. AdmissionStands'
  <2> SUFFICES ASSUME NEW b \in Callers, request'[b] # None
               PROVE  (Admissible(request[b]) /\ Existing(request[b]) = {})'
    BY DEF AdmissionStands
  <2>1. b # c /\ request'[b] = request[b]
    BY <1>1
  <2>2. request[b].on # mine.on /\ request[b] \in Requests
    BY <2>1, OtherRows
  <2>3. Admissible(request[b]) /\ Existing(request[b]) = {}
    BY <2>1 DEF ApprovalInv, AdmissionStands
  <2>4. PICK q \in Requests : q = request[b]
    BY <2>2
  <2>5. Admissible(q)' /\ Existing(q)' = {}
    BY <2>2, <2>3, <2>4
  <2>6. QED
    BY <2>1, <2>4, <2>5 DEF Admissible, Existing, ApprovalsOf, ArtifactOf
<1>3. AnswersBacked'
  <2>1. answers' = answers \cup {[request |-> mine, id |-> id]}
    BY DEF Answer
  <2>2. \A x \in answers : x.id \in Existing(x.request)'
    BY DEF ApprovalInv, AnswersBacked, TypeOK
  <2>3. QED
    BY <2>1, <2>2 DEF AnswersBacked
<1>4. QED
  BY <1>1, <1>2, <1>3

\* generate_pdf adds the one artifact of its renderer version.
LEMMA GenerateInv ==
  ASSUME ApprovalInv, NEW c \in Callers, NEW a \in ArtifactIds, GenerateCommit(c, a)
  PROVE  ApprovalInv'
<1>1. PICK mine \in Requests : mine = request[c]
  BY DEF GenerateCommit, Working, ApprovalInv, TypeOK
<1> DEFINE new == [document |-> mine.on, version |-> mine.what]
<1>2. /\ mine.kind = "generate" /\ mine.on \in Invoices /\ mine.what \in Versions
      /\ request[c] # None /\ Existing(mine) = {}
  BY <1>1 DEF GenerateCommit, Working, ApprovalInv, AdmissionStands, Requests
<1>3. new \in Artifacts /\ new # None
  BY <1>2, NoneIsNoRow DEF Artifacts, Documents
<1>4. /\ artifacts'[a] = new /\ artifacts[a] = None
      /\ \A x \in ArtifactIds \ {a} : artifacts'[x] = artifacts[x]
      /\ artifacts' \in [ArtifactIds -> Artifacts \cup {None}]
      /\ UNCHANGED <<approvals, deliveries>>
  BY <1>1, <1>3 DEF GenerateCommit, ApprovalInv, TypeOK
<1>5. /\ request' = [request EXCEPT ![c] = None]
      /\ answers' = answers \cup {[request |-> mine, id |-> a]}
      /\ Answer(c, a)
  BY <1>1 DEF GenerateCommit, Answer
<1>6. TypeOK'
  BY <1>4, <1>5, EndCall DEF ApprovalInv, TypeOK
<1>7. ASSUME NEW q \in Requests
      PROVE  /\ Existing(q) \subseteq Existing(q)'
             /\ q.on # mine.on => Existing(q)' = Existing(q)
             /\ Admissible(q) => Admissible(q)'
             /\ \A x, y \in Existing(q)' : x = y
  <2> DEFINE wanted == [document |-> q.on, version |-> q.what]
             before == {x \in ArtifactIds : artifacts[x] # None /\ artifacts[x] = wanted}
             after == {x \in ArtifactIds : artifacts'[x] # None /\ artifacts'[x] = wanted}
  <2>1. \A x \in ArtifactIds : ArtifactOf(q.on, x) => ArtifactOf(q.on, x)'
    BY <1>4 DEF ArtifactOf
  <2>2. ApprovalsOf(q.on)' = ApprovalsOf(q.on)
    BY <1>4 DEF ApprovalsOf
  <2>3. Admissible(q) => Admissible(q)'
    BY <1>4, <2>1, <2>2 DEF Admissible, Requests
  <2>4. /\ q.kind = "generate" => Existing(q) = before /\ Existing(q)' = after
        /\ q.kind # "generate" => Existing(q)' = Existing(q)
    BY <1>4, <2>2 DEF Existing, Requests
  <2>5. wanted = new => before = {} /\ after = {a}
    BY <1>2, <1>3, <1>4 DEF Existing
  <2>6. wanted # new => after = before
    BY <1>3, <1>4
  <2>7. wanted = new => q.on = mine.on
    OBVIOUS
  <2>8. \A x, y \in Existing(q) : x = y
    BY DEF ApprovalInv, RowsUnique
  <2> HIDE DEF wanted, before, after, new
  <2>9. QED
    BY <2>3, <2>4, <2>5, <2>6, <2>7, <2>8
<1>8. a \in Existing(mine)'
  BY <1>2, <1>3, <1>4 DEF Existing
<1>9. LocksExclusive' /\ AdmissionStands' /\ AnswersBacked'
  BY <1>1, <1>2, <1>5, <1>7, <1>8, CommitKeeps
<1>10. RowsUnique'
  BY <1>4, <1>7 DEF ApprovalInv, RowsUnique
<1>11. ApprovalsBacked'
  <2>1. \A x \in ArtifactIds : \A doc : ArtifactOf(doc, x) => ArtifactOf(doc, x)'
    BY <1>4 DEF ArtifactOf
  <2>2. \A p \in ApprovalIds : approvals[p] # None => approvals[p].artifact \in ArtifactIds
    BY DEF ApprovalInv, TypeOK, Approvals
  <2>3. QED
    BY <1>4, <2>1, <2>2 DEF ApprovalInv, ApprovalsBacked
<1>12. DeliveriesBacked'
  BY <1>4 DEF ApprovalInv, DeliveriesBacked
<1>13. QED
  BY <1>6, <1>9, <1>10, <1>11, <1>12 DEF ApprovalInv

\* approve adds the one approval of its document.
LEMMA ApproveInv ==
  ASSUME ApprovalInv, NEW c \in Callers, NEW p \in ApprovalIds, ApproveCommit(c, p)
  PROVE  ApprovalInv'
<1>1. PICK mine \in Requests : mine = request[c]
  BY DEF ApproveCommit, Working, ApprovalInv, TypeOK
<1> DEFINE new == [document |-> mine.on, artifact |-> mine.what]
<1>2. /\ mine.kind = "approve" /\ mine.on \in Documents /\ mine.what \in ArtifactIds
      /\ request[c] # None /\ Existing(mine) = {} /\ Admissible(mine)
  BY <1>1 DEF ApproveCommit, Working, ApprovalInv, AdmissionStands, Requests
<1>3. new \in Approvals /\ new # None
  BY <1>2, NoneIsNoRow DEF Approvals
<1>4. /\ approvals'[p] = new /\ approvals[p] = None
      /\ \A x \in ApprovalIds \ {p} : approvals'[x] = approvals[x]
      /\ approvals' \in [ApprovalIds -> Approvals \cup {None}]
      /\ UNCHANGED <<artifacts, deliveries>>
  BY <1>1, <1>3 DEF ApproveCommit, ApprovalFor, ApprovalInv, TypeOK
<1>5. /\ request' = [request EXCEPT ![c] = None]
      /\ answers' = answers \cup {[request |-> mine, id |-> p]}
      /\ Answer(c, p)
  BY <1>1 DEF ApproveCommit, Answer
<1>6. TypeOK'
  BY <1>4, <1>5, EndCall DEF ApprovalInv, TypeOK
<1>7. /\ ArtifactOf(mine.on, mine.what) /\ ApprovalsOf(mine.on) = {}
      /\ ApprovalsOf(mine.on)' = {p}
      /\ \A d : d # mine.on => ApprovalsOf(d)' = ApprovalsOf(d)
  <2>1. ArtifactOf(mine.on, mine.what) /\ ApprovalsOf(mine.on) = {}
    BY <1>2 DEF Existing, Admissible, ApprovalsOf
  <2>2. ApprovalsOf(mine.on)' = {p}
    BY <1>3, <1>4, <2>1 DEF ApprovalsOf
  <2>3. ASSUME NEW d, d # mine.on PROVE ApprovalsOf(d)' = ApprovalsOf(d)
    BY <1>3, <1>4, <2>3 DEF ApprovalsOf
  <2>4. QED
    BY <2>1, <2>2, <2>3
<1> HIDE DEF new
<1>8. ASSUME NEW q \in Requests
      PROVE  /\ Existing(q) \subseteq Existing(q)'
             /\ q.on # mine.on => Existing(q)' = Existing(q)
             /\ q.on # mine.on => (Admissible(q) => Admissible(q)')
             /\ \A x, y \in Existing(q)' : x = y
  <2>1. \A x \in ApprovalIds : approvals[x] # None => approvals'[x] = approvals[x]
    BY <1>4
  <2>2. q.kind = "deliver" /\ Admissible(q) => Admissible(q)'
    BY <2>1 DEF Admissible, Requests
  <2>3. q.on # mine.on => (Admissible(q) => Admissible(q)')
    <3>1. CASE q.kind = "deliver"
      BY <2>2, <3>1
    <3>2. CASE q.kind # "deliver"
      BY <1>4, <1>7, <2>1, <3>2 DEF Admissible, ArtifactOf, ApprovalsOf
    <3>3. QED
      BY <3>1, <3>2
  <2>4. q.kind # "approve" => Existing(q)' = Existing(q)
    BY <1>4 DEF Existing, Requests
  <2>5. q.kind = "approve" =>
          /\ Existing(q) = {x \in ApprovalIds : x \in ApprovalsOf(q.on) /\ approvals[x].artifact = q.what}
          /\ Existing(q)' = {x \in ApprovalIds : x \in ApprovalsOf(q.on)' /\ approvals'[x].artifact = q.what}
    BY DEF Existing
  <2>6. q.kind = "approve" /\ q.on = mine.on => Existing(q) = {} /\ Existing(q)' \subseteq {p}
    BY <1>7, <2>5
  <2>7. q.kind = "approve" /\ q.on # mine.on => Existing(q)' = Existing(q)
    <3>1. q.on # mine.on => ApprovalsOf(q.on)' = ApprovalsOf(q.on)
      BY <1>7
    <3>2. \A x \in ApprovalsOf(q.on) : approvals'[x] = approvals[x]
      BY <2>1 DEF ApprovalsOf
    <3>3. QED
      BY <3>1, <3>2, <2>5
  <2>8. \A x, y \in Existing(q) : x = y
    BY DEF ApprovalInv, RowsUnique
  <2>9. QED
    BY <2>3, <2>4, <2>6, <2>7, <2>8
<1>9. p \in Existing(mine)'
  BY <1>2, <1>4, <1>7 DEF Existing, new
<1>10. LocksExclusive' /\ AdmissionStands' /\ AnswersBacked'
  BY <1>1, <1>2, <1>5, <1>8, <1>9, CommitKeeps
<1>11. RowsUnique'
  <2>1. \A x, y \in ApprovalIds :
          approvals'[x] # None /\ approvals'[y] # None
            /\ approvals'[x].document = approvals'[y].document => x = y
    <3>1. \A x \in ApprovalIds \ {p} : approvals[x] # None => approvals[x].document # mine.on
      BY <1>7 DEF ApprovalsOf
    <3>2. approvals'[p].document = mine.on
      BY <1>4 DEF new
    <3>3. QED
      BY <1>4, <3>1, <3>2 DEF ApprovalInv, RowsUnique
  <2>2. QED
    BY <1>8, <2>1 DEF RowsUnique
<1>12. ApprovalsBacked'
  BY <1>4, <1>7 DEF ApprovalInv, ApprovalsBacked, ArtifactOf, new
<1>13. DeliveriesBacked'
  <2>1. \A e \in DeliveryIds : deliveries[e] # None => deliveries[e] \in ApprovalIds
    BY DEF ApprovalInv, TypeOK
  <2>2. QED
    BY <1>4, <2>1 DEF ApprovalInv, DeliveriesBacked
<1>14. QED
  BY <1>6, <1>10, <1>11, <1>12, <1>13 DEF ApprovalInv

\* request adds the one delivery of its approval.
LEMMA RequestInv ==
  ASSUME ApprovalInv, NEW c \in Callers, NEW e \in DeliveryIds, RequestCommit(c, e)
  PROVE  ApprovalInv'
<1>1. PICK mine \in Requests : mine = request[c]
  BY DEF RequestCommit, Working, ApprovalInv, TypeOK
<1>2. /\ mine.kind = "deliver" /\ mine.on \in ApprovalIds /\ mine.on # None
      /\ request[c] # None /\ Existing(mine) = {} /\ Admissible(mine)
  BY <1>1, ConstantsAssumption
     DEF RequestCommit, Working, ApprovalInv, AdmissionStands, Requests
<1>3. /\ deliveries'[e] = mine.on /\ deliveries[e] = None
      /\ \A x \in DeliveryIds \ {e} : deliveries'[x] = deliveries[x]
      /\ deliveries' \in [DeliveryIds -> ApprovalIds \cup {None}]
      /\ UNCHANGED <<artifacts, approvals>>
  BY <1>1, <1>2 DEF RequestCommit, ApprovalInv, TypeOK
<1>4. /\ request' = [request EXCEPT ![c] = None]
      /\ answers' = answers \cup {[request |-> mine, id |-> e]}
      /\ Answer(c, e)
  BY <1>1 DEF RequestCommit, Answer
<1>5. TypeOK'
  BY <1>3, <1>4, EndCall DEF ApprovalInv, TypeOK
<1>6. \A x \in DeliveryIds : deliveries[x] # mine.on
  BY <1>2 DEF Existing
<1>7. ASSUME NEW q \in Requests
      PROVE  /\ Existing(q) \subseteq Existing(q)'
             /\ q.on # mine.on => Existing(q)' = Existing(q)
             /\ Admissible(q) => Admissible(q)'
             /\ \A x, y \in Existing(q)' : x = y
  <2>1. Admissible(q) => Admissible(q)'
    BY <1>3 DEF Admissible, ArtifactOf, ApprovalsOf
  <2>2. q.kind # "deliver" => Existing(q)' = Existing(q)
    BY <1>3 DEF Existing, ApprovalsOf, Requests
  <2>3. q.kind = "deliver" =>
          /\ q.on # None
          /\ Existing(q) = {x \in DeliveryIds : deliveries[x] = q.on}
          /\ Existing(q)' = {x \in DeliveryIds : deliveries'[x] = q.on}
    BY ConstantsAssumption DEF Existing, Requests
  <2>4. q.kind = "deliver" /\ q.on = mine.on => Existing(q) = {} /\ Existing(q)' \subseteq {e}
    BY <1>3, <1>6, <2>3
  <2>5. q.kind = "deliver" /\ q.on # mine.on => Existing(q)' = Existing(q)
    BY <1>3, <2>3
  <2>6. \A x, y \in Existing(q) : x = y
    BY DEF ApprovalInv, RowsUnique
  <2>7. QED
    BY <2>1, <2>2, <2>4, <2>5, <2>6
<1>8. e \in Existing(mine)'
  BY <1>2, <1>3 DEF Existing
<1>9. LocksExclusive' /\ AdmissionStands' /\ AnswersBacked'
  BY <1>1, <1>2, <1>4, <1>7, <1>8, CommitKeeps
<1>10. RowsUnique' /\ ApprovalsBacked'
  BY <1>3, <1>7 DEF ApprovalInv, RowsUnique, ApprovalsBacked, ArtifactOf
<1>11. DeliveriesBacked'
  BY <1>2, <1>3 DEF ApprovalInv, DeliveriesBacked, Admissible
<1>12. QED
  BY <1>5, <1>9, <1>10, <1>11 DEF ApprovalInv

\* Every step keeps the invariant.
LEMMA ApprovalInvStep == ApprovalInv /\ [Next]_vars => ApprovalInv'
<1> SUFFICES ASSUME ApprovalInv, [Next]_vars PROVE ApprovalInv'
  OBVIOUS
<1>1. ASSUME NEW d \in Revisions, NEW a \in ArtifactIds, UploadArtifact(d, a)
      PROVE  ApprovalInv'
  BY <1>1, UploadInv
<1>2. ASSUME NEW c \in Callers, NEW q \in Requests, Begin(c, q) \/ Repeat(c, q)
      PROVE  ApprovalInv'
  BY <1>2, BeginInv, RepeatInv
<1>3. ASSUME NEW c \in Callers, NEW a \in ArtifactIds, GenerateCommit(c, a)
      PROVE  ApprovalInv'
  BY <1>3, GenerateInv
<1>4. ASSUME NEW c \in Callers, NEW p \in ApprovalIds, ApproveCommit(c, p)
      PROVE  ApprovalInv'
  BY <1>4, ApproveInv
<1>5. ASSUME NEW c \in Callers, NEW e \in DeliveryIds, RequestCommit(c, e)
      PROVE  ApprovalInv'
  BY <1>5, RequestInv
<1>6. ASSUME NEW c \in Callers, CallFails(c)
      PROVE  ApprovalInv'
  BY <1>6, CallFailsInv
<1>7. ASSUME UNCHANGED vars
      PROVE  ApprovalInv'
  BY <1>7 DEF vars, rows, ApprovalInv, TypeOK, LocksExclusive, AdmissionStands, RowsUnique,
         AnswersBacked, ApprovalsBacked, DeliveriesBacked, Existing, Admissible, ApprovalsOf, ArtifactOf
<1>8. QED
  BY <1>1, <1>2, <1>3, <1>4, <1>5, <1>6, <1>7 DEF Next

-----------------------------------------------------------------------------
(* The theorems *)

\* Locks are exclusive and what was checked under them stands until the commit.
THEOREM ApprovalInvariance == Spec => []ApprovalInv
  BY InitApprovalInv, ApprovalInvStep, PTL DEF Spec

\* Every row, request and answer is of its kind.
THEOREM TypeCorrect == Spec => []TypeOK
<1>1. ApprovalInv => TypeOK
  BY DEF ApprovalInv
<1>2. QED
  BY <1>1, ApprovalInvariance, PTL

\* generate_pdf, approve and request give every caller that asks for the same thing
\* the same artifact, approval or delivery.
THEOREM SameRequestIsAnsweredAlike == Spec => []SameRequestSameAnswer
<1>1. ApprovalInv => SameRequestSameAnswer
  BY DEF ApprovalInv, TypeOK, AnswersBacked, RowsUnique, SameRequestSameAnswer
<1>2. QED
  BY <1>1, ApprovalInvariance, PTL

\* A document is approved once, for an artifact of its own.
THEOREM ApprovalsAreTrue == Spec => []OneTrueApproval
<1>1. ApprovalInv => OneTrueApproval
  BY DEF ApprovalInv, RowsUnique, ApprovalsBacked, ApprovalsOf, OneTrueApproval
<1>2. QED
  BY <1>1, ApprovalInvariance, PTL

\* A draft revision has one delivery at most, an issued invoice none.
THEOREM RevisionsAreDeliveredOnce == Spec => []OneDeliveryPerRevision
<1>1. ASSUME ApprovalInv PROVE OneDeliveryPerRevision
  <2> SUFFICES ASSUME NEW e \in DeliveryIds, NEW f \in DeliveryIds,
                      deliveries[e] # None, deliveries[f] # None
               PROVE  /\ approvals[deliveries[e]].document \in Revisions
                      /\ approvals[deliveries[e]].document = approvals[deliveries[f]].document
                           => e = f
    BY DEF OneDeliveryPerRevision
  <2>1. deliveries[e] \in ApprovalIds /\ deliveries[f] \in ApprovalIds
    BY <1>1 DEF ApprovalInv, TypeOK
  <2>2. /\ approvals[deliveries[e]] # None /\ approvals[deliveries[f]] # None
        /\ approvals[deliveries[e]].document \in Revisions
    BY <1>1 DEF ApprovalInv, DeliveriesBacked
  <2>3. approvals[deliveries[e]].document = approvals[deliveries[f]].document
          => deliveries[e] = deliveries[f]
    BY <1>1, <2>1, <2>2 DEF ApprovalInv, RowsUnique
  <2>4. ASSUME deliveries[e] = deliveries[f] PROVE e = f
    <3> DEFINE q == [kind |-> "deliver", on |-> deliveries[e], what |-> None]
    <3>1. q \in Requests
      BY <2>1 DEF Requests
    <3>2. e \in Existing(q) /\ f \in Existing(q)
      BY <2>4 DEF Existing
    <3>3. QED
      BY <1>1, <3>1, <3>2 DEF ApprovalInv, RowsUnique
  <2>5. QED
    BY <2>2, <2>3, <2>4
<1>2. QED
  BY <1>1, ApprovalInvariance, PTL

-----------------------------------------------------------------------------
(* DocumentApproval implements RequestBook *)

\* Only what was generated is an artifact of an issued invoice.
InvoicesGenerated ==
  \A a \in ArtifactIds : artifacts[a] # None /\ artifacts[a].document \in Invoices =>
    artifacts[a].version \in Versions

BookInv == ApprovalInv /\ InvoicesGenerated

\* There are no artifacts at first.
LEMMA InitBookInv == Init => BookInv
BY InitApprovalInv DEF Init, BookInv, InvoicesGenerated

\* A generated artifact names its version, an uploaded one a draft revision.
LEMMA BookInvStep == BookInv /\ [Next]_vars => BookInv'
<1> SUFFICES ASSUME BookInv, [Next]_vars PROVE BookInv'
  OBVIOUS
<1>1. ApprovalInv /\ ApprovalInv'
  BY ApprovalInvStep DEF BookInv
<1>2. ASSUME UNCHANGED artifacts PROVE InvoicesGenerated'
  BY <1>2 DEF BookInv, InvoicesGenerated
<1>3. ASSUME NEW d \in Revisions, NEW a \in ArtifactIds, UploadArtifact(d, a)
      PROVE  InvoicesGenerated'
  <2>1. d \notin Invoices
    BY ConstantsAssumption
  <2>2. /\ artifacts'[a].document = d
        /\ \A x \in ArtifactIds \ {a} : artifacts'[x] = artifacts[x]
    BY <1>1, <1>3 DEF UploadArtifact, ApprovalInv, TypeOK
  <2>3. QED
    BY <2>1, <2>2 DEF BookInv, InvoicesGenerated
<1>4. ASSUME NEW c \in Callers, NEW a \in ArtifactIds, GenerateCommit(c, a)
      PROVE  InvoicesGenerated'
  <2>1. request[c] \in Requests /\ request[c].kind = "generate"
    BY <1>1, <1>4 DEF GenerateCommit, Working, ApprovalInv, TypeOK
  <2>2. request[c].what \in Versions
    BY <2>1 DEF Requests
  <2>3. /\ artifacts'[a].version = request[c].what
        /\ \A x \in ArtifactIds \ {a} : artifacts'[x] = artifacts[x]
    BY <1>1, <1>4 DEF GenerateCommit, ApprovalInv, TypeOK
  <2>4. QED
    BY <2>2, <2>3 DEF BookInv, InvoicesGenerated
<1>5. CASE UNCHANGED vars
  BY <1>1, <1>2, <1>5 DEF vars, rows, BookInv
<1>6. CASE Next
  <2>1. \A c \in Callers : \A q \in Requests : Begin(c, q) \/ Repeat(c, q) => UNCHANGED artifacts
    BY DEF Begin, Repeat, rows
  <2>2. \A c \in Callers : \A p \in ApprovalIds : ApproveCommit(c, p) => UNCHANGED artifacts
    BY DEF ApproveCommit
  <2>3. \A c \in Callers : \A e \in DeliveryIds : RequestCommit(c, e) => UNCHANGED artifacts
    BY DEF RequestCommit
  <2>4. \A c \in Callers : CallFails(c) => UNCHANGED artifacts
    BY DEF CallFails, rows
  <2>5. InvoicesGenerated'
    BY <1>2, <1>3, <1>4, <1>6, <2>1, <2>2, <2>3, <2>4 DEF Next
  <2>6. QED
    BY <1>1, <2>5 DEF BookInv
<1>7. QED
  BY <1>5, <1>6

\* The one id made for a request, if any.
LEMMA TheOneIs ==
  ASSUME NEW ids, \A x, y \in ids : x = y
  PROVE  /\ ids = {} => TheOne(ids) = None
         /\ \A x \in ids : TheOne(ids) = x
BY DEF TheOne

\* What is entered in the book for a request.
LEMMA EntryIs ==
  ASSUME ApprovalInv, NEW q \in Requests
  PROVE  /\ Existing(q) = {} => TheOne(Existing(q)) = None
         /\ \A x \in Existing(q) : TheOne(Existing(q)) = x /\ x # None
         /\ \A x : x # None /\ TheOne(Existing(q)) = x => x \in Existing(q)
<1>1. \A x, y \in Existing(q) : x = y
  BY DEF ApprovalInv, RowsUnique
<1>2. \A x \in Existing(q) : x # None
  BY ConstantsAssumption DEF Existing
<1>3. QED
  BY <1>1, <1>2, TheOneIs

\* No request finds anything else, and no answer is given: the book is as it was.
LEMMA BookStands ==
  ASSUME \A q \in Requests : Existing(q)' = Existing(q), UNCHANGED answers
  PROVE  UNCHANGED Book!vars
BY DEF Book!vars

\* One request finds a new row, no other does: it is entered in the book.
LEMMA CommitEnters ==
  ASSUME ApprovalInv, ApprovalInv',
         NEW mine \in Requests, NEW id, id \in Existing(mine)', Existing(mine) = {},
         id \in Book!IdsFor(mine),
         \A q \in Requests \ {mine} : Existing(q)' = Existing(q),
         \A q \in Requests : q.kind = mine.kind => id \notin Existing(q),
         \A q \in Requests : Book!Rivals(mine, q) => Existing(q) = {},
         Book!Founded(mine),
         answers' = answers \cup {[request |-> mine, id |-> id]}
  PROVE  Book!Next
<1> DEFINE made == [q \in Requests |-> TheOne(Existing(q))]
<1>1. \A q \in Requests : made[q] = TheOne(Existing(q))
  OBVIOUS
<1>2. made[mine] = None
  BY <1>1, EntryIs
<1>3. \A x, y \in Existing(mine)' : x = y
  BY DEF ApprovalInv, RowsUnique
<1>4. TheOne(Existing(mine)') = id
  BY <1>3, TheOneIs
<1>5. \A q \in Requests \ {mine} : TheOne(Existing(q)') = TheOne(Existing(q))
  OBVIOUS
<1>6. [q \in Requests |-> TheOne(Existing(q)')] = [made EXCEPT ![mine] = id]
  BY <1>4, <1>5
<1>7. \A r \in Requests : Book!Rivals(mine, r) => made[r] = None
  BY <1>1, EntryIs
<1>8. id # None
  BY ConstantsAssumption DEF Book!IdsFor
<1>9. \A r \in Requests : r.kind = mine.kind => made[r] # id
  BY <1>1, <1>8, EntryIs
<1>10. Book!Make(mine, id)
  BY <1>2, <1>6, <1>7, <1>9 DEF Book!Make
<1>11. QED
  BY <1>10 DEF Book!Next

\* A request that finds its row reads it out of the book.
LEMMA BookAgain ==
  ASSUME BookInv, NEW c \in Callers, NEW q \in Requests, Repeat(c, q)
  PROVE  Book!Next
<1>1. PICK id \in Existing(q) : answers' = answers \cup {[request |-> q, id |-> id]}
  BY DEF Repeat
<1>2. TheOne(Existing(q)) = id /\ id # None
  BY <1>1, EntryIs DEF BookInv
<1>3. \A r \in Requests : Existing(r)' = Existing(r)
  BY DEF Repeat, rows, Existing, ApprovalsOf
<1>4. Book!Again(q)
  BY <1>1, <1>2, <1>3 DEF Book!Again
<1>5. QED
  BY <1>4 DEF Book!Next

\* An upload is nothing any request asks for.
LEMMA BookUpload ==
  ASSUME BookInv, NEW d \in Revisions, NEW a \in ArtifactIds, UploadArtifact(d, a)
  PROVE  UNCHANGED Book!vars
<1>1. /\ artifacts[a] = None /\ artifacts'[a].version = None
      /\ \A x \in ArtifactIds \ {a} : artifacts'[x] = artifacts[x]
      /\ UNCHANGED <<approvals, deliveries, answers>>
  BY DEF UploadArtifact, BookInv, ApprovalInv, TypeOK
<1>2. ASSUME NEW q \in Requests PROVE Existing(q)' = Existing(q)
  <2>1. q.kind = "generate" => q.what # None
    BY ConstantsAssumption DEF Requests
  <2>2. \A x \in ArtifactIds :
          q.kind = "generate" /\ artifacts'[x] = [document |-> q.on, version |-> q.what]
            => x # a
    BY <1>1, <2>1
  <2>3. \A x \in ArtifactIds :
          q.kind = "generate" /\ artifacts[x] # None /\ artifacts[x] = [document |-> q.on, version |-> q.what]
            => x # a
    BY <1>1
  <2>4. {x \in ArtifactIds : q.kind = "generate" /\ artifacts'[x] # None /\
           artifacts'[x] = [document |-> q.on, version |-> q.what]}
        = {x \in ArtifactIds : q.kind = "generate" /\ artifacts[x] # None /\
             artifacts[x] = [document |-> q.on, version |-> q.what]}
    BY <1>1, <2>2, <2>3
  <2>5. QED
    BY <1>1, <2>4 DEF Existing, ApprovalsOf
<1>3. QED
  BY <1>1, <1>2, BookStands

\* generate_pdf enters the artifact it commits.
LEMMA BookGenerate ==
  ASSUME BookInv, NEW c \in Callers, NEW a \in ArtifactIds, GenerateCommit(c, a)
  PROVE  Book!Next
<1>1. PICK mine \in Requests : mine = request[c]
  BY DEF GenerateCommit, Working, BookInv, ApprovalInv, TypeOK
<1>2. /\ mine.kind = "generate" /\ mine.on \in Invoices /\ mine.what \in Versions
      /\ Existing(mine) = {}
  BY <1>1 DEF GenerateCommit, Working, BookInv, ApprovalInv, AdmissionStands, Requests
<1> DEFINE new == [document |-> mine.on, version |-> mine.what]
<1>3. new # None
  BY <1>2, NoneIsNoRow DEF Artifacts, Documents
<1>4. /\ artifacts[a] = None /\ artifacts'[a] = new
      /\ \A x \in ArtifactIds \ {a} : artifacts'[x] = artifacts[x]
      /\ UNCHANGED <<approvals, deliveries>>
      /\ answers' = answers \cup {[request |-> mine, id |-> a]}
  BY <1>1 DEF GenerateCommit, Answer, BookInv, ApprovalInv, TypeOK
<1>5. a \in Existing(mine)'
  BY <1>2, <1>3, <1>4 DEF Existing
<1>6. ASSUME NEW q \in Requests \ {mine} PROVE Existing(q)' = Existing(q)
  <2>1. q.kind = "generate" => new # [document |-> q.on, version |-> q.what]
    BY <1>2 DEF Requests
  <2>2. {x \in ArtifactIds : q.kind = "generate" /\ artifacts'[x] # None /\
           artifacts'[x] = [document |-> q.on, version |-> q.what]}
        = {x \in ArtifactIds : q.kind = "generate" /\ artifacts[x] # None /\
             artifacts[x] = [document |-> q.on, version |-> q.what]}
    BY <1>4, <2>1
  <2>3. QED
    BY <1>4, <2>2 DEF Existing, ApprovalsOf
<1>7. \A q \in Requests : q.kind = mine.kind => a \notin Existing(q)
  BY <1>2, <1>4 DEF Existing
<1>8. a \in Book!IdsFor(mine) /\ Book!Founded(mine) /\ \A q \in Requests : ~Book!Rivals(mine, q)
  BY <1>2 DEF Book!IdsFor, Book!Founded, Book!Rivals
<1>9. ApprovalInv /\ ApprovalInv'
  BY GenerateInv DEF BookInv
<1>10. QED
  BY <1>2, <1>4, <1>5, <1>6, <1>7, <1>8, <1>9, CommitEnters

\* approve enters its approval, where no rival was, for an artifact of the book.
LEMMA BookApprove ==
  ASSUME BookInv, NEW c \in Callers, NEW p \in ApprovalIds, ApproveCommit(c, p)
  PROVE  Book!Next
<1>1. PICK mine \in Requests : mine = request[c]
  BY DEF ApproveCommit, Working, BookInv, ApprovalInv, TypeOK
<1>2. /\ mine.kind = "approve" /\ mine.on \in Documents /\ mine.what \in ArtifactIds
      /\ Existing(mine) = {} /\ Admissible(mine)
  BY <1>1 DEF ApproveCommit, Working, BookInv, ApprovalInv, AdmissionStands, Requests
<1> DEFINE new == [document |-> mine.on, artifact |-> mine.what]
<1>3. new # None
  BY <1>2, NoneIsNoRow DEF Approvals
<1>4. /\ approvals[p] = None /\ approvals'[p] = new
      /\ \A x \in ApprovalIds \ {p} : approvals'[x] = approvals[x]
      /\ UNCHANGED <<artifacts, deliveries>>
      /\ answers' = answers \cup {[request |-> mine, id |-> p]}
  BY <1>1 DEF ApproveCommit, ApprovalFor, Answer, BookInv, ApprovalInv, TypeOK
<1>5. p \in Existing(mine)'
  BY <1>2, <1>3, <1>4 DEF Existing, ApprovalsOf
<1>6. ASSUME NEW q \in Requests \ {mine} PROVE Existing(q)' = Existing(q)
  <2>1. q.kind = "approve" => ~(new.document = q.on /\ new.artifact = q.what)
    BY <1>2 DEF Requests
  <2>2. {x \in ApprovalIds : q.kind = "approve" /\ x \in ApprovalsOf(q.on)' /\
           approvals'[x].artifact = q.what}
        = {x \in ApprovalIds : q.kind = "approve" /\ x \in ApprovalsOf(q.on) /\
             approvals[x].artifact = q.what}
    BY <1>4, <2>1 DEF ApprovalsOf
  <2>3. QED
    BY <1>4, <2>2 DEF Existing
<1>7. \A q \in Requests : q.kind = mine.kind => p \notin Existing(q)
  BY <1>2, <1>4 DEF Existing, ApprovalsOf
<1>8. \A q \in Requests : Book!Rivals(mine, q) => Existing(q) = {}
  <2>1. ApprovalsOf(mine.on) = {}
    BY <1>2 DEF Existing, Admissible, ApprovalsOf
  <2>2. QED
    BY <2>1 DEF Book!Rivals, Existing
<1>9. Book!Founded(mine)
  <2>1. ASSUME mine.on \in Invoices
        PROVE  \E r \in Requests : r.kind = "generate" /\ r.on = mine.on
                                     /\ TheOne(Existing(r)) = mine.what
    <3>1. artifacts[mine.what] # None /\ artifacts[mine.what].document = mine.on
      BY <1>2 DEF Admissible, ArtifactOf
    <3>2. PICK v \in Versions : v = artifacts[mine.what].version
      BY <1>2, <2>1, <3>1 DEF BookInv, InvoicesGenerated
    <3>3. artifacts[mine.what] = [document |-> mine.on, version |-> v]
      BY <1>2, <3>1, <3>2 DEF BookInv, ApprovalInv, TypeOK, Artifacts
    <3> DEFINE r == [kind |-> "generate", on |-> mine.on, what |-> v]
    <3>4. r \in Requests
      BY <2>1 DEF Requests
    <3>5. mine.what \in Existing(r)
      BY <1>2, <3>1, <3>3 DEF Existing
    <3>6. TheOne(Existing(r)) = mine.what
      BY <3>4, <3>5, EntryIs DEF BookInv
    <3>7. QED
      BY <3>4, <3>6
  <2>2. QED
    BY <1>2, <2>1 DEF Book!Founded
<1>10. p \in Book!IdsFor(mine)
  BY <1>2 DEF Book!IdsFor
<1>11. ApprovalInv /\ ApprovalInv'
  BY ApproveInv DEF BookInv
<1>12. QED
  BY <1>2, <1>4, <1>5, <1>6, <1>7, <1>8, <1>9, <1>10, <1>11, CommitEnters

\* request enters its delivery, for an approval of the book.
LEMMA BookRequest ==
  ASSUME BookInv, NEW c \in Callers, NEW e \in DeliveryIds, RequestCommit(c, e)
  PROVE  Book!Next
<1>1. PICK mine \in Requests : mine = request[c]
  BY DEF RequestCommit, Working, BookInv, ApprovalInv, TypeOK
<1>2. /\ mine.kind = "deliver" /\ mine.on \in ApprovalIds /\ mine.on # None /\ mine.what = None
      /\ Existing(mine) = {} /\ Admissible(mine)
  BY <1>1, ConstantsAssumption
     DEF RequestCommit, Working, BookInv, ApprovalInv, AdmissionStands, Requests
<1>3. /\ deliveries[e] = None /\ deliveries'[e] = mine.on
      /\ \A x \in DeliveryIds \ {e} : deliveries'[x] = deliveries[x]
      /\ UNCHANGED <<artifacts, approvals>>
      /\ answers' = answers \cup {[request |-> mine, id |-> e]}
  BY <1>1 DEF RequestCommit, Answer, BookInv, ApprovalInv, TypeOK
<1>4. e \in Existing(mine)'
  BY <1>2, <1>3 DEF Existing
<1>5. ASSUME NEW q \in Requests \ {mine} PROVE Existing(q)' = Existing(q)
  <2>1. q.kind = "deliver" => q.on # mine.on /\ q.on # None
    BY <1>2, ConstantsAssumption DEF Requests
  <2>2. {x \in DeliveryIds : q.kind = "deliver" /\ deliveries'[x] = q.on}
        = {x \in DeliveryIds : q.kind = "deliver" /\ deliveries[x] = q.on}
    BY <1>3, <2>1
  <2>3. QED
    BY <1>3, <2>2 DEF Existing, ApprovalsOf
<1>6. \A q \in Requests : q.kind = mine.kind => e \notin Existing(q)
  <2>1. \A q \in Requests : q.kind = "deliver" => q.on # None
    BY ConstantsAssumption DEF Requests
  <2>2. QED
    BY <1>2, <1>3, <2>1 DEF Existing
<1>7. Book!Founded(mine)
  <2>1. approvals[mine.on] # None /\ approvals[mine.on].document \in Revisions
    BY <1>2 DEF Admissible
  <2>2. PICK d \in Revisions, a \in ArtifactIds : approvals[mine.on] = [document |-> d, artifact |-> a]
    BY <1>2, <2>1 DEF BookInv, ApprovalInv, TypeOK, Approvals
  <2> DEFINE r == [kind |-> "approve", on |-> d, what |-> a]
  <2>3. r \in Requests
    BY DEF Requests, Documents
  <2>4. mine.on \in Existing(r)
    BY <1>2, <2>1, <2>2 DEF Existing, ApprovalsOf
  <2>5. TheOne(Existing(r)) = mine.on
    BY <2>3, <2>4, EntryIs DEF BookInv
  <2>6. QED
    BY <1>2, <2>3, <2>5 DEF Book!Founded
<1>8. e \in Book!IdsFor(mine) /\ \A q \in Requests : ~Book!Rivals(mine, q)
  BY <1>2 DEF Book!IdsFor, Book!Rivals
<1>9. ApprovalInv /\ ApprovalInv'
  BY RequestInv DEF BookInv
<1>10. QED
  BY <1>2, <1>3, <1>4, <1>5, <1>6, <1>7, <1>8, <1>9, CommitEnters

\* Every step is one in the book, or none.
LEMMA BookStep == BookInv /\ [Next]_vars => [Book!Next]_(Book!vars)
<1> SUFFICES ASSUME BookInv, [Next]_vars PROVE [Book!Next]_(Book!vars)
  OBVIOUS
<1>1. ASSUME UNCHANGED <<rows, answers>> PROVE UNCHANGED Book!vars
  <2>1. \A q \in Requests : Existing(q)' = Existing(q)
    BY <1>1 DEF rows, Existing, ApprovalsOf
  <2>2. QED
    BY <1>1, <2>1, BookStands
<1>2. ASSUME NEW d \in Revisions, NEW a \in ArtifactIds, UploadArtifact(d, a)
      PROVE  UNCHANGED Book!vars
  BY <1>2, BookUpload
<1>3. ASSUME NEW c \in Callers, NEW q \in Requests, Begin(c, q) PROVE UNCHANGED Book!vars
  BY <1>1, <1>3 DEF Begin
<1>4. ASSUME NEW c \in Callers, NEW q \in Requests, Repeat(c, q) PROVE Book!Next
  BY <1>4, BookAgain
<1>5. ASSUME NEW c \in Callers, NEW a \in ArtifactIds, GenerateCommit(c, a) PROVE Book!Next
  BY <1>5, BookGenerate
<1>6. ASSUME NEW c \in Callers, NEW p \in ApprovalIds, ApproveCommit(c, p) PROVE Book!Next
  BY <1>6, BookApprove
<1>7. ASSUME NEW c \in Callers, NEW e \in DeliveryIds, RequestCommit(c, e) PROVE Book!Next
  BY <1>7, BookRequest
<1>8. ASSUME NEW c \in Callers, CallFails(c) PROVE UNCHANGED Book!vars
  BY <1>1, <1>8 DEF CallFails
<1>9. ASSUME UNCHANGED vars PROVE UNCHANGED Book!vars
  BY <1>1, <1>9 DEF vars
<1>10. QED
  BY <1>2, <1>3, <1>4, <1>5, <1>6, <1>7, <1>8, <1>9 DEF Next

\* Nothing is entered at first.
LEMMA BookInit == Init => Book!Init
<1> SUFFICES ASSUME Init PROVE Book!Init
  OBVIOUS
<1>1. \A q \in Requests : Existing(q) = {}
  BY ConstantsAssumption DEF Init, Existing, ApprovalsOf, Requests
<1>2. \A q \in Requests : TheOne(Existing(q)) = None
  BY <1>1 DEF TheOne
<1>3. QED
  BY <1>2 DEF Init, Book!Init

\* Concurrent calls of generate_pdf, approve and request take effect one after the
\* other, each request at most once: DocumentApproval implements RequestBook.
THEOREM RefinesBook == Spec => ImplementsBook
<1>1. Init => BookInv /\ Book!Init
  BY InitBookInv, BookInit
<1>2. BookInv /\ [Next]_vars => BookInv'
  BY BookInvStep
<1>3. BookInv /\ [Next]_vars => [Book!Next]_(Book!vars)
  BY BookStep
<1>4. QED
  BY <1>1, <1>2, <1>3, PTL DEF Spec, ImplementsBook, Book!Spec
=============================================================================
