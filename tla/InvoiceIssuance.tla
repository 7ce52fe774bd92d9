----------------------------- MODULE InvoiceIssuance -----------------------------
(***************************************************************************)
(* Invoice drafts and the issuing of legal invoices, in one workspace.      *)
(*                                                                         *)
(* A call of create_revision or of issue is one transaction that first      *)
(* locks the head of its draft.  An issue then takes share locks on the     *)
(* seller profile, the client profile and the invoice settings, in this     *)
(* order, reads the clock, takes the number counter and commits the         *)
(* snapshot, the counter and the frozen head together.  Every lock is a     *)
(* step of its own, so other callers move between any two of them; a        *)
(* failure anywhere rolls the whole transaction back.                       *)
(*                                                                         *)
(* Left out: amounts and VAT (pure functions of what is locked); profile    *)
(* columns (a row is one value); how two updates of one row meet; a second  *)
(* client (its profile would be one more row locked the same way); the      *)
(* unique constraints on issued invoices (the locks alone must suffice).    *)
(***************************************************************************)
EXTENDS Naturals, Sequences

CONSTANTS
  Drafts,        \* logical invoices
  Contents,      \* what a revision can bill: sets of work intervals
  Facts,         \* what else an issue request states: descriptions, dates, order no.
  Callers,       \* concurrent callers of create_revision and issue
  Values,        \* values of the configuration rows; those of "settings" are Nats
  None,          \* SQL NULL, no row, an empty slot
  MaxRevision,   \* bound on the revisions of a draft
  MaxInstant     \* bound on the clock

Rows == {"seller", "client", "settings"}

ASSUME ConstantsAssumption ==
  /\ None \notin Drafts \cup Facts
  /\ Values \in [Rows -> SUBSET Nat]
  /\ None \notin Nat
  /\ MaxRevision \in Nat /\ MaxInstant \in Nat

VARIABLES
  \* the database
  revisions,   \* draft -> the contents of its revisions; <<>> before it exists
  issued,      \* draft -> its issued invoice, or None
  sequence,    \* the counter's last_sequence
  lastDate,    \* the counter's last_issue_date; 0, before every date, for NULL
  config,      \* row -> its current value, None while it does not exist
  \* the clock
  now,         \* half days since an epoch
  \* the callers' transactions
  pc,          \* caller -> the lock or step it comes to next
  head,        \* caller -> the draft whose head it has locked
  request,     \* caller -> the revision and facts it was asked to issue
  snapshot,    \* caller -> the rows it has read, and so share-locked
  issueDate,   \* caller -> the date it derived from the clock
  \* what callers were told
  answers      \* the issued invoices returned, with the request each answers

draftVars == <<revisions, issued>>
counterVars == <<sequence, lastDate>>
callVars == <<pc, head, request, snapshot, issueDate>>
vars == <<draftVars, counterVars, config, now, callVars, answers>>

Requests == [revision : Nat, facts : Facts \cup {None}]
NoRequest == [revision |-> 0, facts |-> None]
Snapshots == [Rows -> Nat \cup {None}]
NoSnapshot == [r \in Rows |-> None]
Invoices == [request : Requests, number : Nat, date : Nat, snapshot : Snapshots]
Answers == [draft : Drafts, request : Requests, number : Nat]

ASSUME NoneIsNoInvoice == None \notin Invoices

Init ==
  /\ revisions = [d \in Drafts |-> <<>>]
  /\ issued = [d \in Drafts |-> None]
  /\ sequence = 0
  /\ lastDate = 0
  /\ config = [r \in Rows |-> None]
  /\ now = 0
  /\ pc = [c \in Callers |-> "idle"]
  /\ head = [c \in Callers |-> None]
  /\ request = [c \in Callers |-> NoRequest]
  /\ snapshot = [c \in Callers |-> NoSnapshot]
  /\ issueDate = [c \in Callers |-> 0]
  /\ answers = {}

-----------------------------------------------------------------------------
(* Locks *)

\* Mutant of HeadLocked: the head is read without FOR UPDATE.
HeadNeverLocked(d) == FALSE

HeadLocked(d) == \E c \in Callers : head[c] = d

\* Mutant of ShareLocked: the rows are read without FOR SHARE.
NeverShared(r) == FALSE

ShareLocked(r) == \E c \in Callers : snapshot[c][r] # None

CounterLocked == \E c \in Callers : pc[c] = "numbered"

Goto(c, step) == pc' = [pc EXCEPT ![c] = step]

\* The transaction of c is over: committed or rolled back.
End(c) ==
  /\ Goto(c, "idle")
  /\ head' = [head EXCEPT ![c] = None]
  /\ request' = [request EXCEPT ![c] = NoRequest]
  /\ snapshot' = [snapshot EXCEPT ![c] = NoSnapshot]
  /\ issueDate' = [issueDate EXCEPT ![c] = 0]

-----------------------------------------------------------------------------
(* Drafts and configuration *)

CreateDraft(d, content) ==
  /\ revisions[d] = <<>>
  /\ revisions' = [revisions EXCEPT ![d] = <<content>>]
  /\ UNCHANGED <<issued, counterVars, config, now, callVars, answers>>

\* create_revision refuses an issued draft; MaxRevision bounds the others.
CanRevise(d) ==
  /\ revisions[d] # <<>>
  /\ issued[d] = None
  /\ Len(revisions[d]) < MaxRevision

ReviseLock(c, d) ==
  /\ pc[c] = "idle"
  /\ ~HeadLocked(d)
  /\ CanRevise(d)
  /\ Goto(c, "revising")
  /\ head' = [head EXCEPT ![c] = d]
  /\ request' = [request EXCEPT ![c].revision = Len(revisions[d]) + 1]
  /\ UNCHANGED <<draftVars, counterVars, config, now, snapshot, issueDate, answers>>

\* add_revision: the built revision is still the next one.
ReviseCommit(c, content) ==
  /\ pc[c] = "revising"
  /\ request[c].revision = Len(revisions[head[c]]) + 1
  /\ revisions' = [revisions EXCEPT ![head[c]] = Append(@, content)]
  /\ End(c)
  /\ UNCHANGED <<issued, counterVars, config, now, answers>>

\* A profile or the settings are created, or replaced, which waits for readers
\* that hold the row.
Configure(r, v) ==
  /\ ~ShareLocked(r)
  /\ config' = [config EXCEPT ![r] = v]
  /\ UNCHANGED <<draftVars, counterVars, now, callVars, answers>>

Tick ==
  /\ now < MaxInstant
  /\ now' = now + 1
  /\ UNCHANGED <<draftVars, counterVars, config, callVars, answers>>

-----------------------------------------------------------------------------
(* issue *)

\* Only the current revision of a draft may be issued.
IssueLock(c, d, n, f) ==
  /\ pc[c] = "idle"
  /\ ~HeadLocked(d)
  /\ revisions[d] # <<>>
  /\ issued[d] = None
  /\ n = Len(revisions[d])
  /\ Goto(c, "seller")
  /\ head' = [head EXCEPT ![c] = d]
  /\ request' = [request EXCEPT ![c] = [revision |-> n, facts |-> f]]
  /\ UNCHANGED <<draftVars, counterVars, config, now, snapshot, issueDate, answers>>

\* Mutant of SameRequest: a repeat is recognised by the revision alone.
SameRevision(invoice, n, f) == invoice.request.revision = n

SameRequest(invoice, n, f) ==
  invoice.request.revision = n /\ invoice.request.facts = f

\* Mutant of IssueRepeated: the repeat dates the invoice anew.
IssueRedated(c, d, n, f) ==
  /\ pc[c] = "idle"
  /\ ~HeadLocked(d)
  /\ issued[d] # None
  /\ SameRequest(issued[d], n, f)
  /\ issued' = [issued EXCEPT ![d].date = lastDate]
  /\ UNCHANGED <<revisions, counterVars, config, now, callVars, answers>>

\* The draft is issued: the same request is answered with what was issued.
\* Any other request for it raises a conflict and changes nothing.
IssueRepeated(c, d, n, f) ==
  /\ pc[c] = "idle"
  /\ ~HeadLocked(d)
  /\ issued[d] # None
  /\ SameRequest(issued[d], n, f)
  /\ answers' = answers \cup {[draft |-> d, number |-> issued[d].number,
                               request |-> [revision |-> n, facts |-> f]]}
  /\ UNCHANGED <<draftVars, counterVars, config, now, callVars>>

After == [seller |-> "client", client |-> "settings", settings |-> "clock"]

\* get_..._for_snapshot
ReadRow(c, r) ==
  /\ pc[c] = r
  /\ snapshot' = [snapshot EXCEPT ![c][r] = config[r]]
  /\ Goto(c, After[r])
  /\ UNCHANGED <<draftVars, counterVars, config, now, head, request, issueDate, answers>>

\* derive_invoice_issue_date: the calendar day an instant falls on in a zone
\* that is that many half days ahead of UTC.  Days count from 1.
DateOf(instant, zone) == (instant + zone) \div 2 + 1

ReadClock(c) ==
  /\ pc[c] = "clock"
  /\ \A r \in Rows : snapshot[c][r] # None
  /\ issueDate' = [issueDate EXCEPT ![c] = DateOf(now, snapshot[c]["settings"])]
  /\ Goto(c, "counter")
  /\ UNCHANGED <<draftVars, counterVars, config, now, head, request, snapshot, answers>>

NotConfigured(c) ==
  /\ pc[c] = "clock"
  /\ \E r \in Rows : snapshot[c][r] = None
  /\ End(c)
  /\ UNCHANGED <<draftVars, counterVars, config, now, answers>>

\* Mutant of InOrder: the chronology check is left out.
AnyOrder(date) == TRUE

InOrder(date) == lastDate <= date

\* Mutant of AllocateNumber: the number is taken in a transaction of its own.
AllocateAtOnce(c) ==
  /\ pc[c] = "counter"
  /\ ~CounterLocked
  /\ InOrder(issueDate[c])
  /\ sequence' = sequence + 1
  /\ Goto(c, "numbered")
  /\ UNCHANGED <<draftVars, lastDate, config, now, head, request, snapshot, issueDate, answers>>

\* allocate_number locks the counter; its increment shows when c commits.
AllocateNumber(c) ==
  /\ pc[c] = "counter"
  /\ ~CounterLocked
  /\ InOrder(issueDate[c])
  /\ Goto(c, "numbered")
  /\ UNCHANGED <<draftVars, counterVars, config, now, head, request, snapshot, issueDate, answers>>

\* InvoiceNumberChronologyError
NumberRefused(c) ==
  /\ pc[c] = "counter"
  /\ ~CounterLocked
  /\ ~InOrder(issueDate[c])
  /\ End(c)
  /\ UNCHANGED <<draftVars, counterVars, config, now, answers>>

\* Mutant of IssueCommit: the invoice is stored before its number is set.
IssueCommitUnnumbered(c) ==
  /\ pc[c] = "numbered"
  /\ issued' = [issued EXCEPT ![head[c]] =
                   [request |-> request[c], number |-> None,
                    date |-> issueDate[c], snapshot |-> snapshot[c]]]
  /\ sequence' = sequence + 1
  /\ lastDate' = issueDate[c]
  /\ End(c)
  /\ UNCHANGED <<revisions, config, now, answers>>

\* add, freeze_draft and the commit
IssueCommit(c) ==
  /\ pc[c] = "numbered"
  /\ LET d == head[c] IN
       /\ issued' = [issued EXCEPT ![d] =
                       [request |-> request[c], number |-> sequence + 1,
                        date |-> issueDate[c], snapshot |-> snapshot[c]]]
       /\ answers' = answers \cup {[draft |-> d, number |-> sequence + 1,
                                    request |-> request[c]]}
  /\ sequence' = sequence + 1
  /\ lastDate' = issueDate[c]
  /\ End(c)
  /\ UNCHANGED <<revisions, config, now>>

\* Any other error, or a crash: a line or description does not fit, the legal
\* snapshot is incomplete, the connection is lost.
CallFails(c) ==
  /\ pc[c] # "idle"
  /\ End(c)
  /\ UNCHANGED <<draftVars, counterVars, config, now, answers>>

-----------------------------------------------------------------------------
Revise(c) ==
  \/ \E d \in Drafts : ReviseLock(c, d)
  \/ \E content \in Contents : ReviseCommit(c, content)

IssueRequested(c) ==
  \E d \in Drafts, n \in 1 .. MaxRevision, f \in Facts :
    IssueLock(c, d, n, f) \/ IssueRepeated(c, d, n, f)

Issue(c) ==
  \/ \E r \in Rows : ReadRow(c, r)
  \/ ReadClock(c) \/ NotConfigured(c)
  \/ AllocateNumber(c) \/ NumberRefused(c) \/ IssueCommit(c)

Next ==
  \/ Tick
  \/ \E d \in Drafts, content \in Contents : CreateDraft(d, content)
  \/ \E r \in Rows : \E v \in Values[r] : Configure(r, v)
  \/ \E c \in Callers : Revise(c) \/ IssueRequested(c) \/ Issue(c) \/ CallFails(c)

Spec == Init /\ [][Next]_vars

-----------------------------------------------------------------------------
(* Properties *)

Steps == {"idle", "revising", "clock", "counter", "numbered"} \cup Rows

TypeOK ==
  /\ revisions \in [Drafts -> Seq(Contents)]
  /\ issued \in [Drafts -> Invoices \cup {None}]
  /\ sequence \in Nat
  /\ lastDate \in Nat
  /\ config \in Snapshots
  /\ now \in Nat
  /\ pc \in [Callers -> Steps]
  /\ head \in [Callers -> Drafts \cup {None}]
  /\ request \in [Callers -> Requests]
  /\ snapshot \in [Callers -> Snapshots]
  /\ issueDate \in [Callers -> Nat]
  /\ answers \subseteq Answers

Issued == {d \in Drafts : issued[d] # None}

\* Legal numbers form one series without gap or repeat, whatever issuances
\* failed after taking their number (docs/billing-rules.md:132).
ContinuousSeries ==
  /\ \A d \in Issued : issued[d].number \in 1 .. sequence
  /\ \A d, e \in Issued : issued[d].number = issued[e].number => d = e
  /\ \A n \in 1 .. sequence : \E d \in Issued : issued[d].number = n

\* A higher number never carries an earlier date, although callers read the
\* clock before they queue for the counter and the billing timezone may move
\* (InvoiceNumberChronologyError).
NumbersFollowDates ==
  \A d, e \in Issued : issued[d].number < issued[e].number => issued[d].date <= issued[e].date

\* The invoice was made from the draft's last revision: none appeared while it
\* was being issued and none after (docs/billing-rules.md:133).
IssuedIsLastRevision ==
  \A d \in Issued : issued[d].request.revision = Len(revisions[d])

\* Whoever is given an issued invoice asked for exactly it, and everyone who
\* is given one for a draft is given the same (docs/billing-rules.md:133).
OneAnswerPerDraft == \A x, y \in answers : x.draft = y.draft => x = y

\* At the instant an invoice is issued, what it says about seller, client and
\* settings is what is configured, all at the same time
\* (docs/architecture.md:125, "a consistent snapshot").
SnapshotHeld ==
  \A d \in Drafts : issued[d] = None /\ issued'[d] # None => issued'[d].snapshot = config
SnapshotIsCurrent == [][SnapshotHeld]_vars

\* The numbers issuance gives out form the register a reader of the law expects.
Register ==
  [n \in 1 .. sequence |->
     LET d == CHOOSE d \in Issued : issued[d].number = n
     IN  [draft |-> d, date |-> issued[d].date]]
Series == INSTANCE LegalSeries WITH register <- Register
ImplementsSeries == Series!Spec

\* The same work is not billed by two issued invoices (docs/billing-rules.md:157).
BilledOnce ==
  \A d, e \in Issued : d # e =>
    revisions[d][issued[d].request.revision] \cap revisions[e][issued[e].request.revision] = {}
=============================================================================
