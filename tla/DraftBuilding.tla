----------------------------- MODULE DraftBuilding -----------------------------
(***************************************************************************)
(* Building an invoice draft from time entries and rate agreements while    *)
(* both change: InvoiceDraftService._build and the rows a draft becomes.    *)
(*                                                                         *)
(* A draft is built in one transaction of many statements and no lock: the  *)
(* agreements are listed once, then every allocation reads its entry anew.  *)
(* An entry named by two allocations may be classified in between.  The     *)
(* rows keep one chain of client, project, task and rate per LINE, so a     *)
(* reload can give each allocation its source back only if the allocations  *)
(* of a line agree.                                                         *)
(*                                                                         *)
(* Left out: intervals, currencies and amounts (InvoiceAmounts), and the    *)
(* head's lock of a revision, which is built the same way                   *)
(* (InvoiceIssuance).                                                       *)
(***************************************************************************)
EXTENDS TimeEntries, SequencesExt

CONSTANTS
  Offers,       \* agreements that may be made
  Requests,     \* drafts that may be asked for
  Builders,     \* callers that ask for a draft, until they have one
  Billable      \* the entries created billable

Allocations == [entry : Entries, date : Nat, line : Nat]

ASSUME DraftAssumption ==
  /\ None \notin Nat /\ None \notin Builders
  /\ \A o \in Offers :
       /\ o = [id |-> o.id, client |-> o.client, project |-> o.project,
               from |-> o.from, until |-> o.until, rate |-> o.rate]
       /\ o.client \in Clients /\ o.project \in Projects \cup {None}
       /\ o.from \in Nat /\ o.until \in Nat \cup {None}
  /\ \A o, p \in Offers : o.id = p.id => o = p
  /\ \A q \in Requests : q.client \in Clients /\ q.work \in Seq(Allocations)
  /\ Billable \subseteq Entries

VARIABLES
  agreements,   \* the agreements there are, in the order they were made
  building,     \* builder -> the draft it has read so far, None when it builds none
  drafts        \* builder -> the rows and the answer of its draft, None before

draftVars == <<agreements, building, drafts>>

\* An allocation with the source and the agreement it was priced with
Segments ==
  {[entry |-> a.entry, date |-> a.date, line |-> a.line, source |-> k, rate |-> o] :
     a \in UNION {Range(q.work) : q \in Requests}, k \in Classifications, o \in Offers}

DraftInit ==
  /\ EntriesInit
  /\ agreements = <<>>
  /\ building = [b \in Builders |-> None]
  /\ drafts = [b \in Builders |-> None]

-----------------------------------------------------------------------------
(* Rate agreements *)

\* RateAgreementService.create: the agreement's project is the client's.
AddAgreement(o) ==
  /\ o \notin Range(agreements)
  /\ o.client \in catalogue
  /\ o.project # None => o.project \in catalogue /\ Parent[o.project] = o.client
  /\ agreements' = Append(agreements, o)
  /\ UNCHANGED <<building, drafts, entryVars>>

ValidOn(o, date) == o.from <= date /\ (o.until = None \/ date < o.until)

Applying(offers, k, date, project) ==
  {o \in offers : o.client = k.client /\ o.project = project /\ ValidOn(o, date)}

\* resolve_rate: the project's agreements, or the client's where there are none
Resolved(offers, k, date) ==
  LET own == Applying(offers, k, date, k.project) IN
  IF own # {} THEN own ELSE Applying(offers, k, date, None)

-----------------------------------------------------------------------------
(* Building *)

\* get_client and list_rates
Begin(b, q) ==
  /\ building[b] = None /\ drafts[b] = None
  /\ q.client \in catalogue
  /\ building' = [building EXCEPT ![b] =
                    [request |-> q, rates |-> Range(agreements), priced |-> <<>>]]
  /\ UNCHANGED <<agreements, drafts, entryVars>>

NextWork(b) == building[b].request.work[Len(building[b].priced) + 1]

\* Mutant of RatesFor: the agreements are listed again for each allocation.
RatesListedAgain(b) == Range(agreements)

RatesFor(b) == building[b].rates

\* get_time_entry and price_prepared_segment: exactly one agreement applies.
TakeEntry(b) ==
  /\ building[b] # None
  /\ Len(building[b].priced) < Len(building[b].request.work)
  /\ LET a == NextWork(b)
         k == row[a.entry]
     IN /\ k # None /\ a.entry \in Billable
        /\ k.client # None
        /\ \E o \in Offers :
             /\ Resolved(RatesFor(b), k, a.date) = {o}
             /\ building' = [building EXCEPT ![b].priced =
                  Append(@, [entry |-> a.entry, date |-> a.date, line |-> a.line,
                             source |-> k, rate |-> o])]
  /\ UNCHANGED <<agreements, drafts, entryVars>>

\* Mutant of LineContext: lines may mix tasks.
LineContextNoTask(s) == <<s.source.client, s.source.project, s.rate>>

\* _line_context
LineContext(s) == <<s.source.client, s.source.project, s.source.task, s.rate>>

\* _build_line, the owner check of build_invoice_draft and the snapshots of
\* _validate_allocations, on a draft that is built or reloaded
Draftable(client, segments) ==
  /\ segments # {}
  /\ \A s \in segments : s.source.client = client
  /\ \A s, t \in segments : s.line = t.line => LineContext(s) = LineContext(t)
  /\ \A s, t \in segments : s.entry = t.entry => s.source = t.source

\* The first allocation of a line in _allocation_order
FirstOf(segments, l) ==
  CHOOSE s \in segments : s.line = l /\ \A t \in segments : t.line = l =>
    s.entry < t.entry \/ (s.entry = t.entry /\ s.date <= t.date)

\* Mutant of LineRow: the ends of the validity are swapped.
LineRowSwapped(segments, l) ==
  LET s == FirstOf(segments, l) IN
  [source |-> s.source, id |-> s.rate.id, scope |-> s.rate.project,
   from |-> s.rate.until, until |-> s.rate.from, rate |-> s.rate.rate]

\* InvoiceLineRow: the chain and the agreement of the line's first allocation.
\* Of the agreement's project only whether there is one is read back.
LineRow(segments, l) ==
  LET s == FirstOf(segments, l) IN
  [source |-> s.source, id |-> s.rate.id, scope |-> s.rate.project,
   from |-> s.rate.from, until |-> s.rate.until, rate |-> s.rate.rate]

\* Rows refused by compatible_rate_scope
ScopeCheck(line) == line.scope = None \/ line.scope = line.source.project

\* build_invoice_draft, add and commit
Store(b) ==
  /\ building[b] # None
  /\ Len(building[b].priced) = Len(building[b].request.work)
  /\ LET client == building[b].request.client
         segments == Range(building[b].priced)
         lines == [l \in {s.line : s \in segments} |-> LineRow(segments, l)]
     IN /\ Draftable(client, segments)
        /\ \A l \in DOMAIN lines : ScopeCheck(lines[l])
        /\ drafts' = [drafts EXCEPT ![b] =
             [client |-> client, lines |-> lines, answer |-> segments,
              allocations |-> {[entry |-> s.entry, date |-> s.date, line |-> s.line] :
                                 s \in segments}]]
  /\ building' = [building EXCEPT ![b] = None]
  /\ UNCHANGED <<agreements, entryVars>>

\* An error of _build, or the connection is lost: rolled back.
BuildFails(b) ==
  /\ building[b] # None
  /\ building' = [building EXCEPT ![b] = None]
  /\ UNCHANGED <<agreements, drafts, entryVars>>

\* _restore_line: every allocation gets the chain and the agreement of its line.
Restored(draft) ==
  {LET line == draft.lines[a.line] IN
   [entry |-> a.entry, date |-> a.date, line |-> a.line, source |-> line.source,
    rate |-> [id |-> line.id, client |-> line.source.client,
              project |-> IF line.scope # None THEN line.source.project ELSE None,
              from |-> line.from, until |-> line.until, rate |-> line.rate]] :
   a \in draft.allocations}

DraftNext ==
  \/ EntriesNext /\ UNCHANGED draftVars
  \/ \E o \in Offers : AddAgreement(o)
  \/ \E b \in Builders :
       \/ \E q \in Requests : Begin(b, q)
       \/ TakeEntry(b)
       \/ Store(b)
       \/ BuildFails(b)

DraftSpec == DraftInit /\ [][DraftNext]_<<entryVars, draftVars>>

-----------------------------------------------------------------------------
(* Properties *)

TypeOK ==
  /\ EntriesTypeOK
  /\ agreements \in Seq(Offers)
  /\ \A b \in Builders : building[b] # None =>
       /\ building[b].request \in Requests
       /\ building[b].rates \subseteq Offers
       /\ Range(building[b].priced) \subseteq Segments
  /\ \A b \in Builders : drafts[b] # None =>
       /\ drafts[b].answer \subseteq Segments
       /\ \A l \in DOMAIN drafts[b].lines :
            LET line == drafts[b].lines[l] IN
            line.source \in Classifications /\ line.from \in Nat /\ line.until \in Nat \cup {None}

\* A draft can be read back and is then what its caller was answered, however
\* its entries were classified while it was built: a line's one chain and one
\* agreement are those of all its allocations, an entry has one source.
DraftReadsBack ==
  \A b \in Builders : drafts[b] # None =>
    /\ Restored(drafts[b]) = drafts[b].answer
    /\ Draftable(drafts[b].client, Restored(drafts[b]))

\* All allocations of a draft are priced from one state of the agreements: there
\* is a moment at which each was the one agreement that applied.
OnePriceList ==
  \A b \in Builders : drafts[b] # None =>
    \E n \in 0 .. Len(agreements) : \A s \in drafts[b].answer :
      Resolved(Range(SubSeq(agreements, 1, n)), s.source, s.date) = {s.rate}
=============================================================================
