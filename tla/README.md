# FreelanceFlow: specifications, model checking and proofs

FreelanceFlow (`src/backend`) is a modular monolith: FastAPI handlers call use
cases, every use case is one PostgreSQL transaction (`with Session(engine) as
session, session.begin()`), and the engine sets no isolation level, so
transactions run READ COMMITTED (`shared/persistence.py:20`). The system
promises things that are hard to test: a legal invoice series without gaps, an
email that leaves at most once, work that is priced and rounded once, history
nobody rewrites, all while requests, workers and webhooks overlap and fail.
This directory says these promises in TLA+, checks them with TLC on small
instances and proves every safety property of them with TLAPS for every instance.

Paths below are relative to `src/backend/src/freelanceflow/` unless they start
with `src/`.

## 1. The system

| Component | State | Operations | Hard behaviour | What makes it correct |
|---|---|---|---|---|
| Deliveries (`modules/delivery/*/invoice_deliver*`) | `invoice_deliveries` rows, `invoice_delivery_attempts` rows, the frozen message | `request`, `claim_next`, `send_claimed`, `record_sent/failure/rejection/ambiguous` | several workers, crashes between transactions, stale claim tokens | one worker per delivery, at most one email, one content, history final, every row readable |
| Email provider (`application/email_provider.py`, `adapters/resend.py`) | external: emails, idempotency keys | `send` | lost and late requests, keys that expire | the class of an answer is never more optimistic than what is known |
| Provider events (`*/provider_event*`) | event rows, match rows | `ingest`, `reconcile_provider_events` | webhooks before, during and after the acceptance commits; repeats and replays | everything that belongs together is matched, nothing else is |
| Webhook verification (`adapters/resend_webhooks.py`) | none | `verify` | none: pure | only verified bytes are ingested |
| Drafts (`modules/billing/*/invoice_draft*`) | revisions, draft head | `create`, `create_revision`, reads | revisions against issuance | work billed once per draft, rounding per line, revisions grow by one |
| Pricing and rates (`domain/pricing.py`, `domain/__init__.py`) | rate agreements | `price_prepared_segments`, `resolve_rate`, add, list | boundary days, precedence | the one most specific rate, or a refusal |
| VAT (`domain/vat.py`) | none | `calculate_invoice_vat` | per-rate rounding | lines, bases and taxes reconcile |
| Issuance (`*/issued_invoice*`) | issued invoices, number counter, frozen heads | `issue`, reads | lock queues, clock read before the counter, repeats, rollback | continuous series, dates in order, last revision, one snapshot, one answer |
| Draft and issued artifacts, approvals | artifact and approval rows | `create`, `generate_pdf`, `approve` | the same request twice at once | one answer per request, one approval per document |
| Settings and billing profiles | one row each | `create`, `update`, `get`, `get_for_snapshot` | overlapping full replacements | the row can always be read back |
| Invoice dates (`domain/invoice_dates.py`) | none | issue and due date | ends of months, leap days, the last date | the local day of the instant; due when the terms say |
| Time tracking (`modules/time_tracking`) | time entries: an interval and three classification columns | `create`, `classify`, `clear_classification`, reads | overlapping classifications, written column by column | every entry is readable, its client, project and task one chain |
| Clients, projects, tasks (`modules/clients`) | three tables, rows never change | create, read, list | a reference to what is not there yet | parents exist |
| Rate agreements (`application/rate_agreements.py`, `adapters/repository.py`) | rows that never change | create, read, list | made while drafts are built | one price list per draft |
| PDF renderer, HTTP handlers, bootstrap, migrations, frontend | none | | | |

How they interact. A draft is built from time entries, clients and rates read
in one transaction, by several statements and without a lock, and stores copies
of them: a chain and an agreement per line, a source per allocation. Issuing locks, in this order, the
draft head, the seller profile, the client profile, the settings and the number
counter; revising locks the same head; replacing a profile or the settings
waits for share locks. Artifacts and approvals hang on a draft revision or on
an issued invoice; a delivery hangs on a draft approval. Workers claim delivery
rows with `SKIP LOCKED`, call the provider with no transaction open, and record
the answer in a second transaction. Webhooks come back from the provider and
share one advisory lock with `record_sent`, keyed by the provider's message id.
Calendar import, identity, audit and a background worker process are named in
the documents and do not exist in the code; whoever calls `claim_next` and
`send_claimed` is a *worker* here.

`PROJECT.json` lists every component with its status and, under `hazards`,
what is hard to test, each at its line.

## 2. Modules

| Module | Models | Uses |
|---|---|---|
| `DeliveryLifecycle` | abstract: what a client of the delivery API may rely on | |
| `InvoiceDelivery` | delivery rows, workers, provider | `DeliveryLifecycle` (refinement) |
| `InvoiceDelivery_proofs` | theorems about it | `InvoiceDelivery` |
| `DeliveryReads` | unlocked reads, composed with all of `InvoiceDelivery` | `InvoiceDelivery` |
| `DeliveryReads_proofs` | theorems about it | `DeliveryReads`, `InvoiceDelivery_proofs` |
| `EventLedger` | abstract: acceptances and events, with exactly the matches the message ids make | |
| `ProviderEvents` | `record_sent` against `ingest`, with locks and deadlocks | `EventLedger` (refinement) |
| `ProviderEvents_proofs` | theorems about it | `ProviderEvents` |
| `LegalSeries` | abstract: a register of numbered invoices | |
| `InvoiceIssuance` | drafts, revisions, configuration, issuing | `LegalSeries` (refinement) |
| `InvoiceIssuance_proofs` | theorems about it | `InvoiceIssuance` |
| `RequestBook` | abstract: a book in which each request is entered once | |
| `DocumentApproval` | artifacts, approvals, delivery requests | `RequestBook` (refinement) |
| `DocumentApproval_proofs` | theorems about it | `DocumentApproval` |
| `ConfigurationRows` | the domain's and the database's checks of a row: settings, seller, client profile | |
| `ConfigurationUpdate` | overlapping replacements of such a row | `ConfigurationRows` |
| `ConfigurationUpdate_proofs` | theorems about both | `ConfigurationUpdate` |
| `InvoiceDates` | payment terms applied to an issue date, and a reference calendar | |
| `InvoiceAmounts` | pricing, drafting, taxing, issuing and reading back | `InvoiceDates` |
| `InvoiceAmounts_proofs` | theorems about both, and about sums and dates | `InvoiceAmounts` |
| `TimeEntries` | clients, projects, tasks, time entries and overlapping classifications | |
| `DraftBuilding` | rate agreements and building drafts, composed with all of `TimeEntries` | `TimeEntries` |
| `DraftBuilding_proofs` | theorems about both | `DraftBuilding` |
| `MC...` | the finite values for TLC | the module it names |

**How code becomes actions.** A locked use case is two steps: one takes the
lock, reads and decides (`...Lock`, `Begin`), one writes and commits
(`Save...`, `...Commit`). Everything the use case writes is in the second. A
refusal is its own action and changes nothing. Crashes, exceptions and
constraint violations are one action that rolls back (`WorkerFails`,
`TransactionFails`, `CallFails`, `ReplaceFails`). Locks are not variables: who
holds what follows from where the callers are (`RowLocked`, `HeadLocked`,
`MessageFree`), so a lock cannot outlive its transaction by mistake.

**Delivery.** `state`, `active`, `message`, `requestedAt` are the columns of a
row; `attempts[d]` is its attempt rows; `emails`, `remembered` and `wire` are
the provider: what it accepted, what its idempotency key still stands for, and
requests it may still take although nobody waits for an answer. A timeout
(`ProviderSilent`) and a crash while sending leave the request lost or on the
wire. Three flags choose the environment: `TokenReuse` (may `send_claimed` be
called again with a token handed out once; the code accepts it while the
attempt is open), `KeyExpires` (the documents say retention is limited) and
`Failures`.

**Issuance.** `revisions`, `issued`, `sequence`, `lastDate` and `config` are
rows; `snapshot[c]` holds both what a call read and, by being there, its share
locks. The clock counts half days and the settings' value is the offset of the
billing time zone in half days, so that changing the zone can move the local
date backwards while time moves on, which is what the chronology check is for.
The unique constraints behind the locks are left out on purpose: the properties
must hold by the locks alone.

**Provider events.** The event insert is `ON CONFLICT DO NOTHING`, which waits
for an uncommitted insert of the same identity (`HoldsEvent`). The match's
foreign key takes KEY SHARE on the delivery row, which FOR UPDATE waits for.
`Deadlocked` is a set of callers each waiting for another of the set;
PostgreSQL fails one (`DeadlockAbort`).

**Configuration.** SQLAlchemy's flush writes only changed columns, compared
with what was read; `Blend` is that UPDATE applied to the newest row. CHECK
constraints are evaluated in three-valued logic (0 false, 1 unknown, 2 true),
and only false refuses. `table` is chosen once: which of the three tables this
behaviour is about.

**Time entries.** The same flush, on three columns that must stay a chain
(`Chained`) although each may be written by another caller. What stands between
a blend and an unreadable row are two CHECKs and the composite foreign keys,
which are MATCH SIMPLE: with one column NULL they check nothing (`ProjectKey`,
`TaskKey`). `classify` reads the row twice; only the second read counts, because
the session keeps no reference to the first object and loads it anew.

**Drafting.** `building[b]` is a transaction on its way: the request, the
agreements it listed first, and the allocations it has priced, each with the
source it read (`TakeEntry`). Whether the segments make a draft (`Draftable`)
is decided at the end, then the rows are written and committed at once (`Store`). `drafts[b]`
holds the rows and, beside them, what the caller was answered, so that a reload
(`Restored`) can be compared with it.

**Amounts.** Exact amounts are numerators over `UnitsPerHour`; the code keeps
reduced fractions, which compare the same. A VAT rate is a number of `VatUnits`
parts: `VatRate` takes any decimal from 0 to 100, and the decimals in use always
have a common denominator, so the theorems, which hold for every `VatUnits`, cover
them all. The run has tenths of a percent. `Reconciles` has every check a reload
makes on the totals and the breakdowns; that of a line against its allocations is
left out, whose rows copy what `LineOf` adds up. Three stages are the pure
functions a caller runs in order; the fourth writes the rows of `issue`, with the
day the invoice is due. Sums are `SumFunction` of the community modules; what
`sorted` returns is described, not computed (`Sorted`), and a date is advanced
month by month (`Carried`), as far as 60 days reach, so that both can be reasoned
about.

## 3. Runs

| Run | Shows | Bounds | States |
|---|---|---|---|
| `delivery` | `TypeOK`, `ExclusiveWork`, `ImplementsLifecycle` with keys that expire, no token used twice | 2 deliveries, 2 workers, 3 attempts, 2 contents, 2 instants | 580,109 |
| `delivery_reuse` | `RowsReload`, `SentIsBacked`, `OneContentPerDelivery`, `AtMostOneEmail`, `HistoryIsFinal` with tokens used again, keys kept; `ReadsAreTrue` | 1 delivery, 2 workers, 1 reader, 4 attempts, 2 contents, 1 instant, symmetry | 130,501 |
| `delivery_live` | `EveryClaimIsDecided` and its safety half `OpenHasWorker` under `FairSpec`, tokens used again, keys that expire | 2 deliveries, 2 workers, 2 attempts, 1 content, no failures | 135,882 |
| `provider_events` | `Correlated`, `OnlyRepeatsDeadlock`, `ImplementsLedger` | 2 deliveries, 3 message ids, 2 recorders, 2 hooks, 5 events of 2 identities, symmetry | 137,606 |
| `delivery_reads_request` | violation of `RequestReturnsExisting` | 1 delivery, 1 worker, 1 reader, 3 attempts | |
| `issuance` | `ContinuousSeries`, `NumbersFollowDates`, `IssuedIsLastRevision`, `OneAnswerPerDraft`, `SnapshotIsCurrent`, `ImplementsSeries` | 3 drafts, 2 callers, 2 revisions, 2 requests, 2 time zones, 4 instants, symmetry | 236,012 |
| `issuance_billed` | violation of `BilledOnce` | 2 drafts, 2 callers | |
| `document_approval` | `OneTrueApproval`, `OneDeliveryPerRevision`, `ImplementsBook` | 2 revisions, 1 issued invoice, 2 renderer versions, 2 callers, 4 artifacts, 3 approvals, 2 deliveries, symmetry | 522 |
| `configuration` | `ConfigurationIsReadable`, `LoneReplacementReplaces` for the settings and for sellers with a billing address in France | 2 callers, 5 settings, 5 sellers, symmetry | 64,988 |
| `configuration_profile` | violation of `ConfigurationIsReadable` for a client profile | 2 callers, 3 profiles | |
| `amounts` | `WorkBilledOnce`, `MostSpecificRate`, `LinesRoundOnce`, `VatReconciles`, `IssuedReadsBack`, `DueDateFollowsTerms` | requests of up to 3 segments, 5 rate schedules, 3 business dates, 2 lines, 4 entries; 18 issue dates, 4 terms | 185,118 |
| `drafting` | `ClassificationIsChained`, `OverlapOnlyClearsTask`, `DraftReadsBack`, `OnePriceList` | 2 clients, 3 projects, 2 tasks, 2 entries with 5 and 1 classifications, 2 editors, 2 agreements, 2 requests, 1 builder, symmetry | 756,772 |

Why the bounds are enough to mean something. Two callers of each kind meet in
every order the locks allow; a third would only queue. Three attempt ids let a
delivery be retried twice, or two deliveries be claimed with one retried, so a
stale token exists beside a newer one; four leave one more claim beside a reader.
One delivery is enough for `delivery_reuse`, because deliveries share nothing but
their workers: `delivery` has two, and the theorems any number. Two contents are what a changed message
needs. Three drafts and two callers give a series with something between its
ends while an issue fails and another waits for the counter. Four instants are
two calendar days, and with two zones a date can go back. Three segments are
what an overlap needs that is not between neighbours of the request. Two
editors and an entry that moves between nothing, a project, its task, another
project's task and another client make every pair of overlapping writes; an
entry that stays shares a line with it in one request, and in the other the
moving entry is read twice. The second client, its project and one task are
created later, so that references may come too early. One agreement is the
client's and one a project's that ends between the two business dates, so both
levels and their boundary occur. Agreements and entries are read by one builder
at a time: builders share nothing but what they read. The issue dates are those
around which 45 days reach another month, in a common year, a leap year and a
century that is none, the ends of February and of a year, and the last dates
from which the due date exists. Where a theorem exists, the bounds stop mattering.

`CHECK_DEADLOCK FALSE` appears where the system may really stop: when every
attempt id is used up (a bound) while workers claim, or every delivery is
decided, and at the end of
a computation of amounts. The other runs check that nobody ever waits for ever
for lack of any next step.

**Fairness.** Only `FairSpec` has any: weak fairness of a worker's own steps
(`Send`, `Record`) and of the answer it waits for (`Provider`). A worker is
sequential code that runs on; the HTTP client has a timeout, so the call
returns. Weak fairness is enough although another worker may hold the row's lock,
also one that uses a token again: it holds the lock for one step and then decides
the claim itself. There is no fairness for claiming, for the provider serving a request
nobody waits for, or for failures. Without failures is an assumption the code
needs: an attempt whose worker crashed stays open for ever, because nothing
reclaims it (documented: uncertain outcomes need reconciliation), so
`EveryClaimIsDecided` is false with `Failures`.

**Mutants.** Every property of a passing run comes with a mutated definition of
the model (`PROJECT.json`, `mutants`; in the modules, the operator before the
one it mutates), a bug that code could plausibly have: a missing FOR UPDATE, a
token that is compared too weakly, a forgotten header. Each mutant breaks its
property.

## 4. Disagreements with the documents

* `RequestReturnsExisting`. A repeated delivery request reads the delivery in
  two statements and raises if a worker commits between them
  (`src/docs/billing-rules.md:112`: "repeating that exact request returns the
  existing record unchanged"). What it returns, when it returns, is true:
  `ReadsAreTrue`.
* `BilledOnce`. Nothing keeps two drafts from billing the same work
  (`src/docs/billing-rules.md:157`; the same line leaves reservation
  unresolved).
* `ConfigurationIsReadable` for a client profile. Two overlapping replacements
  can leave a billing address with a first line and no city. The constraint
  that should refuse it, `(all NULL) OR (all valid)`, is unknown for such a
  row, and unknown passes. Every later read raises, and issuing for the client
  fails, until the row is replaced once more. The seller's profile has the same
  columns and the same hole. A second one of the kind: an address, billing or a
  client's legal one, moved to France while an overlapping replacement removes
  its postal code keeps country FR without a postal code, which the constraint
  (`billing_profile_models.py:38`) lets through as unknown and `BillingAddress`
  refuses. The settings' constraints, and the seller's other columns, do not
  have such holes: run `configuration`.

Not a disagreement, but worth knowing: two overlapping classifications of a time
entry can leave a client and project without any task although neither caller
asked for that and the entry had one (`OverlapOnlyClearsTask` says that nothing
worse happens), and a draft lists the agreements before it reads the entries, so
an entry that moves in between may be priced by the client's agreement although
its new project had one when the entry was read.

## 5. Theorems

All are checked by `tlapm`, for arbitrary constants under the assumptions their
modules name (`ConstantsAssumption`, and those given below).

**Delivery** (`InvoiceDelivery_proofs`). Two inductive invariants, and a third beside the first.

* `RowInv` needs no assumption about tokens or keys. The properties alone are
  not inductive: that a save leaves a readable row (`RowsReload`) depends on
  what the worker decided earlier. `LockExclusive` says at most one transaction
  is open per row, `UnderLock` that what was decided under the lock still holds
  when it writes, `MessageFrozen` that from the provider call on a worker's
  content is the frozen message, and `AnswerBacked` that an accepted answer
  names a real email. From it: `TypeCorrect`, `RowsAlwaysReload`,
  `SentAlwaysBacked`, `OneContentAlways`, `HistoryAlwaysFinal`.
* `ClaimInv` adds, for `~TokenReuse`, that a worker past its claim holds it
  (`ClaimHeld`) and that once an email may have left the delivery stays with
  the worker that learns of it, or with nobody (`MailedStaysClaimed`). That is
  why no key is needed: `NeverTwice` holds even if the provider forgets keys.
  From it also `WorkIsExclusive` and `RefinesLifecycle`.
* `NeverTwiceByKey` is the other half: tokens used again, keys never forgotten.
  With neither assumption `AtMostOneEmail` is false, which is the limit
  `src/docs/billing-rules.md:117` states.
* `OpenAlwaysHasWorker` is the safety half of `EveryClaimIsDecided`: under what that
  property needs (`~Failures`, one content per delivery) an open attempt is
  always in the hands of a worker that has its token. `ClaimHasWorker`, beside
  `RowInv`, is what a step keeps: a worker gives a delivery up only when its token
  is stale or the attempt gets its outcome, and callers with one content are
  refused for no other reason. Both conditions are needed: a crash, or a retry
  refused for its content, leaves the attempt open with nobody to close it. What
  is left to TLC is that the worker gets there.

**Issuance** (`InvoiceIssuance_proofs`). `IssueInv` says what each lock
protects while it is held: the head lock that its draft is unissued and the
requested revision the last (`UnderHead`), the share locks that what was read
is still configured (`SnapshotStands`), the counter lock that one caller has
the next number and its date is in order (`CounterHeld`). From it: `TypeCorrect`,
`ContinuousAlways`, `DatesAlwaysFollow`, `LastRevisionAlways`,
`OneAnswerAlways`, `SnapshotAlwaysCurrent` and `RefinesSeries`.

**Provider events** (`ProviderEvents_proofs`). The properties say what is
stored; they are not inductive, because a transaction decides long before it
commits. `EventInv` adds that each lock has one holder (`LocksExclusive`) and
that what a recorder or a hook read under its locks is still so when it writes
(`RecorderReads`: the unmatched events it is about to match are all there are;
`HookReads`: a hook that goes on without a delivery found none that is sent).
From it: `TypeCorrect`, `EventsAreCorrelated`, `MatchesStayTrue`,
`AcknowledgedStaysStored`. `FirstRecordingsNeverDeadlock` is a walk along the
waits (`WaitingCallers`): a hook that waits for a delivery row found that
delivery sent, so the recorder that holds the row repeats. Without repeats no
one who inserted an event waits, hence no hook waits for an insert, hence no
one who holds a message id waits at all, and nothing is left to wait for.
`RefinesLedger` puts the parts together: the matches are at every instant those,
and only those, that the message ids of stored events and sent deliveries make
(`Joined`). A recorder's commit is one acceptance with all its matches, a hook's
commit one event with its match, and every other step is a stutter, although
each decided on what it read several steps earlier.

**Reads** (`DeliveryReads_proofs`). `ReadsDisturbNothing`: with any number of
readers the module implements `InvoiceDelivery`, so all of the above holds
beside them. `SeenStands` says what can have happened between the two
statements: nothing, or attempts were added, or the claim that was seen has
ended. Each of the last two fails a check of the reload, hence `ReadsStayTrue`.

**Approvals** (`DocumentApproval_proofs`). `ApprovalInv` says that a row lock
has one holder and that a request admitted under it is still admissible, and
its row still missing, when it commits (`AdmissionStands`). From it:
`TypeCorrect`, `SameRequestIsAnsweredAlike`, `ApprovalsAreTrue`,
`RevisionsAreDeliveredOnce`. `RefinesBook` is the reason to trust a repeated
call: the book's entry for a request is the one row made for exactly that
request (`TheOne`), a commit enters it, and no later step of anyone changes or
doubles an entry. That needs `ApprovalInv` and `InvoicesGenerated`: every artifact
of an issued invoice was generated by some version, so an approval's artifact
has an entry to refer to. Assumed: `NoneIsNoRow`, that `None` is neither a row nor
a request.

**Time entries and drafts** (`DraftBuilding_proofs`). For entries, what was
read and what is wanted are chains (`EditsChained`); a blend that passes the
CHECKs and the keys is then one too, by cases over which columns each of the two
changed. For drafts, `BuildingsPriced` says that a builder's agreements are a
prefix of today's, since agreements are only appended, and that each allocation
was priced by one of them for the source it read. From both: `TypeCorrect`,
`ClassificationsStayChained`, `OverlapsOnlyClearTasks`, `DraftsReadBack`,
`PricedFromOneList`. Assumed: `DraftAssumption`, that agreements have distinct
ids and name clients and projects of the workspace, and that requests are
sequences of allocations.

**Configuration** (`ConfigurationUpdate_proofs`). First what each CHECK says in
two truth values (`FiscalCheckIs`, `BillingCheckIs`, ...), then that a blend of
three valid rows that passes them is valid. It is so for the settings and for
every column of a profile but the addresses: `ReadableWhileAddressesStay` has
the condition `AddressesStay`, that the profiles submitted all have a billing
address or all have none, and so for each postal code. The condition is needed,
for without it the run `configuration_profile` finds the violation of section 4;
for the settings it holds always. `LoneReplacements` needs no condition. Assumed:
`SubmissionsAssumption`, that what is submitted passed the domain's checks (the
service builds the domain object first) and has its table's columns.

**Amounts and dates** (`InvoiceAmounts_proofs`). `AmountsInv` says of every
stage that its results are what the code computes from its input: agreements
applied are those resolved (`Applied`), lines those of `Draft` (`AreLines`),
groups a partition of the lines with the sums taken over them (`AreTaxed`), rows
those written from both. What is proved from it is that these computations mean
what they should. `RatesAreMostSpecific` is the precedence argument.
`NoTickIsBilledTwice` goes from neighbours in the sorted order to any two
segments of an entry, and from disjoint intervals to a count of ticks.
`OnlyLinesAreRounded` and `VatIsReconciled` are about half-up division by any
denominator and sums over a partition, `RowsReadBackAsIssued` about positions
that renumber lines and groups, `DueDatesFollowTerms` about a calendar advanced
month by month against a day count in closed form, in every year. Assumed:
`AmountsAssumption` (a request names at least one segment, rates are not
negative, the units are not zero, ids can be ordered) and `DatesAssumption` (dates of the calendar, terms
that `PaymentTerms` accepts).

The sums rest on a small library in the same module. The library's induction
theorems take the induction step as an operator and cannot be used; instead
`SubsetInduction` takes a set: of a nonempty set of bad subsets of a finite set
one is smallest (`WFMin` of the well-founded order by cardinality). By it
`SumFunction`'s recursive function exists (`SumsOver`), and sums add, scale, split into
groups and can be renumbered. That a date is carried at most three times needs no
induction.

**Only model-checked.** `EveryClaimIsDecided`: liveness under fairness is out
of the prover's reach; `OpenAlwaysHasWorker` is the part of it that is not. The three properties of the violation runs are false, so
there is nothing to prove. Everything else the runs check is a theorem;
`ConfigurationIsReadable` is one under `AddressesStay`. Three theorems state
properties no run lists, because TLC has them within a refinement:
`MatchesAreTrue` and `AcknowledgedIsStored` in `ImplementsLedger`,
`SameRequestSameAnswer` in `ImplementsBook`.

## 6. Not modelled, and why

* Workspaces: every query is restricted to one; the models are of one.
* Clock plausibility checks, digests, text columns and wording: each is a pure
  check on one value whose only effect is to refuse.
* Requests about a document that does not exist: answered not found under the
  same lock that a known one takes, with nothing changed.
* The refusals of `issue_invoice` in `InvoiceAmounts`, but for a due date past the
  calendar: they read configuration, descriptions and dates, no amount, and change
  nothing. In `InvoiceIssuance` all of them are one action, `CallFails`.
* Webhook signatures, JSON, HTTP status codes, PDF bytes: conversions no
  property here is about.
* Text the embedded font of the PDF renderer lacks: a property of the font.
* Single reads and lists that change nothing and relate nothing, such as those
  of clients, agreements and events. The reads that need two statements are
  modelled (`DeliveryReads`, `TakeEntry`).
* The instant a webhook was received: nothing depends on it.
* Migrations of existing data.

## 7. Plan

Order of work, most important behaviour first; 1 to 10 are done.

1. `DeliveryLifecycle`, `InvoiceDelivery`: at most one email. Proofs.
2. `LegalSeries`, `InvoiceIssuance`: legal numbers. Proofs.
3. `ProviderEvents`: correlation. Proofs.
4. `DeliveryReads`: unlocked reads. Proofs.
5. `DocumentApproval`: idempotent requests. Proofs.
6. `ConfigurationRows`, `ConfigurationUpdate`; `InvoiceAmounts`. Proofs.
7. `TimeEntries`, `DraftBuilding`: classification and draft building; the seller's
   profile in `ConfigurationRows`. Proofs.
8. `InvoiceDates`: the four payment rules against a reference calendar. Proofs.
9. A theorem for every safety property the runs check.
10. `RequestBook`, `EventLedger`: what `DocumentApproval` and `ProviderEvents`
   promise their callers, with refinements checked and proved; the safety half of
   the liveness property proved.
11. Left as an extension: the due date of `InvoiceDates` inside
   `InvoiceIssuance`, whose invoices carry only an issue date. `InvoiceAmounts`
   has the date, and issuance adds no concurrency to it.

## 8. Running

    tlc -workers 2 -config InvoiceDelivery.cfg MCInvoiceDelivery.tla
    tlapm InvoiceDelivery_proofs.tla

and so with every `.cfg` and every `_proofs` module; `PROJECT.json` says which
module a configuration is for. All proofs together take a few minutes.
