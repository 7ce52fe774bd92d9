----------------------------- MODULE InvoiceAmounts -----------------------------
(***************************************************************************)
(* The amounts of an invoice: what a list of work segments costs, when it is *)
(* refused, and how the lines and the VAT are rounded.                      *)
(*                                                                         *)
(* A pure computation in four stages: price every segment by the agreement  *)
(* valid on its business date; group the segments into the lines the caller *)
(* chose, each rounded once; tax the lines per VAT rate, each rate's base   *)
(* rounded once; copy the result, with the day it is due, into the rows of  *)
(* an issued invoice.  The caller's segments are a sequence in any order,   *)
(* each naming its line.                                                    *)
(*                                                                         *)
(* Units: time in ticks, UnitsPerHour to the hour; money in cents, an exact *)
(* amount as its numerator over UnitsPerHour (all exact amounts of a draft  *)
(* have denominators that divide it, so reduction by the greatest common    *)
(* divisor changes nothing); VAT rates as numerators over VatUnits, a common *)
(* denominator of the decimals in use.                                     *)
(*                                                                         *)
(* Left out: ownership by workspaces and other clients, tasks, UTC          *)
(* conversion, negative rates (refused).  Of what issuing refuses only a    *)
(* due date past the calendar is here.  The other refusals (descriptions    *)
(* that miss a line, an incomplete profile, a penalty below the statutory   *)
(* floor or of a year without one, a default rate of zero, work completed   *)
(* after the issue date) read no amount and, like it, change nothing.       *)
(***************************************************************************)
EXTENDS InvoiceDates, FiniteSets, Functions, SequencesExt

CONSTANTS
  Entries,            \* time entry -> [start, end, project, billable]; project
                      \* None: unclassified
  UnitsPerHour,
  SegmentLists,       \* the requests: sequences of [entry, start, end, date, line]
  Schedules,          \* sets of rate agreements [project, from, until, rate, currency]
  VatUnits,           \* the denominator of a VAT rate: VatUnits is 100 percent
  VatAssignments,     \* functions from lines to a VAT rate, partial or not
  DefaultVats,        \* the settings' default rates; None: franchise en base
  None

\* An hour is a number of ticks, a VAT rate a number of parts; agreed rates are not
\* negative, VAT rates neither.
\* A request names at least one segment: build_invoice_draft refuses an empty one.
\* Sources and lines have identities that can be ordered.
ASSUME AmountsAssumption ==
  /\ UnitsPerHour \in Nat \ {0} /\ VatUnits \in Nat \ {0}
  /\ IsFiniteSet(DOMAIN Entries) /\ DOMAIN Entries \subseteq Nat
  /\ \A w \in SegmentLists :
       /\ Len(w) \in Nat \ {0} /\ DOMAIN w = 1 .. Len(w)
       /\ \A i \in DOMAIN w :
            w[i].entry \in DOMAIN Entries /\ w[i].start \in Int /\ w[i].end \in Int /\ w[i].line \in Nat
  /\ \A s \in Schedules : IsFiniteSet(s) /\ \A a \in s : a.rate \in Nat
  /\ DefaultVats \ {None} \subseteq Nat
  /\ \A rates \in VatAssignments : \A l \in DOMAIN rates : rates[l] \in Nat

VARIABLES
  agreements,         \* the workspace's rate agreements for the client
  work,               \* the segments asked for
  defaultVat,         \* the settings' default rate, or None
  stage,              \* "requested", "priced", "drafted", "taxed", "issued" or "refused"
  applied,            \* index of a segment -> the agreement it was priced by
  lines,              \* line -> [duration, exact, rounded], for the lines used
  vat,                \* the breakdowns: a set of [rate, lines, exact, base, tax]
  rows                \* the issued invoice as its rows, or None

input == <<agreements, work, defaultVat>>
vars == <<input, stage, applied, lines, vat, rows>>

Init ==
  /\ agreements \in Schedules
  /\ work \in SegmentLists
  /\ defaultVat \in DefaultVats
  /\ stage = "requested"
  /\ applied = <<>>
  /\ lines = <<>>
  /\ vat = {}
  /\ rows = None

Segments == DOMAIN work
ProjectOf(i) == Entries[work[i].entry].project

\* Mutant of Duration: the ends change places.
DurationSwapped(i) == work[i].start - work[i].end

Duration(i) == work[i].end - work[i].start

Refuse == stage' = "refused" /\ UNCHANGED <<input, applied, lines, vat, rows>>

-----------------------------------------------------------------------------
(* Pricing *)

\* Mutant of ValidOn: the last day belongs to the old agreement too.
ValidOnBothEnds(a, date) == a.from <= date /\ (a.until = None \/ date <= a.until)

\* Validity is half open: [from, until).
ValidOn(a, date) == a.from <= date /\ (a.until = None \/ date < a.until)

\* The agreements at the most specific level that has any; one is a rate, none
\* is a missing rate, several are a conflict.
ResolveRate(project, date) ==
  LET applicable(p) == {a \in agreements : ValidOn(a, date) /\ a.project = p}
  IN IF applicable(project) # {} THEN applicable(project) ELSE applicable(None)

\* PreparedBillingSegment: nonempty and inside its entry.
Prepared(i) ==
  LET entry == Entries[work[i].entry]
  IN entry.start <= work[i].start /\ work[i].start < work[i].end /\ work[i].end <= entry.end

\* price_prepared_segment: a billable, classified entry, and one rate for it.
Priceable(i) ==
  /\ Prepared(i)
  /\ Entries[work[i].entry].billable
  /\ ProjectOf(i) # None
  /\ Cardinality(ResolveRate(ProjectOf(i), work[i].date)) = 1

Price ==
  /\ stage = "requested"
  /\ \A i \in Segments : Priceable(i)
  /\ applied' = [i \in Segments |->
                   CHOOSE a \in agreements : a \in ResolveRate(ProjectOf(i), work[i].date)]
  /\ stage' = "priced"
  /\ UNCHANGED <<input, lines, vat, rows>>

RefusePrice ==
  /\ stage = "requested"
  /\ \E i \in Segments : ~Priceable(i)
  /\ Refuse

-----------------------------------------------------------------------------
(* Drafting *)

\* Mutant of Rounded: the remainder is dropped.
RoundedDown(numerator, denominator) == numerator \div denominator

\* round_exact_money_half_up
Rounded(numerator, denominator) ==
  numerator \div denominator
    + (IF 2 * (numerator % denominator) >= denominator THEN 1 ELSE 0)

LinesUsed == {work[i].line : i \in Segments}
SegmentsOf(l) == {i \in Segments : work[i].line = l}

ExactOf(S) == SumFunction([i \in S |-> Duration(i) * applied[i].rate])

LineOf(l) ==
  LET exact == ExactOf(SegmentsOf(l))
  IN [duration |-> SumFunction([i \in SegmentsOf(l) |-> Duration(i)]),
      exact    |-> exact,
      rounded  |-> Rounded(exact, UnitsPerHour)]

\* sorted: a finite set in an order.
Sorted(S, Op(_, _)) ==
  CHOOSE q \in SetToSeqs(S) : \A i, j \in DOMAIN q : i < j => Op(q[i], q[j])

\* _allocation_order, stable
Before(i, j) ==
  LET a == work[i]
      b == work[j]
  IN \/ a.entry < b.entry
     \/ a.entry = b.entry /\ a.start < b.start
     \/ a.entry = b.entry /\ a.start = b.start /\ a.end < b.end
     \/ a.entry = b.entry /\ a.start = b.start /\ a.end = b.end /\ i < j

\* Mutant of Ordered: neighbours are those of the request.
Unordered == [k \in 1 .. Len(work) |-> k]

Ordered == Sorted(Segments, Before)

\* _validate_allocations: only neighbours are compared.
NoOverlap ==
  LET sorted == Ordered
  IN \A k \in 1 .. Len(sorted) - 1 :
       LET previous == work[sorted[k]]
           current == work[sorted[k + 1]]
       IN previous.entry = current.entry => previous.end <= current.start

\* _line_context
OneContext ==
  \A i, j \in Segments : work[i].line = work[j].line =>
    ProjectOf(i) = ProjectOf(j) /\ applied[i] = applied[j]

Draftable == OneContext /\ (\A i \in Segments : applied[i].currency = "EUR") /\ NoOverlap

Draft ==
  /\ stage = "priced"
  /\ Draftable
  /\ lines' = [l \in LinesUsed |-> LineOf(l)]
  /\ stage' = "drafted"
  /\ UNCHANGED <<input, applied, vat, rows>>

RefuseDraft == stage = "priced" /\ ~Draftable /\ Refuse

-----------------------------------------------------------------------------
(* Taxing *)

HtOf(group) == SumFunction([l \in group |-> lines[l].rounded])
SourceOf(group) == SumFunction([l \in group |-> lines[l].exact])

\* Mutant of Breakdown: each line's tax is rounded by itself.
BreakdownPerLine(rate, group) ==
  [rate |-> rate, lines |-> group, exact |-> SourceOf(group), base |-> HtOf(group),
   tax |-> SumFunction([l \in group |-> IF rate = None THEN 0
                                        ELSE Rounded(lines[l].rounded * rate, VatUnits)])]

\* _build_breakdown; franchise en base is taxed nothing.
Breakdown(rate, group) ==
  [rate |-> rate, lines |-> group, exact |-> SourceOf(group), base |-> HtOf(group),
   tax |-> IF rate = None THEN 0 ELSE Rounded(HtOf(group) * rate, VatUnits)]

TaxByDefault ==
  /\ stage = "drafted"
  /\ vat' = {Breakdown(defaultVat, DOMAIN lines)}
  /\ stage' = "taxed"
  /\ UNCHANGED <<input, applied, lines, rows>>

\* Explicit rates: one for each line, and none under franchise en base.  Only
\* callers of calculate_invoice_vat can ask for them; issuing never does.
TaxByLine(rates) ==
  /\ stage = "drafted"
  /\ defaultVat # None
  /\ DOMAIN rates = DOMAIN lines
  /\ vat' = {Breakdown(r, {l \in DOMAIN lines : rates[l] = r}) : r \in Range(rates)}
  /\ stage' = "taxed"
  /\ UNCHANGED <<input, applied, lines, rows>>

RefuseTax(rates) ==
  /\ stage = "drafted"
  /\ defaultVat = None \/ DOMAIN rates # DOMAIN lines
  /\ Refuse

-----------------------------------------------------------------------------
(* Issuing and reading back *)

Positions == Sorted(DOMAIN lines, <)
Breakdowns == Sorted(vat, LAMBDA b, c : b.rate < c.rate)

\* Mutant of BreakdownOf: every line refers to the first breakdown.
FirstBreakdown(l) == 1

\* breakdown_by_line: the position a line's row has for its breakdown.
BreakdownOf(l) == CHOOSE k \in DOMAIN Breakdowns : l \in Breakdowns[k].lines

\* _add_financial_children: the rows of the breakdowns do not say which lines they
\* tax, those of the lines do.
RowsOf(date, terms, due) ==
  [issue_date |-> date, payment_terms |-> terms, due_date |-> due,
   lines |-> [p \in DOMAIN Positions |->
                [amounts |-> lines[Positions[p]], breakdown |-> BreakdownOf(Positions[p])]],
   breakdowns |-> [k \in DOMAIN Breakdowns |->
                [rate |-> Breakdowns[k].rate, exact |-> Breakdowns[k].exact,
                 base |-> Breakdowns[k].base, tax |-> Breakdowns[k].tax]],
   exact |-> SourceOf(DOMAIN lines),
   ht |-> HtOf(DOMAIN lines),
   vat |-> SumFunction([b \in vat |-> b.tax]),
   ttc |-> HtOf(DOMAIN lines) + SumFunction([b \in vat |-> b.tax])]

\* issue_invoice
Issue(date, terms) ==
  /\ stage = "taxed"
  /\ \E due \in DueDates(date, terms) : rows' = RowsOf(date, terms, due)
  /\ stage' = "issued"
  /\ UNCHANGED <<input, applied, lines, vat>>

\* The due date is computed first: without it nothing is issued.
RefuseIssue(date, terms) == stage = "taxed" /\ DueDates(date, terms) = {} /\ Refuse

\* _restore: the lines of a breakdown are those whose rows refer to it.
RestoredLines(k) == {p \in DOMAIN rows.lines : rows.lines[p].breakdown = k}

\* IssuedInvoice.__post_init__, run on what _restore builds: the totals and the
\* breakdowns.  Allocations are not among the rows.
Reconciles ==
  /\ rows.ht = SumFunction([p \in DOMAIN rows.lines |-> rows.lines[p].amounts.rounded])
  /\ rows.vat = SumFunction([k \in DOMAIN rows.breakdowns |-> rows.breakdowns[k].tax])
  /\ rows.ttc = rows.ht + rows.vat
  /\ rows.exact = SumFunction([p \in DOMAIN rows.lines |-> rows.lines[p].amounts.exact])
  /\ UNION {RestoredLines(k) : k \in DOMAIN rows.breakdowns} = DOMAIN rows.lines
  /\ \A k \in DOMAIN rows.breakdowns :
       rows.breakdowns[k].exact =
         SumFunction([p \in RestoredLines(k) |-> rows.lines[p].amounts.exact])

-----------------------------------------------------------------------------
Next ==
  \/ \E date \in IssueDates, terms \in Terms : Issue(date, terms) \/ RefuseIssue(date, terms)
  \/ Price \/ RefusePrice
  \/ Draft \/ RefuseDraft
  \/ TaxByDefault
  \/ \E rates \in VatAssignments : TaxByLine(rates) \/ RefuseTax(rates)

Spec == Init /\ [][Next]_vars

-----------------------------------------------------------------------------
(* Properties *)

Covered(e) == UNION {work[i].start .. work[i].end - 1 : i \in {j \in Segments : work[j].entry = e}}
Drafted == stage \in {"drafted", "taxed", "issued"}

TypeOK ==
  /\ stage \in {"requested", "priced", "drafted", "taxed", "issued", "refused"}
  /\ applied = <<>> \/ applied \in [Segments -> agreements]
  /\ DOMAIN lines \subseteq LinesUsed
  /\ \A l \in DOMAIN lines : lines[l] \in [duration : Nat, exact : Nat, rounded : Nat]
  /\ \A b \in vat : b.lines \subseteq DOMAIN lines /\ b.base \in Nat /\ b.tax \in Nat

\* Comparing neighbours is enough: a draft bills every tick of an entry at most
\* once, in whatever order and on whichever lines the caller listed the segments.
WorkBilledOnce ==
  Drafted =>
    SumFunction([l \in DOMAIN lines |-> lines[l].duration])
      = SumFunction([e \in DOMAIN Entries |-> Cardinality(Covered(e))])

\* A priced segment has the one agreement that covers its date at the most
\* specific level: a client-wide agreement only where no agreement of the
\* project is valid that day, and no day belongs to two successive agreements.
MostSpecificRate ==
  applied # <<>> => \A i \in Segments :
    LET a == applied[i]
        d == work[i].date
        competing(x) == x.from <= d /\ (x.until # None => d < x.until)
    IN /\ competing(a) /\ a.project \in {ProjectOf(i), None}
       /\ \A x \in agreements \ {a} : competing(x) =>
            x.project # ProjectOf(i) /\ (a.project = None => x.project # None)

\* Only a line's total is rounded, to the nearest cent, halves up, so what is
\* billed is within half a cent per line of the exact price of the work.
LinesRoundOnce ==
  Drafted =>
    /\ \A l \in DOMAIN lines :
         LET doubled == 2 * (UnitsPerHour * lines[l].rounded - lines[l].exact)
         IN -UnitsPerHour < doubled /\ doubled <= UnitsPerHour
    /\ \A l \in DOMAIN lines :
         \E a \in agreements : lines[l].exact = lines[l].duration * a.rate

\* Every line is taxed in exactly one group, one group per rate, and each group's
\* tax is its rate of the displayed base to the nearest cent, halves up: what is
\* taxed is the displayed total (docs/billing-rules.md, per-rate rounding).
VatReconciles ==
  stage \in {"taxed", "issued"} =>
    /\ UNION {b.lines : b \in vat} = DOMAIN lines
    /\ \A b, c \in vat : b # c => b.lines \cap c.lines = {} /\ b.rate # c.rate
    /\ SumFunction([b \in vat |-> b.base]) = HtOf(DOMAIN lines)
    /\ \A b \in vat :
         IF b.rate = None THEN b.tax = 0
         ELSE LET doubled == 2 * (VatUnits * b.tax - b.base * b.rate)
              IN -VatUnits < doubled /\ doubled <= VatUnits

\* An issued invoice can be read back, whatever its lines and rates were: the
\* rows pass the checks a reload makes, and every breakdown gets back the lines
\* it was computed from (docs/billing-rules.md, immutable issued invoices).
IssuedReadsBack ==
  stage = "issued" =>
    /\ Reconciles
    /\ {[rate |-> rows.breakdowns[k].rate, exact |-> rows.breakdowns[k].exact,
         base |-> rows.breakdowns[k].base, tax |-> rows.breakdowns[k].tax,
         lines |-> {Positions[p] : p \in RestoredLines(k)}] : k \in DOMAIN rows.breakdowns}
       = vat

\* In every month, short, leap or a year's last, an issued invoice is due when its
\* payment terms say (docs/billing-rules.md:83).
DueDateFollowsTerms ==
  stage = "issued" => AsAgreed(rows.issue_date, rows.payment_terms, rows.due_date)
=============================================================================
