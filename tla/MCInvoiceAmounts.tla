---------------------------- MODULE MCInvoiceAmounts ----------------------------
(* A finite instance of InvoiceAmounts for TLC. *)
EXTENDS InvoiceAmounts

SomeEntries ==
  << [start |-> 0, end |-> 3, project |-> "p", billable |-> TRUE],
     [start |-> 1, end |-> 2, project |-> "q", billable |-> TRUE],
     [start |-> 1, end |-> 2, project |-> "p", billable |-> FALSE],
     [start |-> 1, end |-> 2, project |-> None, billable |-> TRUE] >>

\* Every interval of the first entry, on two lines; the second entry whole, or
\* an interval that leaves it; the others, which may not be billed, whole.  The
\* business date is the day the interval starts.
Segment(e, s, t, l) == [entry |-> e, start |-> s, end |-> t, date |-> s, line |-> l]

SomeSegments ==
  {Segment(1, s, t, l) : s \in 0 .. 2, t \in {1, 2, 3}, l \in {1, 2}}
    \cup {Segment(2, s, 2, 2) : s \in {0, 1}}
    \cup {Segment(e, 1, 2, 1) : e \in {3, 4}}

SomeLists ==
  {<<a>> : a \in SomeSegments} \cup {<<a, b>> : a, b \in SomeSegments}
    \cup {<<a, b, c>> : a, b, c \in {s \in SomeSegments :
                         s.entry < 3 /\ s.start < s.end /\ s.end - s.start < 3}}

Agreement(p, from, until, rate, currency) ==
  [project |-> p, from |-> from, until |-> until, rate |-> rate, currency |-> currency]

\* Client-wide only; a project agreement that starts later; a change of rate from
\* one day to the next, and back to the client's; a conflict and a gap; a foreign
\* currency.
SomeSchedules ==
  { {Agreement(None, 0, None, 101, "EUR")},
    {Agreement(None, 0, None, 101, "EUR"), Agreement("p", 1, None, 55, "EUR")},
    {Agreement("p", 0, 1, 55, "EUR"), Agreement("p", 1, 2, 101, "EUR"),
     Agreement("q", 0, None, 7, "EUR"), Agreement(None, 2, None, 7, "EUR")},
    {Agreement("p", 1, None, 55, "EUR"), Agreement("p", 2, None, 101, "EUR"),
     Agreement(None, 1, None, 7, "EUR")},
    {Agreement(None, 0, None, 101, "EUR"), Agreement("q", 0, None, 7, "USD")} }

Rates == {55, 200}
SomeDefaults == {196, None}
SomeAssignments ==
  [{1, 2} -> Rates] \cup [{1} -> Rates] \cup [{2} -> {200}]

\* The days around which 45 days reach another month, in a year, a leap year and a
\* century that is none; ends of months; the last days from which 45 can be counted.
SomeDates ==
  [year : {2023, 2024, 2100}, month : {1}, day : {14, 15, 31}]
    \cup [year : {2023, 2024}, month : {2, 12}, day : {28}]
    \cup {[year |-> 2024, month |-> 2, day |-> 29], [year |-> 2024, month |-> 12, day |-> 31]}
    \cup [year : {9999}, month : {11}, day : {1, 16, 17}]

SomeTerms ==
  { [due_rule |-> "due_on_issue", net_days |-> None], [due_rule |-> "net_days", net_days |-> 60],
    [due_rule |-> "month_end_plus_45", net_days |-> None],
    [due_rule |-> "end_of_month_after_45", net_days |-> None] }
=============================================================================
