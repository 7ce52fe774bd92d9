------------------------------ MODULE InvoiceDates ------------------------------
(***************************************************************************)
(* When an issued invoice is due: the payment terms of the settings applied *)
(* to the issue date, in calendar dates.  A pure computation that issuance  *)
(* makes once, under its locks, before it takes a number; the invoice keeps *)
(* the result for ever and nothing checks it again.                         *)
(*                                                                         *)
(* A date is [year, month, day].  Dates end with MaxYear; what would be due *)
(* later is refused, so a due date is a set of at most one.  Python's date  *)
(* arithmetic is modelled as it is used, up to 60 days on.                  *)
(*                                                                         *)
(* Left out: the issue date itself, the local day of an instant             *)
(* (InvoiceIssuance); inputs of a wrong type.                               *)
(***************************************************************************)
EXTENDS Integers

CONSTANTS
  MaxYear,        \* the year of date.max
  IssueDates,     \* [year, month, day] on which an invoice may be issued
  Terms           \* payment terms [due_rule, net_days]

-----------------------------------------------------------------------------
\* calendar.monthrange
Leap(year) == year % 4 = 0 /\ (year % 100 # 0 \/ year % 400 = 0)

MonthLength(year, month) ==
  IF month = 2 THEN (IF Leap(year) THEN 29 ELSE 28)
  ELSE IF month \in {4, 6, 9, 11} THEN 30 ELSE 31

\* The first day of the next month
NextMonth(date) ==
  [year |-> date.year + date.month \div 12, month |-> (date.month % 12) + 1, day |-> 1]

\* A day beyond the end of its month is one of the next.
Carried(date) ==
  LET length == MonthLength(date.year, date.month)
  IN IF date.day <= length THEN date ELSE [NextMonth(date) EXCEPT !.day = date.day - length]

\* date + timedelta(days), up to 60 days on: past the ends of three months at most
PlusDays(date, days) == Carried(Carried(Carried([date EXCEPT !.day = date.day + days])))

EndOfMonth(date) == [date EXCEPT !.day = MonthLength(date.year, date.month)]

\* Payment terms are valid, PaymentTerms.__post_init__; a date is one of the calendar.
ASSUME DatesAssumption ==
  /\ MaxYear \in Nat
  /\ \A d \in IssueDates :
       /\ d = [year |-> d.year, month |-> d.month, day |-> d.day]
       /\ d.year \in 1 .. MaxYear /\ d.month \in 1 .. 12
       /\ d.day \in 1 .. MonthLength(d.year, d.month)
  /\ \A t \in Terms :
       /\ t.due_rule \in {"due_on_issue", "net_days", "month_end_plus_45", "end_of_month_after_45"}
       /\ t.due_rule = "net_days" => t.net_days \in 1 .. 60

\* Mutant of DueBy: the two 45-day rules count and round in the wrong order.
DueByMixedUp(date, terms) ==
  IF terms.due_rule = "due_on_issue" THEN date
  ELSE IF terms.due_rule = "net_days" THEN PlusDays(date, terms.net_days)
  ELSE IF terms.due_rule = "month_end_plus_45" THEN EndOfMonth(PlusDays(date, 45))
  ELSE PlusDays(EndOfMonth(date), 45)

DueBy(date, terms) ==
  IF terms.due_rule = "due_on_issue" THEN date
  ELSE IF terms.due_rule = "net_days" THEN PlusDays(date, terms.net_days)
  ELSE IF terms.due_rule = "month_end_plus_45" THEN PlusDays(EndOfMonth(date), 45)
  ELSE EndOfMonth(PlusDays(date, 45))

\* derive_payment_due_date: an OverflowError is a refusal.
DueDates(date, terms) == {due \in {DueBy(date, terms)} : due.year <= MaxYear}

-----------------------------------------------------------------------------
(* The reference *)

\* A date's number in the Gregorian calendar, without months' ends.
DayNumber(date) ==
  LET past == date.year - 1
      before == (367 * date.month - 362) \div 12
      leap == IF date.month <= 2 THEN 0 ELSE IF Leap(date.year) THEN -1 ELSE -2
  IN 365 * past + past \div 4 - past \div 100 + past \div 400 + before + leap + date.day

FirstOfNext(date) == DayNumber(NextMonth(date))

\* What the terms say, counted in days of the calendar: the agreed days, 45 days
\* after the last day of the month of issue, or the first month's end that is at
\* least 45 days away.
AsAgreed(date, terms, due) ==
  LET issued == DayNumber(date)
      day == DayNumber(due)
  IN /\ terms.due_rule = "due_on_issue" => day = issued
     /\ terms.due_rule = "net_days" => day = issued + terms.net_days
     /\ terms.due_rule = "month_end_plus_45" => day = FirstOfNext(date) + 44
     /\ terms.due_rule = "end_of_month_after_45" =>
          /\ day >= issued + 45 /\ day = FirstOfNext(due) - 1
          /\ DayNumber([due EXCEPT !.day = 1]) <= issued + 45
=============================================================================
