------------------------- MODULE InvoiceAmounts_proofs -------------------------
(***************************************************************************)
(* Proofs about InvoiceAmounts and InvoiceDates, for every request, every   *)
(* set of agreements, every date and all payment terms.                     *)
(***************************************************************************)
EXTENDS InvoiceAmounts, FiniteSetTheorems, SequenceTheorems, WellFoundedInduction, TLAPS

-----------------------------------------------------------------------------
(* The calendar *)

\* A month and a number of days counted from its first, which may exceed it.
Counted(d) ==
  /\ d = [year |-> d.year, month |-> d.month, day |-> d.day]
  /\ d.year \in Int /\ d.month \in 1 .. 12 /\ d.day \in Nat

\* A date of the calendar.
OfCalendar(d) == Counted(d) /\ d.day \in 1 .. MonthLength(d.year, d.month)

\* Months have 28 to 31 days.
LEMMA MonthLengthIs ==
  ASSUME NEW y \in Int, NEW m \in 1 .. 12
  PROVE  MonthLength(y, m) \in 28 .. 31
BY DEF MonthLength

\* The days from the calendar's beginning to the end of year y.
DaysThrough(y) == 365 * y + y \div 4 - y \div 100 + y \div 400

\* A year has 365 days, a leap year one day more.
LEMMA YearLength ==
  ASSUME NEW y \in Int
  PROVE  /\ DaysThrough(y) \in Int /\ DaysThrough(y - 1) \in Int
         /\ DaysThrough(y) = DaysThrough(y - 1) + 365 + (IF Leap(y) THEN 1 ELSE 0)
<1>1. y \div 4 - (y - 1) \div 4 = IF y % 4 = 0 THEN 1 ELSE 0
  OBVIOUS
<1>2. y \div 100 - (y - 1) \div 100 = IF y % 100 = 0 THEN 1 ELSE 0
  OBVIOUS
<1>3. y \div 400 - (y - 1) \div 400 = IF y % 400 = 0 THEN 1 ELSE 0
  OBVIOUS
<1>4. (y % 400 = 0 => y % 100 = 0) /\ (y % 100 = 0 => y % 4 = 0)
  OBVIOUS
<1>5. /\ y \div 4 \in Int /\ y \div 100 \in Int /\ y \div 400 \in Int
      /\ (y - 1) \div 4 \in Int /\ (y - 1) \div 100 \in Int /\ (y - 1) \div 400 \in Int
  OBVIOUS
<1>6. y \div 4 - y \div 100 + y \div 400
        = (y - 1) \div 4 - (y - 1) \div 100 + (y - 1) \div 400 + (IF Leap(y) THEN 1 ELSE 0)
  BY <1>1, <1>2, <1>3, <1>4, <1>5 DEF Leap
<1>7. CASE Leap(y)
  BY <1>5, <1>6, <1>7 DEF DaysThrough
<1>8. CASE ~Leap(y)
  BY <1>5, <1>6, <1>8 DEF DaysThrough
<1>9. QED
  BY <1>7, <1>8

\* The days of a month are as many as its length says, also across a year's end.
LEMMA MonthsMeet ==
  ASSUME NEW d, Counted(d)
  PROVE  /\ Counted(NextMonth(d)) /\ NextMonth(d).day = 1
         /\ DayNumber(NextMonth(d)) = DayNumber(d) - d.day + 1 + MonthLength(d.year, d.month)
<1> DEFINE y == d.year
           m == d.month
           past(z) == DaysThrough(z)
           before(n) == (367 * n - 362) \div 12
           leap(z, n) == IF n <= 2 THEN 0 ELSE IF Leap(z) THEN -1 ELSE -2
<1>1. y \in Int /\ m \in 1 .. 12 /\ d.day \in Nat
  BY DEF Counted
<1>2. DayNumber(d) = past(y - 1) + before(m) + leap(y, m) + d.day
  BY <1>1 DEF DayNumber, DaysThrough
<1>3. /\ m < 12 => NextMonth(d) = [year |-> y, month |-> m + 1, day |-> 1]
      /\ m = 12 => NextMonth(d) = [year |-> y + 1, month |-> 1, day |-> 1]
  BY <1>1 DEF NextMonth
<1>4. Counted(NextMonth(d)) /\ NextMonth(d).day = 1
  BY <1>1, <1>3 DEF Counted
<1>5. ASSUME m < 12
      PROVE  DayNumber(NextMonth(d)) = past(y - 1) + before(m + 1) + leap(y, m + 1) + 1
  <2>1. NextMonth(d).year = y /\ NextMonth(d).month = m + 1 /\ NextMonth(d).day = 1
    BY <1>3, <1>5
  <2>2. QED
    BY <1>1, <2>1 DEF DayNumber, DaysThrough
<1>6. ASSUME m = 12
      PROVE  DayNumber(NextMonth(d)) = past(y) + 1
  <2>1. NextMonth(d).year = y + 1 /\ NextMonth(d).month = 1 /\ NextMonth(d).day = 1
    BY <1>3, <1>6
  <2>2. (y + 1) - 1 = y /\ (367 * 1 - 362) \div 12 = 0
    BY <1>1
  <2>3. QED
    BY <1>1, <2>1, <2>2 DEF DayNumber, DaysThrough
<1>7. past(y) = past(y - 1) + 365 + (IF Leap(y) THEN 1 ELSE 0)
  BY <1>1, YearLength
<1>8. /\ before(1) = 0 /\ before(2) = 31 /\ before(3) = 61 /\ before(4) = 92
      /\ before(5) = 122 /\ before(6) = 153 /\ before(7) = 183 /\ before(8) = 214
      /\ before(9) = 245 /\ before(10) = 275 /\ before(11) = 306 /\ before(12) = 336
  OBVIOUS
<1>9. past(y - 1) \in Int /\ MonthLength(y, m) \in Int
  <2>1. past(y - 1) \in Int
    BY <1>1, YearLength
  <2>2. MonthLength(y, m) \in Int
    BY <1>1, MonthLengthIs
  <2>3. QED
    BY <2>1, <2>2
<1>10. DayNumber(d) \in Int /\ d.day \in Int
  BY <1>1 DEF DayNumber
<1> HIDE DEF past, before
<1>11. ASSUME m < 12
       PROVE  before(m + 1) + leap(y, m + 1) = before(m) + leap(y, m) + MonthLength(y, m)
  BY <1>1, <1>8, <1>11 DEF MonthLength
<1>12. ASSUME m = 12
       PROVE  before(m) + leap(y, m) + MonthLength(y, m) = 365 + (IF Leap(y) THEN 1 ELSE 0)
  BY <1>1, <1>8, <1>12 DEF MonthLength
<1>13. \A n \in 1 .. 12 : before(n) \in Int /\ leap(y, n) \in Int
  BY <1>8
<1> HIDE DEF leap
<1>14. DayNumber(NextMonth(d)) = DayNumber(d) - d.day + 1 + MonthLength(y, m)
  <2>1. CASE m < 12
    <3>1. m + 1 \in 1 .. 12
      BY <1>1, <2>1
    <3>2. QED
      BY <1>1, <1>2, <1>5, <1>9, <1>11, <1>13, <2>1, <3>1
  <2>2. CASE m = 12
    BY <1>1, <1>2, <1>6, <1>7, <1>9, <1>12, <1>13, <2>2
  <2>3. QED
    BY <1>1, <2>1, <2>2
<1>15. QED
  BY <1>4, <1>14

\* Days of one month are numbered in order.
LEMMA SameMonth ==
  ASSUME NEW d, Counted(d), NEW k \in Nat
  PROVE  LET e == [d EXCEPT !.day = k]
         IN /\ Counted(e) /\ e.year = d.year /\ e.month = d.month /\ e.day = k
            /\ DayNumber(d) \in Int /\ DayNumber(e) = DayNumber(d) - d.day + k
<1> DEFINE e == [d EXCEPT !.day = k]
<1>1. d.year \in Int /\ d.month \in 1 .. 12 /\ d.day \in Nat
  BY DEF Counted
<1>2. e = [year |-> d.year, month |-> d.month, day |-> k]
  BY DEF Counted
<1>3. e.year = d.year /\ e.month = d.month /\ e.day = k
  BY <1>2
<1>4. Counted(e)
  BY <1>1, <1>2, <1>3 DEF Counted
<1> HIDE DEF e
<1>5. DayNumber(d) \in Int
  <2> DEFINE past == d.year - 1
             before == (367 * d.month - 362) \div 12
             leap == IF d.month <= 2 THEN 0 ELSE IF Leap(d.year) THEN -1 ELSE -2
             shorter == 365 * past + past \div 4 - past \div 100 + past \div 400
  <2>1. shorter \in Int /\ before \in Int
    BY <1>1
  <2>2. leap \in Int
    BY <1>1
  <2>3. DayNumber(d) = shorter + before + leap + d.day
    BY DEF DayNumber
  <2> HIDE DEF shorter, before, leap
  <2>4. QED
    BY <1>1, <2>1, <2>2, <2>3
<1>6. DayNumber(e) = DayNumber(d) - d.day + k
  BY <1>1, <1>3 DEF DayNumber
<1>7. QED
  BY <1>3, <1>4, <1>5, <1>6 DEF e

\* Carrying a day over changes how a date is written and not which it is; a date
\* of the calendar stays as it is, and a longer count loses a month of 28 days at
\* least.
LEMMA CarriedIs ==
  ASSUME NEW d, Counted(d), d.day >= 1
  PROVE  LET c == Carried(d)
         IN /\ Counted(c) /\ c.day >= 1 /\ DayNumber(c) = DayNumber(d)
            /\ OfCalendar(c) \/ c.day <= d.day - 28
            /\ OfCalendar(d) => c = d
<1> DEFINE length == MonthLength(d.year, d.month)
           c == Carried(d)
<1>1. d.year \in Int /\ d.month \in 1 .. 12 /\ d.day \in Nat
  BY DEF Counted
<1>2. length \in 28 .. 31
  BY <1>1, MonthLengthIs
<1>3. CASE d.day <= length
  <2>1. c = d
    BY <1>3 DEF Carried
  <2>2. OfCalendar(d)
    BY <1>1, <1>2, <1>3 DEF OfCalendar
  <2>3. QED
    BY <2>1, <2>2
<1>4. CASE ~(d.day <= length)
  <2> DEFINE n == NextMonth(d)
  <2>1. Counted(n) /\ n.day = 1 /\ DayNumber(n) = DayNumber(d) - d.day + 1 + length
    BY MonthsMeet
  <2>2. d.day - length \in Nat /\ d.day - length >= 1
    BY <1>1, <1>2, <1>4
  <2>3. c = [n EXCEPT !.day = d.day - length]
    BY <1>4 DEF Carried
  <2> HIDE DEF n, c, length
  <2>4. /\ Counted(c) /\ c.day = d.day - length
        /\ DayNumber(n) \in Int /\ DayNumber(c) = DayNumber(n) - n.day + (d.day - length)
    BY <2>1, <2>2, <2>3, SameMonth
  <2>5. DayNumber(d) \in Int
    BY <1>1, SameMonth
  <2>6. DayNumber(c) = DayNumber(d)
    BY <1>1, <1>2, <2>1, <2>4, <2>5
  <2>7. ~OfCalendar(d)
    BY <1>1, <1>4 DEF OfCalendar, length
  <2>8. c.day <= d.day - 28
    BY <1>1, <1>2, <2>4
  <2>9. QED
    BY <2>2, <2>4, <2>6, <2>7, <2>8 DEF c
<1>5. QED
  BY <1>3, <1>4

\* Up to 60 days on, PlusDays counts days and ends on a date of the calendar.
LEMMA PlusDaysIs ==
  ASSUME NEW d, OfCalendar(d), NEW k \in 0 .. 60
  PROVE  OfCalendar(PlusDays(d, k)) /\ DayNumber(PlusDays(d, k)) = DayNumber(d) + k
<1> DEFINE a == [d EXCEPT !.day = d.day + k]
           b == Carried(a)
           c == Carried(b)
           e == Carried(c)
<1>1. Counted(d) /\ d.year \in Int /\ d.month \in 1 .. 12 /\ d.day \in Nat /\ d.day >= 1
  BY DEF OfCalendar, Counted
<1>2. d.day <= 31
  BY <1>1, MonthLengthIs DEF OfCalendar
<1>3. d.day + k \in Nat
  BY <1>1
<1>4. /\ Counted(a) /\ a.day = d.day + k
      /\ DayNumber(d) \in Int /\ DayNumber(a) = DayNumber(d) - d.day + (d.day + k)
  BY <1>1, <1>3, SameMonth
<1> HIDE DEF a
<1>5. a.day >= 1 /\ a.day <= 91 /\ DayNumber(a) = DayNumber(d) + k
  BY <1>1, <1>2, <1>4
<1>6. /\ Counted(b) /\ b.day >= 1 /\ DayNumber(b) = DayNumber(a)
      /\ OfCalendar(b) \/ b.day <= a.day - 28
  BY <1>4, <1>5, CarriedIs
<1> HIDE DEF b
<1>7. /\ Counted(c) /\ c.day >= 1 /\ DayNumber(c) = DayNumber(b)
      /\ OfCalendar(c) \/ c.day <= b.day - 28
      /\ OfCalendar(b) => c = b
  BY <1>6, CarriedIs
<1> HIDE DEF c
<1>8. /\ Counted(e) /\ e.day >= 1 /\ DayNumber(e) = DayNumber(c)
      /\ OfCalendar(e) \/ e.day <= c.day - 28
      /\ OfCalendar(c) => e = c
  BY <1>7, CarriedIs
<1> HIDE DEF e
<1>9. a.day \in Nat /\ b.day \in Nat /\ c.day \in Nat /\ e.day \in Nat
  BY <1>4, <1>6, <1>7, <1>8 DEF Counted
<1>10. OfCalendar(e)
  <2>1. CASE OfCalendar(b)
    BY <1>7, <1>8, <2>1
  <2>2. CASE OfCalendar(c)
    BY <1>8, <2>2
  <2>3. CASE ~OfCalendar(b) /\ ~OfCalendar(c)
    <3>1. c.day <= 35
      BY <1>5, <1>6, <1>7, <1>9, <2>3
    <3>2. CASE OfCalendar(e)
      BY <3>2
    <3>3. CASE ~OfCalendar(e)
      <4>1. e.day <= 7
        BY <1>8, <1>9, <3>1, <3>3
      <4>2. e.year \in Int /\ e.month \in 1 .. 12
        BY <1>8 DEF Counted
      <4>3. QED
        BY <1>8, <1>9, <4>1, <4>2, MonthLengthIs DEF OfCalendar
    <3>4. QED
      BY <3>2, <3>3
  <2>4. QED
    BY <2>1, <2>2, <2>3
<1>11. PlusDays(d, k) = e
  BY DEF PlusDays, a, b, c, e
<1>12. QED
  BY <1>5, <1>6, <1>7, <1>8, <1>10, <1>11

\* The end of a month is the day before the first of the next.
LEMMA EndOfMonthIs ==
  ASSUME NEW d, OfCalendar(d)
  PROVE  LET e == EndOfMonth(d)
         IN /\ OfCalendar(e)
            /\ DayNumber(d) \in Int /\ DayNumber(e) \in Int
            /\ DayNumber(e) = DayNumber(d) - d.day + MonthLength(d.year, d.month)
            /\ DayNumber(e) = FirstOfNext(d) - 1 /\ DayNumber(e) = FirstOfNext(e) - 1
<1> DEFINE e == EndOfMonth(d)
           length == MonthLength(d.year, d.month)
<1>1. Counted(d) /\ d.year \in Int /\ d.month \in 1 .. 12 /\ d.day \in Nat
  BY DEF OfCalendar, Counted
<1>2. length \in 28 .. 31 /\ length \in Nat
  BY <1>1, MonthLengthIs
<1> HIDE DEF length
<1>3. e = [d EXCEPT !.day = length]
  BY DEF EndOfMonth, length
<1> HIDE DEF e
<1>4. /\ Counted(e) /\ e.year = d.year /\ e.month = d.month /\ e.day = length
      /\ DayNumber(d) \in Int /\ DayNumber(e) = DayNumber(d) - d.day + length
  BY <1>1, <1>2, <1>3, SameMonth
<1>5. OfCalendar(e)
  BY <1>2, <1>4 DEF OfCalendar, length
<1>6. FirstOfNext(d) = DayNumber(d) - d.day + 1 + length
  BY <1>1, MonthsMeet DEF FirstOfNext, length
<1>7. FirstOfNext(e) = DayNumber(e) - e.day + 1 + MonthLength(e.year, e.month)
  BY <1>4, MonthsMeet DEF FirstOfNext
<1>8. MonthLength(e.year, e.month) = length
  BY <1>4 DEF length
<1>9. DayNumber(e) \in Int
  BY <1>1, <1>2, <1>4
<1>10. DayNumber(e) = FirstOfNext(d) - 1 /\ DayNumber(e) = FirstOfNext(e) - 1
  BY <1>1, <1>2, <1>4, <1>6, <1>7, <1>8, <1>9
<1>11. QED
  BY <1>4, <1>5, <1>9, <1>10 DEF e, length

\* derive_payment_due_date keeps the terms, for every date and all terms: the
\* four rules, through short months, leap years and the ends of years.
LEMMA DueIsAsAgreed ==
  ASSUME NEW d \in IssueDates, NEW t \in Terms
  PROVE  AsAgreed(d, t, DueBy(d, t))
<1> DEFINE due == DueBy(d, t)
<1>1. OfCalendar(d)
  BY DatesAssumption DEF OfCalendar, Counted
<1>2. DayNumber(d) \in Int
  BY <1>1, EndOfMonthIs
<1>3. CASE t.due_rule = "due_on_issue"
  BY <1>3 DEF AsAgreed, DueBy
<1>4. CASE t.due_rule = "net_days"
  <2>1. t.net_days \in 0 .. 60
    BY <1>4, DatesAssumption
  <2>2. DayNumber(PlusDays(d, t.net_days)) = DayNumber(d) + t.net_days
    BY <1>1, <2>1, PlusDaysIs
  <2>3. QED
    BY <1>4, <2>2 DEF AsAgreed, DueBy
<1>5. CASE t.due_rule = "month_end_plus_45"
  <2> DEFINE e == EndOfMonth(d)
  <2>1. OfCalendar(e) /\ DayNumber(e) \in Int /\ DayNumber(e) = FirstOfNext(d) - 1
    BY <1>1, EndOfMonthIs
  <2>2. FirstOfNext(d) \in Int
    BY <1>1, <1>2, MonthsMeet, MonthLengthIs DEF FirstOfNext, OfCalendar, Counted
  <2>3. DayNumber(PlusDays(e, 45)) = DayNumber(e) + 45
    BY <2>1, PlusDaysIs
  <2>4. DayNumber(PlusDays(e, 45)) = FirstOfNext(d) + 44
    BY <2>1, <2>2, <2>3
  <2>5. QED
    BY <1>5, <2>4 DEF AsAgreed, DueBy
<1>6. CASE t.due_rule = "end_of_month_after_45"
  <2> DEFINE p == PlusDays(d, 45)
             e == EndOfMonth(p)
             f == [e EXCEPT !.day = 1]
  <2>1. OfCalendar(p) /\ DayNumber(p) = DayNumber(d) + 45
    BY <1>1, PlusDaysIs
  <2> HIDE DEF p
  <2>2. /\ OfCalendar(e) /\ DayNumber(e) \in Int /\ DayNumber(e) = FirstOfNext(e) - 1
        /\ DayNumber(e) = DayNumber(p) - p.day + MonthLength(p.year, p.month)
    BY <2>1, EndOfMonthIs
  <2>3. p.day \in Nat /\ p.day >= 1 /\ p.day <= MonthLength(p.year, p.month)
    BY <2>1 DEF OfCalendar, Counted
  <2>4. MonthLength(p.year, p.month) \in Nat
    BY <2>1, MonthLengthIs DEF OfCalendar, Counted
  <2>5. e.day = MonthLength(p.year, p.month)
    BY <2>1, <2>4, SameMonth DEF EndOfMonth, OfCalendar
  <2> HIDE DEF e
  <2>6. DayNumber(f) = DayNumber(e) - e.day + 1
    BY <2>2, SameMonth DEF OfCalendar
  <2> HIDE DEF f
  <2>7. DayNumber(e) >= DayNumber(d) + 45 /\ DayNumber(f) <= DayNumber(d) + 45
    BY <1>2, <2>1, <2>2, <2>3, <2>4, <2>5, <2>6
  <2>8. due = e
    BY <1>6 DEF DueBy, e, p
  <2>9. QED
    BY <1>6, <2>2, <2>7, <2>8 DEF AsAgreed, f
<1>7. QED
  BY <1>3, <1>4, <1>5, <1>6, DatesAssumption

-----------------------------------------------------------------------------
(* Sums *)

\* Induction over the subsets of a finite set, for a set of good ones.
LEMMA SubsetInduction ==
  ASSUME NEW D, IsFiniteSet(D), NEW Good,
         \A s \in SUBSET D : (\A t \in SUBSET s : t # s => t \in Good) => s \in Good
  PROVE  \A s \in SUBSET D : s \in Good
<1> DEFINE Bad == {s \in SUBSET D : s \notin Good}
           R == StrictSubsetOrdering(D)
<1>1. IsWellFoundedOn(R, SUBSET D)
  <2>1. FiniteSubsetsOf(D) = SUBSET D
    BY FS_FiniteSubsetsOfFinite
  <2>2. QED
    BY <2>1, FS_StrictSubsetOrderingWellFounded
<1>2. ASSUME Bad # {} PROVE FALSE
  <2>1. Bad \subseteq SUBSET D
    OBVIOUS
  <2> HIDE DEF Bad, R
  <2>2. PICK s \in Bad : \A t \in Bad : ~(<<t, s>> \in R)
    BY <1>1, <1>2, <2>1, WFMin
  <2>3. \A t \in SUBSET s : t # s => t \in Good
    <3> SUFFICES ASSUME NEW t \in SUBSET s, t # s, t \notin Good PROVE FALSE
      OBVIOUS
    <3>1. t \in Bad
      BY <2>1 DEF Bad
    <3>2. <<t, s>> \in R
      BY <2>1, <3>1 DEF R, StrictSubsetOrdering
    <3>3. QED
      BY <2>2, <3>1, <3>2
  <2>4. QED
    BY <2>1, <2>3 DEF Bad
<1>3. QED
  BY <1>2

\* The element a sum takes next, and the function that SumFunction computes.
Chosen(s) == CHOOSE x \in s : TRUE

Solves(g, h, D) ==
  g = [s \in SUBSET D |-> IF s = {} THEN 0 ELSE h[Chosen(s)] + g[s \ {Chosen(s)}]]

\* A nonempty set has a chosen element.
LEMMA ChosenIn ==
  ASSUME NEW s, s # {}
  PROVE  Chosen(s) \in s
BY DEF Chosen

\* What a sum over a set is depends on the values in that set only.
LEMMA SolutionsAgree ==
  ASSUME NEW D, NEW E, NEW T, IsFiniteSet(T), T \subseteq D, T \subseteq E,
         NEW g, NEW h, Solves(g, h, D), NEW f, NEW k, Solves(f, k, E),
         \A x \in T : h[x] = k[x]
  PROVE  g[T] = f[T]
<1> DEFINE Good == {s \in SUBSET T : g[s] = f[s]}
<1>1. ASSUME NEW s \in SUBSET T, \A t \in SUBSET s : t # s => t \in Good
      PROVE  s \in Good
  <2> DEFINE c == Chosen(s)
             u == s \ {c}
  <2>1. s \in SUBSET D /\ s \in SUBSET E
    OBVIOUS
  <2>2. g[s] = IF s = {} THEN 0 ELSE h[c] + g[u]
    BY <2>1 DEF Solves
  <2>3. f[s] = IF s = {} THEN 0 ELSE k[c] + f[u]
    BY <2>1 DEF Solves
  <2>4. CASE s = {}
    BY <2>2, <2>3, <2>4
  <2>5. CASE s # {}
    <3>1. c \in s
      BY <2>5, ChosenIn
    <3> HIDE DEF c
    <3>2. g[u] = f[u]
      BY <1>1, <3>1
    <3>3. h[c] = k[c]
      BY <3>1
    <3>4. QED
      BY <2>2, <2>3, <2>5, <3>2, <3>3
  <2>6. QED
    BY <2>4, <2>5
<1> HIDE DEF Good
<1>2. T \in Good
  BY <1>1, SubsetInduction
<1>3. QED
  BY <1>2 DEF Good

\* SumFunction has a value for every finite set.
LEMMA SolutionExists ==
  ASSUME NEW D, IsFiniteSet(D), NEW h
  PROVE  \E g : Solves(g, h, D)
<1> DEFINE Good == {s \in SUBSET D : \E g : Solves(g, h, s)}
<1>1. ASSUME NEW s \in SUBSET D, \A t \in SUBSET s : t # s => t \in Good
      PROVE  s \in Good
  <2> DEFINE part(t) == CHOOSE g : Solves(g, h, t)
             v == [t \in (SUBSET s) \ {s} |-> part(t)[t]]
             g == [t \in SUBSET s |-> IF t = {} THEN 0 ELSE h[Chosen(t)] + v[t \ {Chosen(t)}]]
  <2>1. ASSUME NEW t \in SUBSET s, t # s PROVE Solves(part(t), h, t) /\ v[t] = part(t)[t]
    <3>1. \E f : Solves(f, h, t)
      BY <1>1, <2>1
    <3>2. QED
      BY <2>1, <3>1
  <2> HIDE DEF part
  <2>2. ASSUME NEW t \in SUBSET s, t # s PROVE g[t] = v[t]
    <3> DEFINE c == Chosen(t)
               u == t \ {c}
    <3>1. part(t)[t] = IF t = {} THEN 0 ELSE h[c] + part(t)[u]
      BY <2>1, <2>2 DEF Solves
    <3>2. CASE t = {}
      BY <2>1, <2>2, <3>1, <3>2
    <3>3. CASE t # {}
      <4>1. c \in t
        BY <3>3, ChosenIn
      <4>2. u \in SUBSET s /\ u # s /\ IsFiniteSet(u) /\ u \subseteq t
        <5>1. u \in SUBSET D
          OBVIOUS
        <5>2. IsFiniteSet(u)
          BY <5>1, FS_Subset
        <5>3. QED
          BY <2>2, <4>1, <5>2
      <4>3. Solves(part(u), h, u) /\ v[u] = part(u)[u]
        BY <2>1, <4>2
      <4>4. Solves(part(t), h, t) /\ v[t] = part(t)[t]
        BY <2>1, <2>2
      <4>5. part(t)[u] = part(u)[u]
        <5> HIDE DEF u, v, g, c, Good
        <5>1. QED
          BY <4>2, <4>3, <4>4, SolutionsAgree
      <4>6. g[t] = h[c] + v[u]
        BY <3>3
      <4> HIDE DEF g, v, c, u
      <4>7. QED
        BY <3>1, <3>3, <4>3, <4>4, <4>5, <4>6
    <3>4. QED
      BY <3>2, <3>3
  <2>3. ASSUME NEW t \in SUBSET s, t # {}
        PROVE  v[t \ {Chosen(t)}] = g[t \ {Chosen(t)}]
    <3>1. Chosen(t) \in t
      BY <2>3, ChosenIn
    <3>2. t \ {Chosen(t)} \in SUBSET s /\ t \ {Chosen(t)} # s
      BY <3>1
    <3> HIDE DEF g, v
    <3>3. QED
      BY <2>2, <3>2
  <2>4. Solves(g, h, s)
    <3> DEFINE b(t) == IF t = {} THEN 0 ELSE h[Chosen(t)] + g[t \ {Chosen(t)}]
    <3>1. ASSUME NEW t \in SUBSET s PROVE g[t] = b(t)
      <4>1. g[t] = IF t = {} THEN 0 ELSE h[Chosen(t)] + v[t \ {Chosen(t)}]
        OBVIOUS
      <4> HIDE DEF g, v
      <4>2. QED
        BY <2>3, <4>1
    <3>2. g = [t \in SUBSET s |-> g[t]]
      OBVIOUS
    <3> HIDE DEF g, v
    <3>3. g = [t \in SUBSET s |-> b(t)]
      BY <3>1, <3>2
    <3>4. QED
      BY <3>3 DEF Solves
  <2>5. QED
    BY <2>4
<1> HIDE DEF Good
<1>2. D \in Good
  BY <1>1, SubsetInduction
<1>3. QED
  BY <1>2 DEF Good

\* SumFunction, unfolded.
LEMMA SumUnfolds ==
  ASSUME NEW h, IsFiniteSet(DOMAIN h)
  PROVE  \E g : Solves(g, h, DOMAIN h) /\ SumFunction(h) = g[DOMAIN h]
<1> DEFINE g == CHOOSE f : Solves(f, h, DOMAIN h)
<1>1. Solves(g, h, DOMAIN h)
  <2>1. \E f : Solves(f, h, DOMAIN h)
    BY SolutionExists
  <2>2. QED
    BY <2>1
<1>2. SumFunction(h) = g[DOMAIN h]
  BY DEF SumFunction, SumFunctionOnSet, FoldFunctionOnSet, MapThenFoldSet, Solves, Chosen
<1> HIDE DEF g
<1>3. QED
  BY <1>1, <1>2

\* The sums of a finite function over all subsets of its domain: taking any element
\* out, not only the one SumFunction would take, leaves the rest of the sum.
SumsTo(sum, h, D) ==
  /\ sum \in [SUBSET D -> Int]
  /\ sum[{}] = 0
  /\ \A T \in SUBSET D : SumFunction(Restrict(h, T)) = sum[T]
  /\ \A T \in SUBSET D : \A x \in T : sum[T] = h[x] + sum[T \ {x}]

\* Every function from a finite set to the integers has such sums.
LEMMA SumsOver ==
  ASSUME NEW D, IsFiniteSet(D), NEW h, \A x \in D : h[x] \in Int
  PROVE  \E sum : SumsTo(sum, h, D)
<1>1. PICK g : Solves(g, h, D)
  BY SolutionExists
<1>2. \A T \in SUBSET D : SumFunction(Restrict(h, T)) = g[T]
  <2> SUFFICES ASSUME NEW T \in SUBSET D
               PROVE  SumFunction(Restrict(h, T)) = g[T]
    OBVIOUS
  <2> DEFINE k == Restrict(h, T)
  <2>1. IsFiniteSet(T) /\ DOMAIN k = T /\ \A x \in T : h[x] = k[x]
    BY FS_Subset DEF Restrict
  <2> HIDE DEF k
  <2>2. PICK f : Solves(f, k, T) /\ SumFunction(k) = f[T]
    BY <2>1, SumUnfolds
  <2>3. g[T] = f[T]
    BY <1>1, <2>1, <2>2, SolutionsAgree
  <2>4. QED
    BY <2>2, <2>3 DEF k
<1>3. g[{}] = 0
  BY <1>1 DEF Solves
<1>4. ASSUME NEW T \in SUBSET D, T # {}
      PROVE  Chosen(T) \in T /\ g[T] = h[Chosen(T)] + g[T \ {Chosen(T)}]
  BY <1>1, <1>4, ChosenIn DEF Solves
<1> DEFINE Good == {T \in SUBSET D : g[T] \in Int /\ \A x \in T : g[T] = h[x] + g[T \ {x}]}
<1>5. ASSUME NEW T \in SUBSET D, \A t \in SUBSET T : t # T => t \in Good
      PROVE  T \in Good
  <2> DEFINE c == Chosen(T)
             u == T \ {c}
  <2>1. CASE T = {}
    BY <1>3, <2>1
  <2>2. CASE T # {}
    <3>1. c \in T /\ g[T] = h[c] + g[u]
      BY <1>4, <2>2
    <3> HIDE DEF c
    <3>2. u \in Good
      BY <1>5, <3>1
    <3>3. g[T] \in Int
      BY <3>1, <3>2
    <3>4. ASSUME NEW x \in T PROVE g[T] = h[x] + g[T \ {x}]
      <4>1. CASE x = c
        BY <3>1, <4>1
      <4>2. CASE x # c
        <5> DEFINE r == T \ {x}
                   b == T \ {x, c}
        <5>1. r \in Good /\ b \in Good
          BY <1>5, <3>1
        <5>2. r \ {c} = b /\ u \ {x} = b /\ c \in r /\ x \in u
          BY <3>1, <4>2
        <5> HIDE DEF r, b, u
        <5>3. g[r] = h[c] + g[b] /\ g[u] = h[x] + g[b]
          BY <3>2, <5>1, <5>2
        <5>4. g[b] \in Int /\ h[c] \in Int /\ h[x] \in Int
          BY <3>1, <5>1
        <5>5. g[T] = h[x] + g[r]
          BY <3>1, <5>3, <5>4
        <5>6. QED
          BY <5>5 DEF r
      <4>3. QED
        BY <4>1, <4>2
    <3>5. QED
      BY <3>3, <3>4
  <2>3. QED
    BY <2>1, <2>2
<1> HIDE DEF Good
<1>6. \A T \in SUBSET D : T \in Good
  BY <1>5, SubsetInduction
<1>7. g \in [SUBSET D -> Int]
  <2>1. \A T \in SUBSET D : g[T] \in Int
    BY <1>6 DEF Good
  <2>2. g = [T \in SUBSET D |-> g[T]]
    BY <1>1 DEF Solves
  <2>3. QED
    BY <2>1, <2>2
<1>8. \A T \in SUBSET D : \A x \in T : g[T] = h[x] + g[T \ {x}]
  BY <1>6 DEF Good
<1>9. QED
  BY <1>2, <1>3, <1>7, <1>8 DEF SumsTo

\* A sum of naturals is one.
LEMMA SumIsNatural ==
  ASSUME NEW T, IsFiniteSet(T), NEW h, \A x \in T : h[x] \in Nat
  PROVE  SumFunction(Restrict(h, T)) \in Nat
<1>1. PICK sum : SumsTo(sum, h, T)
  BY SumsOver
<1> DEFINE Good == {s \in SUBSET T : sum[s] \in Nat}
<1>2. ASSUME NEW s \in SUBSET T, \A t \in SUBSET s : t # s => t \in Good
      PROVE  s \in Good
  <2>1. CASE s = {}
    BY <1>1, <2>1 DEF SumsTo
  <2>2. CASE s # {}
    <3>1. PICK x \in s : TRUE
      BY <2>2
    <3>2. s \ {x} \in Good
      BY <1>2, <3>1
    <3>3. sum[s] = h[x] + sum[s \ {x}]
      BY <1>1 DEF SumsTo
    <3>4. QED
      BY <3>2, <3>3
  <2>3. QED
    BY <2>1, <2>2
<1> HIDE DEF Good
<1>3. T \in Good
  BY <1>2, SubsetInduction
<1>4. QED
  BY <1>1, <1>3 DEF Good, SumsTo

\* A constant factor can be taken out of a sum.
LEMMA SumScales ==
  ASSUME NEW T, IsFiniteSet(T), NEW h, NEW k, NEW c \in Int,
         \A x \in T : h[x] \in Int /\ k[x] = h[x] * c
  PROVE  SumFunction(Restrict(k, T)) = SumFunction(Restrict(h, T)) * c
<1>0. \A x \in T : k[x] \in Int
  <2> SUFFICES ASSUME NEW x \in T PROVE k[x] \in Int
    OBVIOUS
  <2>1. h[x] \in Int /\ k[x] = h[x] * c
    OBVIOUS
  <2>2. QED
    BY <2>1
<1>1. PICK f : SumsTo(f, h, T)
  BY SumsOver
<1>2. PICK g : SumsTo(g, k, T)
  BY <1>0, SumsOver
<1> DEFINE Good == {s \in SUBSET T : g[s] = f[s] * c}
<1>3. ASSUME NEW s \in SUBSET T, \A t \in SUBSET s : t # s => t \in Good
      PROVE  s \in Good
  <2>1. CASE s = {}
    <3>1. 0 * c = 0
      OBVIOUS
    <3>2. QED
      BY <1>1, <1>2, <2>1, <3>1 DEF SumsTo
  <2>2. CASE s # {}
    <3>1. PICK x \in s : TRUE
      BY <2>2
    <3>2. g[s \ {x}] = f[s \ {x}] * c
      BY <1>3, <3>1
    <3>3. f[s] = h[x] + f[s \ {x}] /\ g[s] = k[x] + g[s \ {x}]
      BY <1>1, <1>2 DEF SumsTo
    <3> DEFINE a == h[x]
               b == f[s \ {x}]
    <3>4. a \in Int /\ b \in Int /\ k[x] = a * c
      BY <1>1 DEF SumsTo
    <3> HIDE DEF a, b
    <3>5. (a + b) * c = a * c + b * c
      BY <3>4
    <3>6. g[s] = f[s] * c
      BY <3>2, <3>3, <3>4, <3>5 DEF a, b
    <3>7. QED
      BY <3>6
  <2>3. QED
    BY <2>1, <2>2
<1> HIDE DEF Good
<1>4. T \in Good
  BY <1>3, SubsetInduction
<1>5. QED
  BY <1>1, <1>2, <1>4 DEF Good, SumsTo

\* Sums over disjoint sets add up.
LEMMA SumsAdd ==
  ASSUME NEW D, IsFiniteSet(D), NEW h, \A x \in D : h[x] \in Int,
         NEW A \in SUBSET D, NEW B \in SUBSET D, A \cap B = {}
  PROVE  SumFunction(Restrict(h, A \cup B))
           = SumFunction(Restrict(h, A)) + SumFunction(Restrict(h, B))
<1>1. PICK sum : SumsTo(sum, h, D)
  BY SumsOver
<1> DEFINE Good == {T \in SUBSET B : sum[A \cup T] = sum[A] + sum[T]}
<1>2. ASSUME NEW s \in SUBSET B, \A t \in SUBSET s : t # s => t \in Good
      PROVE  s \in Good
  <2>1. CASE s = {}
    <3>1. A \cup s = A /\ sum[A] \in Int
      BY <1>1, <2>1 DEF SumsTo
    <3>2. QED
      BY <1>1, <2>1, <3>1 DEF SumsTo
  <2>2. CASE s # {}
    <3>1. PICK x \in s : TRUE
      BY <2>2
    <3>2. sum[A \cup (s \ {x})] = sum[A] + sum[s \ {x}]
      BY <1>2, <3>1
    <3>3. /\ A \cup s \in SUBSET D /\ s \in SUBSET D /\ s \ {x} \in SUBSET D
          /\ x \in A \cup s /\ (A \cup s) \ {x} = A \cup (s \ {x})
      BY <3>1
    <3>4. sum[A \cup s] = h[x] + sum[A \cup (s \ {x})] /\ sum[s] = h[x] + sum[s \ {x}]
      BY <1>1, <3>1, <3>3 DEF SumsTo
    <3>5. sum[A] \in Int /\ sum[s \ {x}] \in Int /\ h[x] \in Int
      BY <1>1, <3>1, <3>3 DEF SumsTo
    <3>6. sum[A \cup s] = sum[A] + sum[s]
      BY <3>2, <3>4, <3>5
    <3>7. QED
      BY <3>6
  <2>3. QED
    BY <2>1, <2>2
<1> HIDE DEF Good
<1>3. IsFiniteSet(B)
  BY FS_Subset
<1>4. B \in Good
  BY <1>2, <1>3, SubsetInduction
<1>5. sum[A \cup B] = sum[A] + sum[B]
  BY <1>4 DEF Good
<1>6. A \cup B \in SUBSET D
  OBVIOUS
<1>7. QED
  BY <1>1, <1>5, <1>6 DEF SumsTo

\* A sum can be taken group by group.
LEMMA SumsOfGroups ==
  ASSUME NEW D, IsFiniteSet(D), NEW h, \A x \in D : h[x] \in Int,
         NEW V, IsFiniteSet(V), NEW F, \A v \in V : F[v] \subseteq D,
         \A v, w \in V : v # w => F[v] \cap F[w] = {},
         \A x \in D : \E v \in V : x \in F[v],
         NEW k, \A v \in V : k[v] = SumFunction(Restrict(h, F[v]))
  PROVE  SumFunction(Restrict(k, V)) = SumFunction(Restrict(h, D))
<1>1. PICK sum : SumsTo(sum, h, D)
  BY SumsOver
<1>2. \A v \in V : k[v] = sum[F[v]] /\ k[v] \in Int
  BY <1>1 DEF SumsTo
<1>3. PICK g : SumsTo(g, k, V)
  BY <1>2, SumsOver
<1> DEFINE All(W) == UNION {F[v] : v \in W}
           Good == {W \in SUBSET V : g[W] = sum[All(W)]}
<1>4. ASSUME NEW s \in SUBSET V, \A t \in SUBSET s : t # s => t \in Good
      PROVE  s \in Good
  <2>1. CASE s = {}
    <3>1. All(s) = {}
      BY <2>1
    <3> HIDE DEF All
    <3>2. QED
      BY <1>1, <1>3, <2>1, <3>1 DEF SumsTo
  <2>2. CASE s # {}
    <3>1. PICK v \in s : TRUE
      BY <2>2
    <3> DEFINE t == s \ {v}
    <3>2. g[t] = sum[All(t)]
      BY <1>4, <3>1
    <3>3. All(s) = F[v] \cup All(t)
      BY <3>1
    <3>4. F[v] \cap All(t) = {}
      BY <3>1
    <3>5. F[v] \in SUBSET D /\ All(t) \in SUBSET D /\ All(s) \in SUBSET D
      BY <3>1
    <3>6. g[s] = k[v] + g[t]
      BY <1>3, <3>1 DEF SumsTo
    <3> HIDE DEF All, t
    <3>7. SumFunction(Restrict(h, F[v] \cup All(t)))
            = SumFunction(Restrict(h, F[v])) + SumFunction(Restrict(h, All(t)))
      BY <3>4, <3>5, SumsAdd
    <3>8. F[v] \cup All(t) \in SUBSET D
      BY <3>5
    <3>9. sum[F[v] \cup All(t)] = sum[F[v]] + sum[All(t)]
      BY <1>1, <3>5, <3>7, <3>8 DEF SumsTo
    <3>10. g[s] = sum[All(s)]
      BY <1>2, <3>1, <3>2, <3>3, <3>6, <3>9
    <3>11. QED
      BY <3>10
  <2>3. QED
    BY <2>1, <2>2
<1> HIDE DEF Good
<1>5. V \in Good
  BY <1>4, SubsetInduction
<1>6. g[V] = sum[D]
  <2>1. All(V) = D
    OBVIOUS
  <2> HIDE DEF All
  <2>2. QED
    BY <1>5, <2>1 DEF Good
<1>7. QED
  BY <1>1, <1>3, <1>6 DEF SumsTo

\* The union of disjoint finite sets has as many elements as they have together.
LEMMA CountedTogether ==
  ASSUME NEW T, IsFiniteSet(T), NEW F, \A i \in T : IsFiniteSet(F[i]),
         \A i, j \in T : i # j => F[i] \cap F[j] = {},
         NEW h, \A i \in T : h[i] = Cardinality(F[i])
  PROVE  Cardinality(UNION {F[i] : i \in T}) = SumFunction(Restrict(h, T))
<1>1. \A i \in T : h[i] \in Int
  BY FS_CardinalityType
<1>2. PICK sum : SumsTo(sum, h, T)
  BY <1>1, SumsOver
<1> DEFINE All(s) == UNION {F[i] : i \in s}
           Good == {s \in SUBSET T : IsFiniteSet(All(s)) /\ Cardinality(All(s)) = sum[s]}
<1>3. ASSUME NEW s \in SUBSET T, \A t \in SUBSET s : t # s => t \in Good
      PROVE  s \in Good
  <2>1. CASE s = {}
    <3>1. All(s) = {}
      BY <2>1
    <3> HIDE DEF All
    <3>2. QED
      BY <1>2, <2>1, <3>1, FS_EmptySet DEF SumsTo
  <2>2. CASE s # {}
    <3>1. PICK i \in s : TRUE
      BY <2>2
    <3> DEFINE r == s \ {i}
    <3>2. IsFiniteSet(All(r)) /\ Cardinality(All(r)) = sum[r]
      BY <1>3, <3>1
    <3>3. All(s) = All(r) \cup F[i] /\ All(r) \cap F[i] = {}
      BY <3>1
    <3>4. sum[s] = h[i] + sum[r] /\ sum[r] \in Int
      BY <1>2, <3>1 DEF SumsTo
    <3>5. IsFiniteSet(F[i]) /\ h[i] = Cardinality(F[i]) /\ h[i] \in Int
      BY <1>1, <3>1
    <3> HIDE DEF All, r
    <3>6. /\ IsFiniteSet(All(r) \cup F[i])
          /\ Cardinality(All(r) \cup F[i])
               = Cardinality(All(r)) + Cardinality(F[i]) - Cardinality(All(r) \cap F[i])
      BY <3>2, <3>5, FS_Union
    <3>7. Cardinality(All(r) \cap F[i]) = 0
      BY <3>3, FS_EmptySet
    <3>8. IsFiniteSet(All(s)) /\ Cardinality(All(s)) = sum[s]
      BY <3>2, <3>3, <3>4, <3>5, <3>6, <3>7
    <3>9. QED
      BY <3>8
  <2>3. QED
    BY <2>1, <2>2
<1> HIDE DEF Good
<1>4. T \in Good
  BY <1>3, SubsetInduction
<1>5. QED
  BY <1>2, <1>4 DEF Good, SumsTo

\* A sum does not depend on how its terms are numbered.
LEMMA SumsRenumbered ==
  ASSUME NEW D, IsFiniteSet(D), NEW h, \A x \in D : h[x] \in Int,
         NEW I, IsFiniteSet(I), NEW q, \A i \in I : q[i] \in D,
         \A i, j \in I : i # j => q[i] # q[j],
         \A x \in D : \E i \in I : q[i] = x,
         NEW k, \A i \in I : k[i] = h[q[i]]
  PROVE  SumFunction(Restrict(k, I)) = SumFunction(Restrict(h, D))
<1> DEFINE F == [i \in I |-> {q[i]}]
<1>1. PICK sum : SumsTo(sum, h, D)
  BY SumsOver
<1>2. \A i \in I : k[i] = SumFunction(Restrict(h, F[i]))
  <2> SUFFICES ASSUME NEW i \in I PROVE k[i] = SumFunction(Restrict(h, {q[i]}))
    OBVIOUS
  <2>1. {q[i]} \in SUBSET D /\ {q[i]} \ {q[i]} = {} /\ q[i] \in {q[i]}
    OBVIOUS
  <2>2. sum[{q[i]}] = h[q[i]] + sum[{q[i]} \ {q[i]}] /\ h[q[i]] \in Int
    BY <1>1, <2>1 DEF SumsTo
  <2>3. sum[{q[i]}] = h[q[i]]
    BY <1>1, <2>1, <2>2 DEF SumsTo
  <2>4. QED
    BY <1>1, <2>1, <2>3 DEF SumsTo
<1>3. /\ \A i \in I : F[i] \subseteq D
      /\ \A i, j \in I : i # j => F[i] \cap F[j] = {}
      /\ \A x \in D : \E i \in I : x \in F[i]
  OBVIOUS
<1> HIDE DEF F
<1>4. QED
  BY <1>2, <1>3, SumsOfGroups

\* A nonempty set of naturals has a least one.
LEMMA LeastNatural ==
  ASSUME NEW T \in SUBSET Nat, T # {}
  PROVE  \E x \in T : \A y \in T : x <= y
<1> DEFINE R == OpToRel(<, Nat)
<1>1. IsWellFoundedOn(R, Nat)
  BY NatLessThanWellFounded, Zenon
<1>2. \A x, y \in Nat : y < x => <<y, x>> \in R
  BY DEF OpToRel
<1> HIDE DEF R
<1>3. PICK x \in T : \A y \in T : ~ (<<y, x>> \in R)
  BY <1>1, WFMin
<1>4. \A y \in T : ~(y < x)
  <2> SUFFICES ASSUME NEW y \in T, y < x PROVE FALSE
    OBVIOUS
  <2>1. x \in Nat /\ y \in Nat
    OBVIOUS
  <2>2. QED
    BY <1>2, <1>3, <2>1
<1>5. QED
  BY <1>4

\* The values of a function on a finite set are finitely many.
LEMMA FiniteImage ==
  ASSUME NEW S, IsFiniteSet(S), NEW f
  PROVE  IsFiniteSet({f[x] : x \in S})
<1> DEFINE T == {f[x] : x \in S}
           g == [x \in S |-> f[x]]
<1>1. g \in [S -> T] /\ \A y \in T : \E x \in S : g[x] = y
  OBVIOUS
<1> HIDE DEF T, g
<1>2. g \in Surjection(S, T)
  BY <1>1 DEF Surjection
<1>3. IsFiniteSet(T)
  BY <1>2, FS_Surjection
<1>4. QED
  BY <1>3 DEF T

-----------------------------------------------------------------------------
(* Sorting *)

\* A finite set with a strict total order can be listed in that order.
LEMMA SortedExists ==
  ASSUME NEW S, IsFiniteSet(S), NEW R,
         \A x \in S : <<x, x>> \notin R,
         \A x, y, z \in S : <<x, y>> \in R /\ <<y, z>> \in R => <<x, z>> \in R,
         \A x, y \in S : x # y => <<x, y>> \in R \/ <<y, x>> \in R
  PROVE  \E q \in SetToSeqs(S) : \A i, j \in DOMAIN q : i < j => <<q[i], q[j]>> \in R
<1> DEFINE Topped == {s \in SUBSET S : s = {} \/ \E m \in s : \A x \in s : x = m \/ <<x, m>> \in R}
<1>1. ASSUME NEW s \in SUBSET S, \A t \in SUBSET s : t # s => t \in Topped
      PROVE  s \in Topped
  <2>1. CASE s = {}
    BY <2>1
  <2>2. CASE s # {}
    <3>1. PICK x \in s : TRUE
      BY <2>2
    <3> DEFINE r == s \ {x}
    <3>2. r = {} \/ \E m \in r : \A y \in r : y = m \/ <<y, m>> \in R
      <4>1. r \in SUBSET s /\ r # s
        BY <3>1
      <4> HIDE DEF r, Topped
      <4>2. r \in Topped
        BY <1>1, <4>1
      <4>3. QED
        BY <4>2 DEF Topped
    <3>3. CASE r = {}
      BY <3>1, <3>3
    <3>4. CASE r # {}
      <4>1. PICK m \in r : \A y \in r : y = m \/ <<y, m>> \in R
        BY <3>2, <3>4
      <4>2. CASE <<x, m>> \in R
        BY <4>1, <4>2
      <4>3. CASE <<m, x>> \in R
        <5>1. ASSUME NEW y \in s, y # x PROVE <<y, x>> \in R
          BY <4>1, <4>3, <5>1
        <5>2. QED
          BY <3>1, <5>1
      <4>4. x # m
        BY <4>1
      <4>5. QED
        BY <3>1, <4>1, <4>2, <4>3, <4>4
    <3>5. QED
      BY <3>3, <3>4
  <2>3. QED
    BY <2>1, <2>2
<1> HIDE DEF Topped
<1>2. \A s \in SUBSET S : s \in Topped
  BY <1>1, SubsetInduction
<1> DEFINE Lists(q, s) ==
             /\ q \in [1 .. Cardinality(s) -> s]
             /\ \A i, j \in 1 .. Cardinality(s) : i < j => <<q[i], q[j]>> \in R
           Good == {s \in SUBSET S : \E q : Lists(q, s)}
<1>3. ASSUME NEW s \in SUBSET S, \A t \in SUBSET s : t # s => t \in Good
      PROVE  s \in Good
  <2>0. IsFiniteSet(s)
    BY FS_Subset
  <2>1. CASE s = {}
    <3>1. Cardinality(s) = 0
      BY <2>1, FS_EmptySet
    <3>2. Lists([i \in 1 .. 0 |-> i], s)
      BY <3>1
    <3>3. QED
      BY <3>2
  <2>2. CASE s # {}
    <3>1. PICK m \in s : \A x \in s : x = m \/ <<x, m>> \in R
      BY <1>2, <2>2 DEF Topped
    <3> DEFINE r == s \ {m}
               n == Cardinality(s)
    <3>2. n \in Nat /\ n >= 1 /\ Cardinality(r) = n - 1
      BY <2>0, <2>2, <3>1, FS_RemoveElement, FS_EmptySet, FS_CardinalityType
    <3>3. r \in Good
      BY <1>3, <3>1
    <3>4. PICK q : Lists(q, r)
      BY <3>3
    <3> HIDE DEF n
    <3>5. q \in [1 .. n - 1 -> r] /\ \A i, j \in 1 .. n - 1 : i < j => <<q[i], q[j]>> \in R
      BY <3>2, <3>4
    <3> DEFINE p == [i \in 1 .. n |-> IF i = n THEN m ELSE q[i]]
    <3>6. \A i \in 1 .. n : i = n \/ i \in 1 .. n - 1
      BY <3>2
    <3>7. p \in [1 .. n -> s]
      BY <3>1, <3>5, <3>6
    <3>8. ASSUME NEW i \in 1 .. n, NEW j \in 1 .. n, i < j PROVE <<p[i], p[j]>> \in R
      <4>1. i \in 1 .. n - 1 /\ i # n
        BY <3>2, <3>8
      <4>2. p[i] = q[i] /\ q[i] \in r
        BY <3>5, <4>1
      <4>3. CASE j = n
        BY <3>1, <4>2, <4>3
      <4>4. CASE j # n
        <5>1. j \in 1 .. n - 1
          BY <3>6, <4>4
        <5>2. p[j] = q[j]
          BY <4>4
        <5>3. QED
          BY <3>5, <3>8, <4>1, <4>2, <5>1, <5>2
      <4>5. QED
        BY <4>3, <4>4
    <3> HIDE DEF p
    <3>9. Lists(p, s)
      BY <3>7, <3>8 DEF n
    <3>10. QED
      BY <3>9
  <2>3. QED
    BY <2>1, <2>2
<1>4. S \in Good
  <2> HIDE DEF Good
  <2>1. QED
    BY <1>3, SubsetInduction
<1>5. PICK q : Lists(q, S)
  BY <1>4
<1> DEFINE n == Cardinality(S)
<1>6. n \in Nat
  BY FS_CardinalityType
<1>7. q \in [1 .. n -> S] /\ \A i, j \in 1 .. n : i < j => <<q[i], q[j]>> \in R
  BY <1>5
<1> HIDE DEF n
<1>8. \A i, j \in 1 .. n : i # j => q[i] # q[j]
  <2> SUFFICES ASSUME NEW i \in 1 .. n, NEW j \in 1 .. n, i # j PROVE q[i] # q[j]
    OBVIOUS
  <2>1. i < j \/ j < i
    BY <1>6
  <2>2. QED
    BY <1>7, <2>1
<1>9. q \in SetToSeqs(S)
  BY <1>7, <1>8 DEF SetToSeqs, n
<1>10. DOMAIN q = 1 .. n
  BY <1>7
<1>11. QED
  BY <1>7, <1>9, <1>10

\* A listing of a finite set names each of its elements once.
LEMMA ListingIs ==
  ASSUME NEW S, IsFiniteSet(S), NEW q \in SetToSeqs(S)
  PROVE  /\ IsFiniteSet(DOMAIN q) /\ DOMAIN q = 1 .. Cardinality(S) /\ Cardinality(S) \in Nat
         /\ \A i \in DOMAIN q : q[i] \in S
         /\ \A i, j \in DOMAIN q : i # j => q[i] # q[j]
         /\ \A x \in S : \E i \in DOMAIN q : q[i] = x
<1> DEFINE n == Cardinality(S)
<1>1. n \in Nat
  BY FS_CardinalityType
<1>2. q \in [1 .. n -> S] /\ \A i, j \in 1 .. n : i # j => q[i] # q[j]
  BY DEF SetToSeqs
<1>3. IsFiniteSet(1 .. n) /\ Cardinality(1 .. n) = n
  BY <1>1, FS_Interval
<1>4. q \in Injection(1 .. n, S)
  BY <1>2 DEF Injection, IsInjective
<1>5. q \in Surjection(1 .. n, S)
  BY <1>3, <1>4, FS_Injection
<1>6. \A x \in S : \E i \in 1 .. n : q[i] = x
  BY <1>5 DEF Surjection
<1>7. DOMAIN q = 1 .. n
  BY <1>2
<1>8. QED
  BY <1>1, <1>2, <1>3, <1>6, <1>7

-----------------------------------------------------------------------------
(* The invariant *)

\* Every segment has the one agreement that resolution finds for it.
Applied ==
  /\ applied \in [Segments -> agreements]
  /\ \A i \in Segments :
       Prepared(i) /\ ResolveRate(ProjectOf(i), work[i].date) = {applied[i]}

\* The lines are those of a draftable request.
AreLines == Applied /\ Draftable /\ lines = [l \in LinesUsed |-> LineOf(l)]

\* The breakdowns share the lines out by rate.
AreTaxed ==
  /\ AreLines
  /\ IsFiniteSet(vat)
  /\ \A b \in vat : b.lines \subseteq DOMAIN lines /\ b = Breakdown(b.rate, b.lines)
  /\ \A b, c \in vat : b # c => b.rate # c.rate /\ b.lines \cap c.lines = {}
  /\ \A l \in DOMAIN lines : \E b \in vat : l \in b.lines
  /\ \/ \E b \in vat : vat = {b} /\ b.rate \in Nat \cup {None}
     \/ \A b \in vat : b.rate \in Nat

\* Each stage rests on what the earlier ones computed; nothing is computed twice.
AmountsInv ==
  /\ agreements \in Schedules /\ work \in SegmentLists /\ defaultVat \in DefaultVats
  /\ stage \in {"requested", "priced", "drafted", "taxed", "issued", "refused"}
  /\ applied = <<>> \/ Applied
  /\ lines = <<>> \/ AreLines
  /\ vat = {} \/ AreTaxed
  /\ stage = "requested" => applied = <<>>
  /\ stage \in {"requested", "priced"} => lines = <<>>
  /\ stage \in {"requested", "priced", "drafted"} => vat = {}
  /\ stage = "priced" => Applied
  /\ stage = "drafted" => AreLines
  /\ stage \in {"taxed", "issued"} => AreTaxed
  /\ stage = "issued" =>
       /\ rows.issue_date \in IssueDates /\ rows.payment_terms \in Terms
       /\ rows.due_date \in DueDates(rows.issue_date, rows.payment_terms)
       /\ rows = RowsOf(rows.issue_date, rows.payment_terms, rows.due_date)

-----------------------------------------------------------------------------
(* A request and its lines *)

\* A request is a finite list of segments of known sources.
LEMMA RequestIs ==
  ASSUME work \in SegmentLists
  PROVE  /\ IsFiniteSet(Segments) /\ Segments # {}
         /\ \A i \in Segments :
              /\ work[i].entry \in DOMAIN Entries /\ work[i].entry \in Nat
              /\ work[i].start \in Int /\ work[i].end \in Int /\ work[i].line \in Nat
              /\ i \in Nat
<1>1. Len(work) \in Nat \ {0} /\ DOMAIN work = 1 .. Len(work)
  BY AmountsAssumption
<1>2. IsFiniteSet(1 .. Len(work)) /\ 1 \in 1 .. Len(work)
  BY <1>1, FS_Interval
<1>3. \A i \in Segments :
        /\ work[i].entry \in DOMAIN Entries /\ work[i].entry \in Nat
        /\ work[i].start \in Int /\ work[i].end \in Int /\ work[i].line \in Nat
  BY AmountsAssumption DEF Segments
<1>4. \A i \in Segments : i \in Nat
  BY <1>1 DEF Segments
<1>5. QED
  BY <1>1, <1>2, <1>3, <1>4 DEF Segments

\* Before orders the segments of a request.
LEMMA BeforeIs ==
  ASSUME work \in SegmentLists, NEW i \in Segments, NEW j \in Segments, NEW k \in Segments
  PROVE  /\ ~Before(i, i)
         /\ Before(i, j) /\ Before(j, k) => Before(i, k)
         /\ i # j => Before(i, j) \/ Before(j, i)
         /\ Before(i, j) => work[i].entry <= work[j].entry
<1> DEFINE a == work[i]
           b == work[j]
           c == work[k]
<1>1. /\ a.entry \in Nat /\ a.start \in Int /\ a.end \in Int /\ i \in Nat
      /\ b.entry \in Nat /\ b.start \in Int /\ b.end \in Int /\ j \in Nat
      /\ c.entry \in Nat /\ c.start \in Int /\ c.end \in Int /\ k \in Nat
  BY RequestIs
<1> HIDE DEF a, b, c
<1>2. Before(i, j) <=>
        \/ a.entry < b.entry
        \/ a.entry = b.entry /\ a.start < b.start
        \/ a.entry = b.entry /\ a.start = b.start /\ a.end < b.end
        \/ a.entry = b.entry /\ a.start = b.start /\ a.end = b.end /\ i < j
  BY DEF Before, a, b
<1>3. Before(j, k) <=>
        \/ b.entry < c.entry
        \/ b.entry = c.entry /\ b.start < c.start
        \/ b.entry = c.entry /\ b.start = c.start /\ b.end < c.end
        \/ b.entry = c.entry /\ b.start = c.start /\ b.end = c.end /\ j < k
  BY DEF Before, b, c
<1>4. Before(i, k) <=>
        \/ a.entry < c.entry
        \/ a.entry = c.entry /\ a.start < c.start
        \/ a.entry = c.entry /\ a.start = c.start /\ a.end < c.end
        \/ a.entry = c.entry /\ a.start = c.start /\ a.end = c.end /\ i < k
  BY DEF Before, a, c
<1>5. Before(j, i) <=>
        \/ b.entry < a.entry
        \/ b.entry = a.entry /\ b.start < a.start
        \/ b.entry = a.entry /\ b.start = a.start /\ b.end < a.end
        \/ b.entry = a.entry /\ b.start = a.start /\ b.end = a.end /\ j < i
  BY DEF Before, a, b
<1>6. ~Before(i, i)
  BY <1>1 DEF Before, a
<1>7. Before(i, j) /\ Before(j, k) => Before(i, k)
  BY <1>1, <1>2, <1>3, <1>4
<1>8. i # j => Before(i, j) \/ Before(j, i)
  BY <1>1, <1>2, <1>5
<1>9. Before(i, j) => a.entry <= b.entry
  BY <1>1, <1>2
<1>10. QED
  BY <1>6, <1>7, <1>8, <1>9 DEF a, b

\* The segments are put in that order.
LEMMA OrderedIs ==
  ASSUME work \in SegmentLists
  PROVE  /\ Ordered \in SetToSeqs(Segments)
         /\ \A i, j \in DOMAIN Ordered : i < j => Before(Ordered[i], Ordered[j])
<1> DEFINE R == {r \in Segments \X Segments : Before(r[1], r[2])}
<1>1. \A i, j \in Segments : <<i, j>> \in R <=> Before(i, j)
  OBVIOUS
<1> HIDE DEF R
<1>2. /\ \A i \in Segments : <<i, i>> \notin R
      /\ \A i, j, k \in Segments : <<i, j>> \in R /\ <<j, k>> \in R => <<i, k>> \in R
      /\ \A i, j \in Segments : i # j => <<i, j>> \in R \/ <<j, i>> \in R
  BY <1>1, BeforeIs
<1>3. IsFiniteSet(Segments)
  BY RequestIs
<1>4. PICK q \in SetToSeqs(Segments) : \A i, j \in DOMAIN q : i < j => <<q[i], q[j]>> \in R
  BY <1>2, <1>3, SortedExists
<1>5. \A i, j \in DOMAIN q : i < j => Before(q[i], q[j])
  <2>1. \A i \in DOMAIN q : q[i] \in Segments
    BY <1>3, ListingIs
  <2>2. QED
    BY <1>1, <1>4, <2>1
<1>6. \E p \in SetToSeqs(Segments) : \A i, j \in DOMAIN p : i < j => Before(p[i], p[j])
  BY <1>5
<1>7. QED
  BY <1>6 DEF Ordered, Sorted

\* Comparing neighbours compares all: segments of one source that are not listed
\* together cannot overlap either.
LEMMA NoneOverlap ==
  ASSUME work \in SegmentLists, \A i \in Segments : Prepared(i), NoOverlap,
         NEW i \in Segments, NEW j \in Segments, i # j, work[i].entry = work[j].entry
  PROVE  work[i].end <= work[j].start \/ work[j].end <= work[i].start
<1> DEFINE q == Ordered
           n == Cardinality(Segments)
<1>1. IsFiniteSet(Segments)
  BY RequestIs
<1>2. q \in SetToSeqs(Segments) /\ \A a, b \in DOMAIN q : a < b => Before(q[a], q[b])
  BY OrderedIs
<1>3. /\ DOMAIN q = 1 .. n /\ n \in Nat
      /\ \A a \in DOMAIN q : q[a] \in Segments
      /\ \A x \in Segments : \E a \in DOMAIN q : q[a] = x
  BY <1>1, <1>2, ListingIs
<1>4. Len(q) = n
  <2>1. q \in [1 .. n -> Segments]
    BY <1>2 DEF SetToSeqs
  <2>2. QED
    BY <1>3, <2>1, LenProperties
<1>5. \A k \in 1 .. n - 1 :
        work[q[k]].entry = work[q[k + 1]].entry => work[q[k]].end <= work[q[k + 1]].start
  BY <1>4 DEF NoOverlap
<1> HIDE DEF q, n
<1>6. ASSUME NEW a \in 1 .. n
      PROVE  \A b \in 1 .. n : a < b /\ work[q[a]].entry = work[q[b]].entry
                                 => work[q[a]].end <= work[q[b]].start
  <2> DEFINE Bad == {b \in 1 .. n : /\ a < b /\ work[q[a]].entry = work[q[b]].entry
                                    /\ ~(work[q[a]].end <= work[q[b]].start)}
  <2>1. ASSUME Bad # {} PROVE FALSE
    <3>1. Bad \in SUBSET Nat
      BY <1>3
    <3> HIDE DEF Bad
    <3>2. PICK b \in Bad : \A c \in Bad : b <= c
      BY <2>1, <3>1, LeastNatural
    <3>3. /\ b \in 1 .. n /\ a < b /\ work[q[a]].entry = work[q[b]].entry
          /\ ~(work[q[a]].end <= work[q[b]].start)
      BY <3>2 DEF Bad
    <3> DEFINE c == b - 1
    <3>4. c \in 1 .. n - 1 /\ c \in 1 .. n /\ c + 1 = b /\ c < b /\ (c = a \/ a < c)
      BY <1>3, <3>3
    <3> HIDE DEF c
    <3>5. c # a
      BY <1>5, <3>3, <3>4
    <3>6. /\ q[a] \in Segments /\ q[b] \in Segments /\ q[c] \in Segments
          /\ Before(q[a], q[c]) /\ Before(q[c], q[b])
      BY <1>2, <1>3, <3>3, <3>4, <3>5
    <3>7. /\ work[q[a]].entry \in Nat /\ work[q[b]].entry \in Nat /\ work[q[c]].entry \in Nat
          /\ work[q[a]].end \in Int /\ work[q[b]].start \in Int
          /\ work[q[c]].start \in Int /\ work[q[c]].end \in Int
      BY <3>6, RequestIs
    <3>8. work[q[a]].entry <= work[q[c]].entry /\ work[q[c]].entry <= work[q[b]].entry
      BY <3>6, BeforeIs
    <3>9. work[q[a]].entry = work[q[c]].entry /\ work[q[c]].entry = work[q[b]].entry
      BY <3>3, <3>7, <3>8
    <3>10. work[q[c]].end <= work[q[b]].start
      BY <1>5, <3>4, <3>9
    <3>11. c \notin Bad
      BY <1>3, <3>2, <3>4, <3>3
    <3>12. work[q[a]].end <= work[q[c]].start
      BY <3>4, <3>5, <3>9, <3>11 DEF Bad
    <3>13. work[q[c]].start < work[q[c]].end
      BY <3>6 DEF Prepared
    <3>14. QED
      BY <3>3, <3>7, <3>10, <3>12, <3>13
  <2>2. QED
    BY <2>1
<1>7. PICK a \in 1 .. n, b \in 1 .. n : q[a] = i /\ q[b] = j
  BY <1>3
<1>8. a < b \/ b < a
  BY <1>3, <1>7
<1>9. QED
  BY <1>6, <1>7, <1>8

\* Rounding is to the nearest, halves up, and never below nothing.
LEMMA RoundedIs ==
  ASSUME NEW n \in Nat, NEW d \in Nat \ {0}
  PROVE  /\ Rounded(n, d) \in Nat
         /\ -d < 2 * (d * Rounded(n, d) - n) /\ 2 * (d * Rounded(n, d) - n) <= d
<1> DEFINE q == n \div d
           r == n % d
<1>1. q \in Nat /\ r \in Nat /\ r < d /\ n = d * q + r
  OBVIOUS
<1>2. Rounded(n, d) = q + (IF 2 * r >= d THEN 1 ELSE 0)
  BY DEF Rounded
<1> HIDE DEF q, r
<1>3. d * (q + 1) = d * q + d /\ d * (q + 0) = d * q /\ d * q \in Nat
  BY <1>1
<1>4. CASE 2 * r >= d
  <2>1. Rounded(n, d) = q + 1
    BY <1>2, <1>4
  <2>2. d * Rounded(n, d) - n = d - r
    BY <1>1, <1>3, <2>1
  <2>3. QED
    BY <1>1, <1>4, <2>1, <2>2
<1>5. CASE ~(2 * r >= d)
  <2>1. Rounded(n, d) = q + 0
    BY <1>2, <1>5
  <2>2. d * Rounded(n, d) - n = -r
    BY <1>1, <1>3, <2>1
  <2>3. QED
    BY <1>1, <1>5, <2>1, <2>2
<1>6. QED
  BY <1>4, <1>5

\* The agreement a segment was priced by is one of those that were agreed.
LEMMA AppliedIs ==
  ASSUME work \in SegmentLists, agreements \in Schedules, Applied, NEW i \in Segments
  PROVE  /\ Duration(i) \in Nat /\ applied[i] \in agreements /\ applied[i].rate \in Nat
         /\ Duration(i) * applied[i].rate \in Nat
<1>1. work[i].start \in Int /\ work[i].end \in Int /\ work[i].start < work[i].end
  BY RequestIs DEF Applied, Prepared
<1>2. Duration(i) \in Nat
  BY <1>1 DEF Duration
<1>3. applied[i] \in agreements
  BY DEF Applied
<1>4. applied[i].rate \in Nat
  BY <1>3, AmountsAssumption
<1>5. QED
  BY <1>2, <1>3, <1>4

\* The lines are finitely many, each with segments of its own, and their amounts
\* are those of its segments together.
LEMMA LinesAre ==
  ASSUME work \in SegmentLists, agreements \in Schedules, AreLines
  PROVE  /\ IsFiniteSet(DOMAIN lines) /\ DOMAIN lines = LinesUsed /\ LinesUsed \subseteq Nat
         /\ \A l \in DOMAIN lines :
              /\ IsFiniteSet(SegmentsOf(l)) /\ SegmentsOf(l) # {} /\ SegmentsOf(l) \subseteq Segments
              /\ lines[l] = LineOf(l)
              /\ lines[l] \in [duration : Nat, exact : Nat, rounded : Nat]
              /\ lines[l].duration
                   = SumFunction(Restrict([i \in Segments |-> Duration(i)], SegmentsOf(l)))
              /\ lines[l].exact = SumFunction(Restrict(
                   [i \in Segments |-> Duration(i) * applied[i].rate], SegmentsOf(l)))
              /\ lines[l].rounded = Rounded(lines[l].exact, UnitsPerHour)
<1>1. IsFiniteSet(Segments)
  BY RequestIs
<1> DEFINE line == [i \in Segments |-> work[i].line]
<1>2. LinesUsed = {line[i] : i \in Segments}
  BY DEF LinesUsed
<1>3. IsFiniteSet({line[i] : i \in Segments})
  <2> HIDE DEF line
  <2>1. QED
    BY <1>1, FiniteImage
<1>4. DOMAIN lines = LinesUsed /\ \A l \in LinesUsed : lines[l] = LineOf(l)
  BY DEF AreLines
<1>5. LinesUsed \subseteq Nat
  BY RequestIs DEF LinesUsed
<1>6. ASSUME NEW l \in LinesUsed
      PROVE  /\ IsFiniteSet(SegmentsOf(l)) /\ SegmentsOf(l) # {} /\ SegmentsOf(l) \subseteq Segments
             /\ lines[l] \in [duration : Nat, exact : Nat, rounded : Nat]
             /\ lines[l].duration
                  = SumFunction(Restrict([i \in Segments |-> Duration(i)], SegmentsOf(l)))
             /\ lines[l].exact = SumFunction(Restrict(
                  [i \in Segments |-> Duration(i) * applied[i].rate], SegmentsOf(l)))
             /\ lines[l].rounded = Rounded(lines[l].exact, UnitsPerHour)
  <2> DEFINE S == SegmentsOf(l)
             h == [i \in Segments |-> Duration(i)]
             k == [i \in Segments |-> Duration(i) * applied[i].rate]
             d == SumFunction([i \in S |-> Duration(i)])
             e == SumFunction([i \in S |-> Duration(i) * applied[i].rate])
  <2>1. S \subseteq Segments /\ S # {}
    BY <1>6 DEF SegmentsOf, LinesUsed
  <2>2. IsFiniteSet(S)
    BY <1>1, <2>1, FS_Subset
  <2>3. [i \in S |-> Duration(i)] = Restrict(h, S)
    BY <2>1 DEF Restrict
  <2>4. [i \in S |-> Duration(i) * applied[i].rate] = Restrict(k, S)
    BY <2>1 DEF Restrict
  <2>5. lines[l] = [duration |-> d, exact |-> e, rounded |-> Rounded(e, UnitsPerHour)]
    BY <1>4 DEF LineOf, ExactOf
  <2>6. \A i \in S : h[i] \in Nat /\ k[i] \in Nat
    BY <2>1, AppliedIs DEF AreLines
  <2>7. d = SumFunction(Restrict(h, S)) /\ e = SumFunction(Restrict(k, S))
    BY <2>3, <2>4
  <2> HIDE DEF d, e, h, k, S
  <2>8. d \in Nat /\ e \in Nat
    BY <2>2, <2>6, <2>7, SumIsNatural
  <2>9. Rounded(e, UnitsPerHour) \in Nat
    BY <2>8, RoundedIs, AmountsAssumption
  <2>10. QED
    BY <2>1, <2>2, <2>5, <2>7, <2>8, <2>9 DEF S, h, k
<1>7. QED
  BY <1>2, <1>3, <1>4, <1>5, <1>6

\* A request's work, summed by line, is its work summed by source: what no two
\* segments share.
LEMMA WorkIsBilledOnce ==
  ASSUME work \in SegmentLists, agreements \in Schedules, AreLines
  PROVE  SumFunction([l \in DOMAIN lines |-> lines[l].duration])
           = SumFunction([e \in DOMAIN Entries |-> Cardinality(Covered(e))])
<1> DEFINE h == [i \in Segments |-> Duration(i)]
           F == [l \in DOMAIN lines |-> SegmentsOf(l)]
           k == [l \in DOMAIN lines |-> lines[l].duration]
           G == [e \in DOMAIN Entries |-> {i \in Segments : work[i].entry = e}]
           c == [e \in DOMAIN Entries |-> Cardinality(Covered(e))]
           span == [i \in Segments |-> work[i].start .. work[i].end - 1]
<1>1. IsFiniteSet(Segments) /\ IsFiniteSet(DOMAIN lines) /\ IsFiniteSet(DOMAIN Entries)
  BY RequestIs, LinesAre, AmountsAssumption
<1>2. \A i \in Segments : h[i] \in Int
  BY AppliedIs DEF AreLines
<1>3. /\ \A l \in DOMAIN lines : F[l] \subseteq Segments
      /\ \A l, m \in DOMAIN lines : l # m => F[l] \cap F[m] = {}
      /\ \A i \in Segments : \E l \in DOMAIN lines : i \in F[l]
  <2>1. DOMAIN lines = LinesUsed
    BY LinesAre
  <2>2. QED
    BY <2>1 DEF LinesUsed, SegmentsOf
<1>4. \A l \in DOMAIN lines : k[l] = SumFunction(Restrict(h, F[l]))
  BY LinesAre
<1>5. SumFunction(Restrict(k, DOMAIN lines)) = SumFunction(Restrict(h, Segments))
  <2> HIDE DEF h, F, k
  <2>1. QED
    BY <1>1, <1>2, <1>3, <1>4, SumsOfGroups
<1>6. /\ \A e \in DOMAIN Entries : G[e] \subseteq Segments
      /\ \A e, f \in DOMAIN Entries : e # f => G[e] \cap G[f] = {}
      /\ \A i \in Segments : \E e \in DOMAIN Entries : i \in G[e]
  BY RequestIs
<1>7. ASSUME NEW e \in DOMAIN Entries PROVE c[e] = SumFunction(Restrict(h, G[e]))
  <2> DEFINE T == G[e]
  <2>1. IsFiniteSet(T) /\ T \subseteq Segments
    BY <1>1, <1>6, FS_Subset
  <2>2. \A i \in T : IsFiniteSet(span[i]) /\ h[i] = Cardinality(span[i])
    <3> SUFFICES ASSUME NEW i \in T PROVE IsFiniteSet(span[i]) /\ h[i] = Cardinality(span[i])
      OBVIOUS
    <3>1. i \in Segments
      BY <2>1
    <3>2. work[i].start \in Int /\ work[i].end \in Int
      BY <3>1, RequestIs
    <3>3. work[i].start < work[i].end
      BY <3>1 DEF AreLines, Applied, Prepared
    <3>4. /\ IsFiniteSet(work[i].start .. work[i].end - 1)
          /\ Cardinality(work[i].start .. work[i].end - 1)
               = IF work[i].start > work[i].end - 1 THEN 0
                 ELSE (work[i].end - 1) - work[i].start + 1
      BY <3>2, FS_Interval
    <3>5. Cardinality(work[i].start .. work[i].end - 1) = work[i].end - work[i].start
      BY <3>2, <3>3, <3>4
    <3>6. QED
      BY <3>1, <3>4, <3>5 DEF Duration
  <2>3. \A i, j \in T : i # j => span[i] \cap span[j] = {}
    <3> SUFFICES ASSUME NEW i \in T, NEW j \in T, i # j PROVE span[i] \cap span[j] = {}
      OBVIOUS
    <3>1. i \in Segments /\ j \in Segments /\ work[i].entry = work[j].entry
      BY <1>6, <2>1
    <3>2. work[i].end <= work[j].start \/ work[j].end <= work[i].start
      <4>1. (\A x \in Segments : Prepared(x)) /\ NoOverlap
        BY DEF AreLines, Applied, Draftable
      <4>2. QED
        BY <3>1, <4>1, NoneOverlap
    <3>3. /\ work[i].start \in Int /\ work[i].end \in Int
          /\ work[j].start \in Int /\ work[j].end \in Int
      BY <3>1, RequestIs
    <3>4. QED
      BY <3>1, <3>2, <3>3
  <2>4. Covered(e) = UNION {span[i] : i \in T}
    BY DEF Covered
  <2> HIDE DEF T, span, h
  <2>5. Cardinality(UNION {span[i] : i \in T}) = SumFunction(Restrict(h, T))
    BY <2>1, <2>2, <2>3, CountedTogether
  <2>6. QED
    BY <2>4, <2>5 DEF T
<1>8. SumFunction(Restrict(c, DOMAIN Entries)) = SumFunction(Restrict(h, Segments))
  <2> HIDE DEF h, G, c
  <2>1. QED
    BY <1>1, <1>2, <1>6, <1>7, SumsOfGroups
<1>9. Restrict(k, DOMAIN lines) = k /\ Restrict(c, DOMAIN Entries) = c
  BY DEF Restrict
<1> HIDE DEF h, k, c
<1>10. SumFunction(k) = SumFunction(c)
  BY <1>5, <1>8, <1>9
<1>11. QED
  BY <1>10 DEF k, c

\* A line's exact amount is its duration at one agreed rate, and its displayed
\* amount is within half a cent of it.
LEMMA LinesAreRounded ==
  ASSUME work \in SegmentLists, agreements \in Schedules, AreLines, NEW l \in DOMAIN lines
  PROVE  /\ -UnitsPerHour < 2 * (UnitsPerHour * lines[l].rounded - lines[l].exact)
         /\ 2 * (UnitsPerHour * lines[l].rounded - lines[l].exact) <= UnitsPerHour
         /\ \E a \in agreements : lines[l].exact = lines[l].duration * a.rate
<1> DEFINE T == SegmentsOf(l)
           h == [i \in Segments |-> Duration(i)]
           k == [i \in Segments |-> Duration(i) * applied[i].rate]
<1>1. /\ IsFiniteSet(T) /\ T # {} /\ T \subseteq Segments
      /\ lines[l].exact \in Nat /\ lines[l].rounded = Rounded(lines[l].exact, UnitsPerHour)
      /\ lines[l].duration = SumFunction(Restrict(h, T))
      /\ lines[l].exact = SumFunction(Restrict(k, T))
  BY LinesAre
<1>2. PICK i \in T : TRUE
  BY <1>1
<1> DEFINE a == applied[i]
<1>3. a \in agreements /\ a.rate \in Nat
  BY <1>1, AppliedIs DEF AreLines
<1>4. \A j \in T : applied[j] = a
  BY <1>1 DEF AreLines, Draftable, OneContext, SegmentsOf
<1>5. \A j \in T : h[j] \in Int /\ k[j] = h[j] * a.rate
  BY <1>1, <1>4, AppliedIs DEF AreLines
<1> HIDE DEF T, h, k, a
<1>6. SumFunction(Restrict(k, T)) = SumFunction(Restrict(h, T)) * a.rate
  BY <1>1, <1>3, <1>5, SumScales
<1>7. lines[l].exact = lines[l].duration * a.rate
  BY <1>1, <1>6
<1>8. /\ -UnitsPerHour < 2 * (UnitsPerHour * lines[l].rounded - lines[l].exact)
      /\ 2 * (UnitsPerHour * lines[l].rounded - lines[l].exact) <= UnitsPerHour
  BY <1>1, RoundedIs, AmountsAssumption
<1>9. QED
  BY <1>3, <1>7, <1>8

\* A tax is its rate of its base, to the cent.
ToTheCent(b) ==
  IF b.rate = None THEN b.tax = 0
  ELSE LET doubled == 2 * (VatUnits * b.tax - b.base * b.rate)
       IN -VatUnits < doubled /\ doubled <= VatUnits

\* What a breakdown says, and that it taxes to the cent.
LEMMA BreakdownIs ==
  ASSUME work \in SegmentLists, agreements \in Schedules, AreTaxed, NEW b \in vat
  PROVE  /\ b.rate \in Nat \cup {None} /\ b.lines \subseteq DOMAIN lines
         /\ b = [rate |-> b.rate, lines |-> b.lines, exact |-> b.exact, base |-> b.base,
                 tax |-> b.tax]
         /\ b.base = SumFunction(Restrict([l \in DOMAIN lines |-> lines[l].rounded], b.lines))
         /\ b.exact = SumFunction(Restrict([l \in DOMAIN lines |-> lines[l].exact], b.lines))
         /\ b.base \in Nat /\ b.exact \in Nat /\ b.tax \in Nat
         /\ ToTheCent(b)
<1> DEFINE h == [l \in DOMAIN lines |-> lines[l].rounded]
           k == [l \in DOMAIN lines |-> lines[l].exact]
<1>1. b.lines \subseteq DOMAIN lines /\ b = Breakdown(b.rate, b.lines)
  BY DEF AreTaxed
<1>2. b.rate \in Nat \cup {None}
  BY DEF AreTaxed
<1>3. [l \in b.lines |-> lines[l].rounded] = Restrict(h, b.lines)
  BY <1>1 DEF Restrict
<1>4. [l \in b.lines |-> lines[l].exact] = Restrict(k, b.lines)
  BY <1>1 DEF Restrict
<1>5. b = [rate |-> b.rate, lines |-> b.lines, exact |-> SourceOf(b.lines), base |-> HtOf(b.lines),
           tax |-> IF b.rate = None THEN 0 ELSE Rounded(HtOf(b.lines) * b.rate, VatUnits)]
  BY <1>1 DEF Breakdown
<1>6. /\ b.exact = SourceOf(b.lines) /\ b.base = HtOf(b.lines)
      /\ b.tax = IF b.rate = None THEN 0 ELSE Rounded(HtOf(b.lines) * b.rate, VatUnits)
  BY <1>5
<1>7. b.base = SumFunction(Restrict(h, b.lines)) /\ b.exact = SumFunction(Restrict(k, b.lines))
  BY <1>3, <1>4, <1>6 DEF HtOf, SourceOf
<1>8. \A l \in b.lines : h[l] \in Nat /\ k[l] \in Nat
  BY <1>1, LinesAre DEF AreTaxed
<1>9. IsFiniteSet(b.lines)
  BY <1>1, LinesAre, FS_Subset DEF AreTaxed
<1> HIDE DEF h, k
<1>10. b.base \in Nat /\ b.exact \in Nat
  BY <1>7, <1>8, <1>9, SumIsNatural
<1>11. b.rate = None => b.tax = 0
  BY <1>6
<1>12. ASSUME b.rate # None
       PROVE  /\ b.tax \in Nat
              /\ -VatUnits < 2 * (VatUnits * b.tax - b.base * b.rate)
              /\ 2 * (VatUnits * b.tax - b.base * b.rate) <= VatUnits
  <2> DEFINE n == b.base * b.rate
  <2>1. b.rate \in Nat
    BY <1>2, <1>12
  <2>2. n \in Nat
    BY <1>10, <2>1
  <2>3. b.tax = Rounded(n, VatUnits)
    BY <1>6, <1>12
  <2> HIDE DEF n
  <2>4. /\ b.tax \in Nat
        /\ -VatUnits < 2 * (VatUnits * b.tax - n) /\ 2 * (VatUnits * b.tax - n) <= VatUnits
    BY <2>2, <2>3, RoundedIs, AmountsAssumption
  <2>5. QED
    BY <2>4 DEF n
<1>13. b.tax \in Nat
  BY <1>11, <1>12
<1>14. ToTheCent(b)
  BY <1>11, <1>12 DEF ToTheCent
<1>15. QED
  BY <1>1, <1>2, <1>5, <1>6, <1>7, <1>10, <1>13, <1>14 DEF h, k

\* The bases of all rates together are the displayed total.
LEMMA BasesAddUp ==
  ASSUME work \in SegmentLists, agreements \in Schedules, AreTaxed
  PROVE  /\ SumFunction([b \in vat |-> b.base]) = HtOf(DOMAIN lines)
         /\ UNION {b.lines : b \in vat} = DOMAIN lines
<1> DEFINE h == [l \in DOMAIN lines |-> lines[l].rounded]
           F == [b \in vat |-> b.lines]
           k == [b \in vat |-> b.base]
<1>1. IsFiniteSet(DOMAIN lines) /\ IsFiniteSet(vat)
  BY LinesAre DEF AreTaxed
<1>2. \A l \in DOMAIN lines : h[l] \in Int
  <2>1. \A l \in DOMAIN lines : lines[l] \in [duration : Nat, exact : Nat, rounded : Nat]
    BY LinesAre DEF AreTaxed
  <2>2. \A l \in DOMAIN lines : lines[l].rounded \in Nat
    BY <2>1
  <2>3. QED
    BY <2>2
<1>3. /\ \A b \in vat : F[b] \subseteq DOMAIN lines
      /\ \A b, c \in vat : b # c => F[b] \cap F[c] = {}
      /\ \A l \in DOMAIN lines : \E b \in vat : l \in F[b]
  BY DEF AreTaxed
<1>4. \A b \in vat : k[b] = SumFunction(Restrict(h, F[b]))
  BY BreakdownIs
<1>5. SumFunction(Restrict(k, vat)) = SumFunction(Restrict(h, DOMAIN lines))
  <2> HIDE DEF h, F, k
  <2>1. QED
    BY <1>1, <1>2, <1>3, <1>4, SumsOfGroups
<1>6. Restrict(k, vat) = [b \in vat |-> b.base]
  BY DEF Restrict
<1>7. Restrict(h, DOMAIN lines) = [l \in DOMAIN lines |-> lines[l].rounded]
  BY DEF Restrict
<1>8. SumFunction([b \in vat |-> b.base]) = HtOf(DOMAIN lines)
  BY <1>5, <1>6, <1>7 DEF HtOf
<1>9. UNION {b.lines : b \in vat} = DOMAIN lines
  <2>1. /\ \A b \in vat : b.lines \subseteq DOMAIN lines
        /\ \A l \in DOMAIN lines : \E b \in vat : l \in b.lines
    BY DEF AreTaxed
  <2>2. QED
    BY <2>1
<1>10. QED
  BY <1>8, <1>9

\* The lines are numbered, and the breakdowns listed by rate.
LEMMA ListedIs ==
  ASSUME work \in SegmentLists, agreements \in Schedules, AreTaxed
  PROVE  Positions \in SetToSeqs(DOMAIN lines) /\ Breakdowns \in SetToSeqs(vat)
<1>1. Positions \in SetToSeqs(DOMAIN lines)
  <2> DEFINE R == {r \in Nat \X Nat : r[1] < r[2]}
             S == DOMAIN lines
  <2>0. IsFiniteSet(S)
    BY LinesAre DEF AreTaxed
  <2>1. S \subseteq Nat
    BY LinesAre DEF AreTaxed
  <2>2. \A x, y \in Nat : <<x, y>> \in R <=> x < y
    OBVIOUS
  <2> HIDE DEF R, S
  <2>3. /\ \A x \in S : <<x, x>> \notin R
        /\ \A x, y, z \in S : <<x, y>> \in R /\ <<y, z>> \in R => <<x, z>> \in R
        /\ \A x, y \in S : x # y => <<x, y>> \in R \/ <<y, x>> \in R
    BY <2>1, <2>2
  <2>4. PICK q \in SetToSeqs(S) : \A i, j \in DOMAIN q : i < j => <<q[i], q[j]>> \in R
    BY <2>0, <2>3, SortedExists
  <2>5. \A i \in DOMAIN q : q[i] \in S
    BY <2>0, ListingIs
  <2>6. \E p \in SetToSeqs(S) : \A i, j \in DOMAIN p : i < j => p[i] < p[j]
    BY <2>1, <2>2, <2>4, <2>5
  <2>7. QED
    BY <2>6 DEF Positions, Sorted, S
<1>2. Breakdowns \in SetToSeqs(vat)
  <2> DEFINE R == {r \in vat \X vat : r[1].rate < r[2].rate}
  <2>1. IsFiniteSet(vat)
    BY DEF AreTaxed
  <2>2. \A x, y \in vat : <<x, y>> \in R <=> x.rate < y.rate
    OBVIOUS
  <2> HIDE DEF R
  <2>3. \E p \in SetToSeqs(vat) : \A i, j \in DOMAIN p : i < j => p[i].rate < p[j].rate
    <3>1. CASE \E b \in vat : vat = {b}
      <4>1. Cardinality(vat) = 1
        BY <3>1, FS_Singleton
      <4>2. PICK b \in vat : vat = {b}
        BY <3>1
      <4> DEFINE p == [i \in 1 .. 1 |-> b]
      <4>3. p \in SetToSeqs(vat)
        BY <4>1, <4>2 DEF SetToSeqs
      <4>4. \A i, j \in DOMAIN p : i < j => p[i].rate < p[j].rate
        OBVIOUS
      <4>5. QED
        BY <4>3, <4>4
    <3>2. CASE \A b \in vat : b.rate \in Nat
      <4>1. \A x, y \in vat : x # y => x.rate # y.rate
        BY DEF AreTaxed
      <4>2. /\ \A x \in vat : <<x, x>> \notin R
            /\ \A x, y, z \in vat : <<x, y>> \in R /\ <<y, z>> \in R => <<x, z>> \in R
            /\ \A x, y \in vat : x # y => <<x, y>> \in R \/ <<y, x>> \in R
        BY <2>2, <3>2, <4>1
      <4>3. PICK q \in SetToSeqs(vat) : \A i, j \in DOMAIN q : i < j => <<q[i], q[j]>> \in R
        BY <2>1, <4>2, SortedExists
      <4>4. \A i \in DOMAIN q : q[i] \in vat
        BY <2>1, ListingIs
      <4>5. \A i, j \in DOMAIN q : i < j => q[i].rate < q[j].rate
        BY <2>2, <4>3, <4>4
      <4>6. QED
        BY <4>5
    <3>3. QED
      BY <3>1, <3>2 DEF AreTaxed
  <2>4. QED
    BY <2>3 DEF Breakdowns, Sorted
<1>3. QED
  BY <1>1, <1>2

\* The rows of an issued invoice pass the checks of a reload, and give every
\* breakdown its lines back.
LEMMA RowsReadBack ==
  ASSUME work \in SegmentLists, agreements \in Schedules, AreTaxed,
         NEW date, NEW terms, NEW due, rows = RowsOf(date, terms, due)
  PROVE  /\ Reconciles
         /\ {[rate |-> rows.breakdowns[k].rate, exact |-> rows.breakdowns[k].exact,
              base |-> rows.breakdowns[k].base, tax |-> rows.breakdowns[k].tax,
              lines |-> {Positions[p] : p \in RestoredLines(k)}] : k \in DOMAIN rows.breakdowns}
            = vat
<1> DEFINE P == Positions
           B == Breakdowns
           L == DOMAIN lines
<1>1. IsFiniteSet(L) /\ IsFiniteSet(vat)
  BY LinesAre DEF AreTaxed
<1>2. P \in SetToSeqs(L) /\ B \in SetToSeqs(vat)
  BY ListedIs
<1> HIDE DEF P, B, L
<1>3. /\ IsFiniteSet(DOMAIN P) /\ \A p \in DOMAIN P : P[p] \in L
      /\ \A p, r \in DOMAIN P : p # r => P[p] # P[r]
      /\ \A l \in L : \E p \in DOMAIN P : P[p] = l
  BY <1>1, <1>2, ListingIs
<1>4. /\ IsFiniteSet(DOMAIN B) /\ \A k \in DOMAIN B : B[k] \in vat
      /\ \A k, j \in DOMAIN B : k # j => B[k] # B[j]
      /\ \A b \in vat : \E k \in DOMAIN B : B[k] = b
  BY <1>1, <1>2, ListingIs
<1>5. /\ DOMAIN rows.lines = DOMAIN P
      /\ \A p \in DOMAIN P :
           rows.lines[p].amounts = lines[P[p]] /\ rows.lines[p].breakdown = BreakdownOf(P[p])
  <2>1. rows.lines = [p \in DOMAIN P |->
                        [amounts |-> lines[P[p]], breakdown |-> BreakdownOf(P[p])]]
    BY DEF RowsOf, P
  <2>2. QED
    BY <2>1
<1>6. /\ DOMAIN rows.breakdowns = DOMAIN B
      /\ \A k \in DOMAIN B :
           /\ rows.breakdowns[k].rate = B[k].rate /\ rows.breakdowns[k].exact = B[k].exact
           /\ rows.breakdowns[k].base = B[k].base /\ rows.breakdowns[k].tax = B[k].tax
  <2>1. rows.breakdowns = [k \in DOMAIN B |->
                             [rate |-> B[k].rate, exact |-> B[k].exact,
                              base |-> B[k].base, tax |-> B[k].tax]]
    BY DEF RowsOf, B
  <2>2. QED
    BY <2>1
<1>7. /\ rows.ht = HtOf(L) /\ rows.vat = SumFunction([b \in vat |-> b.tax])
      /\ rows.exact = SourceOf(L) /\ rows.ttc = rows.ht + rows.vat
  BY DEF RowsOf, L
<1>8. ASSUME NEW l \in L, NEW k \in DOMAIN B
      PROVE  BreakdownOf(l) = k <=> l \in B[k].lines
  <2>1. \E b \in vat : l \in b.lines
    BY DEF AreTaxed, L
  <2>2. \E j \in DOMAIN B : l \in B[j].lines
    BY <1>4, <2>1
  <2>3. BreakdownOf(l) \in DOMAIN B /\ l \in B[BreakdownOf(l)].lines
    BY <2>2 DEF BreakdownOf, B
  <2>4. \A b, c \in vat : b # c => b.lines \cap c.lines = {}
    BY DEF AreTaxed
  <2>5. QED
    BY <1>4, <2>3, <2>4
<1>9. ASSUME NEW k \in DOMAIN B
      PROVE  /\ RestoredLines(k) = {p \in DOMAIN P : P[p] \in B[k].lines}
             /\ {P[p] : p \in RestoredLines(k)} = B[k].lines
  <2>1. RestoredLines(k) = {p \in DOMAIN P : BreakdownOf(P[p]) = k}
    BY <1>5 DEF RestoredLines
  <2>2. RestoredLines(k) = {p \in DOMAIN P : P[p] \in B[k].lines}
    BY <1>3, <1>8, <2>1
  <2>3. B[k].lines \subseteq L
    BY <1>4 DEF AreTaxed, L
  <2>4. {P[p] : p \in RestoredLines(k)} = B[k].lines
    BY <1>3, <2>2, <2>3
  <2>5. QED
    BY <2>2, <2>4
<1>10. \A l \in L : lines[l].exact \in Nat /\ lines[l].rounded \in Nat
  <2>1. \A l \in L : lines[l] \in [duration : Nat, exact : Nat, rounded : Nat]
    BY LinesAre DEF AreTaxed, L
  <2>2. QED
    BY <2>1
<1>11. rows.ht = SumFunction([p \in DOMAIN rows.lines |-> rows.lines[p].amounts.rounded])
  <2> DEFINE h == [l \in L |-> lines[l].rounded]
             m == [p \in DOMAIN P |-> rows.lines[p].amounts.rounded]
  <2>1. (\A l \in L : h[l] \in Int) /\ \A p \in DOMAIN P : m[p] = h[P[p]]
    BY <1>3, <1>5, <1>10
  <2>2. h = Restrict(h, L) /\ m = Restrict(m, DOMAIN P)
    BY DEF Restrict
  <2>3. HtOf(L) = SumFunction(h)
    BY DEF HtOf
  <2> HIDE DEF h, m
  <2>4. SumFunction(m) = SumFunction(h)
    BY <1>1, <1>3, <2>1, <2>2, SumsRenumbered
  <2>5. QED
    BY <1>5, <1>7, <2>3, <2>4 DEF m
<1>12. rows.vat = SumFunction([k \in DOMAIN rows.breakdowns |-> rows.breakdowns[k].tax])
  <2> DEFINE h == [b \in vat |-> b.tax]
             m == [k \in DOMAIN B |-> rows.breakdowns[k].tax]
  <2>0. \A b \in vat : b.tax \in Nat
    BY BreakdownIs
  <2>1. (\A b \in vat : h[b] \in Int) /\ \A k \in DOMAIN B : m[k] = h[B[k]]
    BY <1>4, <1>6, <2>0
  <2>2. h = Restrict(h, vat) /\ m = Restrict(m, DOMAIN B)
    BY DEF Restrict
  <2> HIDE DEF h, m
  <2>3. SumFunction(m) = SumFunction(h)
    BY <1>1, <1>4, <2>1, <2>2, SumsRenumbered
  <2>4. QED
    BY <1>6, <1>7, <2>3 DEF h, m
<1>13. UNION {RestoredLines(k) : k \in DOMAIN rows.breakdowns} = DOMAIN rows.lines
  <2>1. \A p \in DOMAIN P : \E k \in DOMAIN B : P[p] \in B[k].lines
    <3>1. \A l \in L : \E b \in vat : l \in b.lines
      BY DEF AreTaxed, L
    <3>2. QED
      BY <1>3, <1>4, <3>1
  <2>2. \A p \in DOMAIN P : \E k \in DOMAIN B : p \in RestoredLines(k)
    BY <1>9, <2>1
  <2>3. \A k \in DOMAIN B : RestoredLines(k) \subseteq DOMAIN P
    BY <1>9
  <2>4. UNION {RestoredLines(k) : k \in DOMAIN B} = DOMAIN P
    <3> DEFINE F(k) == RestoredLines(k)
    <3>1. /\ \A p \in DOMAIN P : \E k \in DOMAIN B : p \in F(k)
          /\ \A k \in DOMAIN B : F(k) \subseteq DOMAIN P
      BY <2>2, <2>3
    <3> HIDE DEF F
    <3>2. UNION {F(k) : k \in DOMAIN B} = DOMAIN P
      BY <3>1
    <3>3. QED
      BY <3>2 DEF F
  <2>5. QED
    BY <1>5, <1>6, <2>4
<1>14. ASSUME NEW k \in DOMAIN B
       PROVE  rows.breakdowns[k].exact
                = SumFunction([p \in RestoredLines(k) |-> rows.lines[p].amounts.exact])
  <2> DEFINE I == RestoredLines(k)
             D == B[k].lines
             h == [l \in L |-> lines[l].exact]
             m == [p \in I |-> rows.lines[p].amounts.exact]
  <2>1. D \subseteq L /\ B[k].exact = SumFunction(Restrict(h, D))
    <3> DEFINE b == B[k]
    <3>1. b \in vat
      BY <1>4
    <3> HIDE DEF b
    <3>2. /\ b.lines \subseteq DOMAIN lines
          /\ b.exact = SumFunction(Restrict([l \in DOMAIN lines |-> lines[l].exact], b.lines))
      BY <3>1, BreakdownIs
    <3>3. QED
      BY <3>2 DEF b, L
  <2>2. I \subseteq DOMAIN P /\ I = {p \in DOMAIN P : P[p] \in D}
    BY <1>9
  <2>3. IsFiniteSet(D) /\ IsFiniteSet(I)
    BY <1>1, <1>3, <2>1, <2>2, FS_Subset
  <2>4. /\ \A p \in I : P[p] \in D
        /\ \A p, r \in I : p # r => P[p] # P[r]
        /\ \A l \in D : \E p \in I : P[p] = l
    BY <1>3, <2>1, <2>2
  <2>5. \A l \in D : h[l] \in Int
    BY <1>10, <2>1
  <2>6. \A p \in I : m[p] = h[P[p]]
    BY <1>3, <1>5, <2>2
  <2>7. m = Restrict(m, I)
    BY DEF Restrict
  <2> HIDE DEF I, D, h, m
  <2>8. SumFunction(m) = SumFunction(Restrict(h, D))
    BY <2>3, <2>4, <2>5, <2>6, <2>7, SumsRenumbered
  <2>9. QED
    BY <1>6, <2>1, <2>8 DEF I, m
<1>15. rows.exact = SumFunction([p \in DOMAIN rows.lines |-> rows.lines[p].amounts.exact])
  <2> DEFINE h == [l \in L |-> lines[l].exact]
             m == [p \in DOMAIN P |-> rows.lines[p].amounts.exact]
  <2>1. (\A l \in L : h[l] \in Int) /\ \A p \in DOMAIN P : m[p] = h[P[p]]
    BY <1>3, <1>5, <1>10
  <2>2. h = Restrict(h, L) /\ m = Restrict(m, DOMAIN P)
    BY DEF Restrict
  <2>3. SourceOf(L) = SumFunction(h)
    BY DEF SourceOf
  <2> HIDE DEF h, m
  <2>4. SumFunction(m) = SumFunction(h)
    BY <1>1, <1>3, <2>1, <2>2, SumsRenumbered
  <2>5. QED
    BY <1>5, <1>7, <2>3, <2>4 DEF m
<1>16. Reconciles
  BY <1>6, <1>7, <1>11, <1>12, <1>13, <1>14, <1>15 DEF Reconciles
<1> DEFINE row(k) == [rate |-> rows.breakdowns[k].rate, exact |-> rows.breakdowns[k].exact,
                      base |-> rows.breakdowns[k].base, tax |-> rows.breakdowns[k].tax,
                      lines |-> {Positions[p] : p \in RestoredLines(k)}]
<1>17. \A k \in DOMAIN B : row(k) = B[k]
  <2> SUFFICES ASSUME NEW k \in DOMAIN B PROVE row(k) = B[k]
    OBVIOUS
  <2> DEFINE b == B[k]
             T == {Positions[p] : p \in RestoredLines(k)}
  <2>1. b = [rate |-> b.rate, lines |-> b.lines, exact |-> b.exact, base |-> b.base, tax |-> b.tax]
    BY <1>4, BreakdownIs
  <2>2. T = b.lines
    BY <1>9 DEF P
  <2>3. /\ rows.breakdowns[k].rate = b.rate /\ rows.breakdowns[k].exact = b.exact
        /\ rows.breakdowns[k].base = b.base /\ rows.breakdowns[k].tax = b.tax
    BY <1>6
  <2> HIDE DEF b, T
  <2>4. [rate |-> rows.breakdowns[k].rate, exact |-> rows.breakdowns[k].exact,
         base |-> rows.breakdowns[k].base, tax |-> rows.breakdowns[k].tax, lines |-> T] = b
    BY <2>1, <2>2, <2>3
  <2>5. QED
    BY <2>4 DEF T, b
<1> HIDE DEF row
<1>18. {row(k) : k \in DOMAIN rows.breakdowns} = vat
  BY <1>4, <1>6, <1>17
<1>19. QED
  BY <1>16, <1>18 DEF row

-----------------------------------------------------------------------------
(* Invariance *)

\* Nothing computed earlier changes its meaning while what it was computed from
\* stays: the agreements, the request, the prices.
LEMMA PricesStay ==
  ASSUME UNCHANGED input, UNCHANGED applied
  PROVE  /\ Segments' = Segments /\ LinesUsed' = LinesUsed
         /\ Applied' = Applied /\ Draftable' = Draftable
         /\ \A l : LineOf(l)' = LineOf(l)
<1>1. agreements' = agreements /\ work' = work /\ applied' = applied
  BY DEF input
<1>2. Segments' = Segments /\ LinesUsed' = LinesUsed
  BY <1>1 DEF Segments, LinesUsed
<1>3. Applied' = Applied
  BY <1>1 DEF Applied, Prepared, ResolveRate, ValidOn, ProjectOf, Segments
<1>4. Draftable' = Draftable
  BY <1>1 DEF Draftable, OneContext, NoOverlap, Ordered, Sorted, Before, ProjectOf, Segments
<1>5. ASSUME NEW l PROVE LineOf(l)' = LineOf(l)
  BY <1>1 DEF LineOf, ExactOf, SegmentsOf, Segments, Duration
<1>6. QED
  BY <1>2, <1>3, <1>4, <1>5

\* So do the lines, and what is computed from them.
LEMMA LinesStay ==
  ASSUME UNCHANGED input, UNCHANGED applied, UNCHANGED lines
  PROVE  /\ AreLines' = AreLines
         /\ \A r, g : Breakdown(r, g)' = Breakdown(r, g)
<1>1. AreLines' = AreLines
  BY PricesStay DEF AreLines
<1>2. ASSUME NEW r, NEW g PROVE Breakdown(r, g)' = Breakdown(r, g)
  BY DEF Breakdown, HtOf, SourceOf
<1>3. QED
  BY <1>1, <1>2

\* And the breakdowns and rows.
LEMMA BreakdownsStay ==
  ASSUME UNCHANGED input, UNCHANGED applied, UNCHANGED lines, UNCHANGED vat
  PROVE  /\ AreTaxed' = AreTaxed
         /\ \A date, terms, due : RowsOf(date, terms, due)' = RowsOf(date, terms, due)
<1>1. AreTaxed' = AreTaxed
  BY LinesStay DEF AreTaxed
<1>2. ASSUME NEW date, NEW terms, NEW due PROVE RowsOf(date, terms, due)' = RowsOf(date, terms, due)
  BY DEF RowsOf, HtOf, SourceOf, Positions, Breakdowns, BreakdownOf, Sorted
<1>3. QED
  BY <1>1, <1>2

\* Initially nothing is computed.
LEMMA InitInv == Init => AmountsInv
BY DEF Init, AmountsInv

\* Pricing finds the one agreement for every segment.
LEMMA PriceInv == AmountsInv /\ Price => AmountsInv'
<1> SUFFICES ASSUME AmountsInv, Price PROVE AmountsInv'
  OBVIOUS
<1>1. /\ agreements' = agreements /\ work' = work /\ defaultVat' = defaultVat
      /\ lines' = lines /\ vat' = vat
      /\ agreements \in Schedules /\ work \in SegmentLists /\ defaultVat \in DefaultVats
      /\ stage = "requested" /\ stage' = "priced" /\ lines = <<>> /\ vat = {}
  BY DEF AmountsInv, Price, input
<1>2. Segments' = Segments
  BY <1>1 DEF Segments
<1>3. ASSUME NEW i \in Segments
      PROVE  /\ Prepared(i) /\ applied'[i] \in agreements
             /\ ResolveRate(ProjectOf(i), work[i].date) = {applied'[i]}
  <2> DEFINE r == ResolveRate(ProjectOf(i), work[i].date)
  <2>1. Prepared(i) /\ Cardinality(r) = 1
    BY DEF Price, Priceable
  <2>2. r \subseteq agreements
    BY DEF ResolveRate
  <2>3. IsFiniteSet(agreements)
    BY <1>1, AmountsAssumption
  <2>4. applied'[i] = CHOOSE a \in agreements : a \in r
    BY DEF Price
  <2> HIDE DEF r
  <2>5. IsFiniteSet(r)
    BY <2>2, <2>3, FS_Subset
  <2>6. PICK x : r = {x}
    BY <2>1, <2>5, FS_Singleton
  <2>7. applied'[i] = x
    BY <2>2, <2>4, <2>6
  <2>8. QED
    BY <2>1, <2>2, <2>6, <2>7 DEF r
<1>4. applied' \in [Segments -> agreements]
  <2>1. applied' = [i \in Segments |-> applied'[i]]
    BY DEF Price
  <2>2. QED
    BY <1>3, <2>1
<1>5. Applied'
  <2>1. \A i \in Segments' :
          Prepared(i)' /\ ResolveRate(ProjectOf(i), work[i].date)' = {applied'[i]}
    BY <1>1, <1>2, <1>3 DEF Prepared, ResolveRate, ValidOn, ProjectOf
  <2>2. QED
    BY <1>1, <1>2, <1>4, <2>1 DEF Applied
<1>6. QED
  BY <1>1, <1>5 DEF AmountsInv

\* Drafting makes the lines of a draftable request.
LEMMA DraftInv == AmountsInv /\ Draft => AmountsInv'
<1> SUFFICES ASSUME AmountsInv, Draft PROVE AmountsInv'
  OBVIOUS
<1>1. /\ UNCHANGED input /\ applied' = applied /\ vat' = vat
      /\ stage = "priced" /\ stage' = "drafted" /\ vat = {}
      /\ Applied /\ Draftable /\ lines' = [l \in LinesUsed |-> LineOf(l)]
  BY DEF AmountsInv, Draft
<1>2. /\ LinesUsed' = LinesUsed /\ Applied' = Applied /\ Draftable' = Draftable
      /\ \A l : LineOf(l)' = LineOf(l)
  BY <1>1, PricesStay
<1>3. AreLines'
  BY <1>1, <1>2 DEF AreLines
<1>4. agreements' \in Schedules /\ work' \in SegmentLists /\ defaultVat' \in DefaultVats
  BY <1>1 DEF AmountsInv, input
<1>5. QED
  BY <1>1, <1>2, <1>3, <1>4 DEF AmountsInv

\* What taxing leaves alone.
Taxing ==
  /\ stage = "drafted" /\ stage' = "taxed"
  /\ UNCHANGED <<input, applied, lines, rows>>

\* Breakdowns that share the lines out are what taxing has to make.
LEMMA TaxingInv ==
  ASSUME AmountsInv, Taxing, IsFiniteSet(vat'),
         \A b \in vat' : b.lines \subseteq DOMAIN lines /\ b = Breakdown(b.rate, b.lines),
         \A b, c \in vat' : b # c => b.rate # c.rate /\ b.lines \cap c.lines = {},
         \A l \in DOMAIN lines : \E b \in vat' : l \in b.lines,
         \/ \E b \in vat' : vat' = {b} /\ b.rate \in Nat \cup {None}
         \/ \A b \in vat' : b.rate \in Nat
  PROVE  AmountsInv'
<1>1. /\ UNCHANGED input /\ applied' = applied /\ lines' = lines
      /\ stage' = "taxed" /\ AreLines
  BY DEF AmountsInv, Taxing
<1>2. AreLines' /\ \A r, g : Breakdown(r, g)' = Breakdown(r, g)
  BY <1>1, LinesStay
<1>3. AreTaxed'
  BY <1>1, <1>2 DEF AreTaxed
<1>4. Applied'
  BY <1>2 DEF AreLines
<1>5. agreements' \in Schedules /\ work' \in SegmentLists /\ defaultVat' \in DefaultVats
  BY <1>1 DEF AmountsInv, input
<1>6. QED
  BY <1>1, <1>2, <1>3, <1>4, <1>5 DEF AmountsInv

\* One default rate, or none, taxes all lines.
LEMMA TaxByDefaultInv == AmountsInv /\ TaxByDefault => AmountsInv'
<1> SUFFICES ASSUME AmountsInv, TaxByDefault PROVE AmountsInv'
  OBVIOUS
<1> DEFINE b == Breakdown(defaultVat, DOMAIN lines)
<1>1. Taxing /\ vat' = {b}
  BY DEF TaxByDefault, Taxing
<1>2. b.rate = defaultVat /\ b.lines = DOMAIN lines
  BY DEF Breakdown
<1>3. defaultVat \in Nat \cup {None}
  BY AmountsAssumption DEF AmountsInv
<1>4. b = Breakdown(b.rate, b.lines)
  BY <1>2
<1> HIDE DEF b
<1>5. IsFiniteSet(vat')
  BY <1>1, FS_Singleton
<1>6. QED
  BY <1>1, <1>2, <1>3, <1>4, <1>5, TaxingInv

\* One breakdown for each rate among the lines taxes every line once.
LEMMA TaxByLineInv ==
  ASSUME NEW rates \in VatAssignments
  PROVE  AmountsInv /\ TaxByLine(rates) => AmountsInv'
<1> SUFFICES ASSUME AmountsInv, TaxByLine(rates) PROVE AmountsInv'
  OBVIOUS
<1> DEFINE group(r) == {l \in DOMAIN lines : rates[l] = r}
           f == [l \in DOMAIN lines |-> Breakdown(rates[l], group(rates[l]))]
<1>1. Taxing /\ DOMAIN rates = DOMAIN lines
  BY DEF TaxByLine, Taxing
<1>2. vat' = {f[l] : l \in DOMAIN lines}
  <2>1. vat' = {Breakdown(r, group(r)) : r \in {rates[l] : l \in DOMAIN rates}}
    BY DEF TaxByLine, Range
  <2>2. QED
    BY <1>1, <2>1
<1>3. AreLines /\ work \in SegmentLists /\ agreements \in Schedules
  BY <1>1 DEF AmountsInv, Taxing
<1>4. IsFiniteSet(DOMAIN lines)
  BY <1>3, LinesAre
<1>5. \A l \in DOMAIN lines :
        /\ f[l].rate = rates[l] /\ f[l].lines = group(rates[l])
        /\ f[l] = Breakdown(f[l].rate, f[l].lines)
  BY DEF Breakdown
<1>6. \A l \in DOMAIN lines : rates[l] \in Nat
  BY <1>1, AmountsAssumption
<1>7. IsFiniteSet(vat')
  <2> HIDE DEF f
  <2>1. QED
    BY <1>2, <1>4, FiniteImage
<1>8. \A l, m \in DOMAIN lines : rates[l] = rates[m] => f[l] = f[m]
  OBVIOUS
<1> HIDE DEF f
<1>9. \A b \in vat' : b.lines \subseteq DOMAIN lines /\ b = Breakdown(b.rate, b.lines) /\ b.rate \in Nat
  BY <1>2, <1>5, <1>6
<1>10. \A b, c \in vat' : b # c => b.rate # c.rate /\ b.lines \cap c.lines = {}
  <2> SUFFICES ASSUME NEW l \in DOMAIN lines, NEW m \in DOMAIN lines, f[l] # f[m]
               PROVE  f[l].rate # f[m].rate /\ f[l].lines \cap f[m].lines = {}
    BY <1>2
  <2>1. rates[l] # rates[m]
    BY <1>8
  <2>2. QED
    BY <1>5, <2>1
<1>11. \A l \in DOMAIN lines : \E b \in vat' : l \in b.lines
  <2> SUFFICES ASSUME NEW l \in DOMAIN lines PROVE f[l] \in vat' /\ l \in f[l].lines
    OBVIOUS
  <2>1. QED
    BY <1>2, <1>5
<1>12. QED
  BY <1>1, <1>7, <1>9, <1>10, <1>11, TaxingInv

\* A due date is the one the terms give.
LEMMA IssueInv ==
  ASSUME NEW date \in IssueDates, NEW terms \in Terms
  PROVE  AmountsInv /\ Issue(date, terms) => AmountsInv'
<1> SUFFICES ASSUME AmountsInv, Issue(date, terms) PROVE AmountsInv'
  OBVIOUS
<1>1. /\ UNCHANGED input /\ applied' = applied /\ lines' = lines /\ vat' = vat
      /\ stage = "taxed" /\ stage' = "issued" /\ AreTaxed
  BY DEF AmountsInv, Issue
<1>2. PICK due \in DueDates(date, terms) : rows' = RowsOf(date, terms, due)
  BY DEF Issue
<1>3. rows'.issue_date = date /\ rows'.payment_terms = terms /\ rows'.due_date = due
  BY <1>2 DEF RowsOf
<1>4. AreTaxed' /\ RowsOf(date, terms, due)' = RowsOf(date, terms, due)
  BY <1>1, BreakdownsStay
<1>5. RowsOf(rows.issue_date, rows.payment_terms, rows.due_date)' = rows'
  <2>1. RowsOf(date, terms, due)' = rows'
    BY <1>2, <1>4
  <2>2. QED
    BY <1>3, <2>1 DEF RowsOf
<1>6. AreLines' /\ Applied'
  BY <1>4 DEF AreTaxed, AreLines
<1>7. agreements' \in Schedules /\ work' \in SegmentLists /\ defaultVat' \in DefaultVats
  BY <1>1 DEF AmountsInv, input
<1>8. QED
  BY <1>1, <1>2, <1>3, <1>4, <1>5, <1>6, <1>7 DEF AmountsInv, DueDates, DueBy

\* A refusal keeps what was computed, and stuttering keeps all.
LEMMA RefuseInv == AmountsInv /\ (Refuse \/ UNCHANGED vars) => AmountsInv'
<1> SUFFICES ASSUME AmountsInv, Refuse \/ UNCHANGED vars PROVE AmountsInv'
  OBVIOUS
<1>1. /\ UNCHANGED input /\ applied' = applied /\ lines' = lines /\ vat' = vat /\ rows' = rows
      /\ stage' = "refused" \/ stage' = stage
  BY DEF Refuse, vars
<1>2. /\ Applied' = Applied /\ AreLines' = AreLines /\ AreTaxed' = AreTaxed
      /\ \A date, terms, due : RowsOf(date, terms, due)' = RowsOf(date, terms, due)
  BY <1>1, PricesStay, LinesStay, BreakdownsStay
<1>3. agreements' \in Schedules /\ work' \in SegmentLists /\ defaultVat' \in DefaultVats
  BY <1>1 DEF AmountsInv, input
<1>4. QED
  BY <1>1, <1>2, <1>3 DEF AmountsInv, DueDates, DueBy

-----------------------------------------------------------------------------
(* The theorems *)

\* The invariant holds of every invoice, of any request, agreements, rates and dates.
THEOREM AmountsInvariance == Spec => []AmountsInv
<1>1. ASSUME AmountsInv, [Next]_vars PROVE AmountsInv'
  <2>1. ASSUME NEW date \in IssueDates, NEW terms \in Terms, Issue(date, terms)
        PROVE  AmountsInv'
    BY <1>1, <2>1, IssueInv
  <2>2. ASSUME NEW date \in IssueDates, NEW terms \in Terms, RefuseIssue(date, terms)
        PROVE  AmountsInv'
    BY <1>1, <2>2, RefuseInv DEF RefuseIssue
  <2>3. CASE Price
    BY <1>1, <2>3, PriceInv
  <2>4. CASE RefusePrice
    BY <1>1, <2>4, RefuseInv DEF RefusePrice
  <2>5. CASE Draft
    BY <1>1, <2>5, DraftInv
  <2>6. CASE RefuseDraft
    BY <1>1, <2>6, RefuseInv DEF RefuseDraft
  <2>7. CASE TaxByDefault
    BY <1>1, <2>7, TaxByDefaultInv
  <2>8. ASSUME NEW rates \in VatAssignments, TaxByLine(rates) PROVE AmountsInv'
    BY <1>1, <2>8, TaxByLineInv
  <2>9. ASSUME NEW rates \in VatAssignments, RefuseTax(rates) PROVE AmountsInv'
    BY <1>1, <2>9, RefuseInv DEF RefuseTax
  <2>10. CASE UNCHANGED vars
    BY <1>1, <2>10, RefuseInv
  <2>11. QED
    BY <1>1, <2>1, <2>2, <2>3, <2>4, <2>5, <2>6, <2>7, <2>8, <2>9, <2>10 DEF Next
<1>2. QED
  BY InitInv, <1>1, PTL DEF Spec

\* Amounts are never negative, whatever was refused on the way.
THEOREM TypeCorrect == Spec => []TypeOK
<1>1. ASSUME AmountsInv PROVE TypeOK
  <2>1. DOMAIN lines \subseteq LinesUsed
        /\ \A l \in DOMAIN lines : lines[l] \in [duration : Nat, exact : Nat, rounded : Nat]
    <3>1. CASE lines = <<>>
      BY <3>1
    <3>2. CASE AreLines
      BY <1>1, <3>2, LinesAre DEF AmountsInv
    <3>3. QED
      BY <1>1, <3>1, <3>2 DEF AmountsInv
  <2>2. \A b \in vat : b.lines \subseteq DOMAIN lines /\ b.base \in Nat /\ b.tax \in Nat
    <3>1. CASE vat = {}
      BY <3>1
    <3>2. CASE AreTaxed
      <4>1. work \in SegmentLists /\ agreements \in Schedules
        BY <1>1 DEF AmountsInv
      <4>2. \A b \in vat : b.lines \subseteq DOMAIN lines
        BY <3>2 DEF AreTaxed
      <4>3. \A b \in vat : b.base \in Nat /\ b.tax \in Nat
        BY <3>2, <4>1, BreakdownIs
      <4>4. QED
        BY <4>2, <4>3
    <3>3. QED
      BY <1>1, <3>1, <3>2 DEF AmountsInv
  <2>3. applied = <<>> \/ applied \in [Segments -> agreements]
    BY <1>1 DEF AmountsInv, Applied
  <2>4. QED
    BY <1>1, <2>1, <2>2, <2>3 DEF TypeOK, AmountsInv
<1>2. QED
  BY AmountsInvariance, <1>1, PTL

\* Each segment is priced by the one agreement that covers its date at the most
\* specific level (resolve_rate).
THEOREM RatesAreMostSpecific == Spec => []MostSpecificRate
<1>1. ASSUME AmountsInv PROVE MostSpecificRate
  <2>1. SUFFICES ASSUME Applied PROVE MostSpecificRate
    BY <1>1 DEF AmountsInv, MostSpecificRate
  <2>2. ASSUME NEW i \in Segments
        PROVE  LET a == applied[i]
                   d == work[i].date
                   competing(x) == x.from <= d /\ (x.until # None => d < x.until)
               IN /\ competing(a) /\ a.project \in {ProjectOf(i), None}
                  /\ \A x \in agreements \ {a} : competing(x) =>
                       x.project # ProjectOf(i) /\ (a.project = None => x.project # None)
    <3> DEFINE a == applied[i]
               d == work[i].date
               own == {x \in agreements : ValidOn(x, d) /\ x.project = ProjectOf(i)}
               general == {x \in agreements : ValidOn(x, d) /\ x.project = None}
    <3>1. {a} = IF own # {} THEN own ELSE general
      BY <2>1 DEF Applied, ResolveRate
    <3>2. \A x : ValidOn(x, d) <=> x.from <= d /\ (x.until # None => d < x.until)
      BY DEF ValidOn
    <3>3. CASE own # {}
      <4>1. own = {a}
        BY <3>1, <3>3
      <4>2. ValidOn(a, d) /\ a.project = ProjectOf(i)
        BY <4>1
      <4>3. \A x \in agreements \ {a} : ValidOn(x, d) => x.project # ProjectOf(i)
        BY <4>1
      <4> HIDE DEF a, d, own, general
      <4>4. \A x \in agreements \ {a} : ValidOn(x, d) =>
              x.project # ProjectOf(i) /\ (a.project = None => x.project # None)
        BY <4>2, <4>3
      <4>5. QED
        BY <3>2, <4>2, <4>4 DEF a, d
    <3>4. CASE own = {}
      <4>1. general = {a}
        BY <3>1, <3>4
      <4>2. ValidOn(a, d) /\ a.project = None
        BY <4>1
      <4>3. \A x \in agreements \ {a} : ValidOn(x, d) =>
              x.project # ProjectOf(i) /\ x.project # None
        BY <3>4, <4>1
      <4> HIDE DEF a, d, own, general
      <4>4. QED
        BY <3>2, <4>2, <4>3 DEF a, d
    <3>5. QED
      BY <3>3, <3>4
  <2>3. QED
    BY <2>2 DEF MostSpecificRate
<1>2. QED
  BY AmountsInvariance, <1>1, PTL

\* A draft bills every tick of a source at most once: _validate_allocations needs to
\* compare neighbours only.
THEOREM NoTickIsBilledTwice == Spec => []WorkBilledOnce
<1>1. ASSUME AmountsInv PROVE WorkBilledOnce
  <2>1. Drafted => AreLines
    BY <1>1 DEF AmountsInv, Drafted, AreTaxed
  <2>2. QED
    BY <1>1, <2>1, WorkIsBilledOnce DEF AmountsInv, WorkBilledOnce
<1>2. QED
  BY AmountsInvariance, <1>1, PTL

\* What is billed is within half a cent per line of the exact price of the work.
THEOREM OnlyLinesAreRounded == Spec => []LinesRoundOnce
<1>1. ASSUME AmountsInv PROVE LinesRoundOnce
  <2>1. Drafted => AreLines
    BY <1>1 DEF AmountsInv, Drafted, AreTaxed
  <2>2. work \in SegmentLists /\ agreements \in Schedules
    BY <1>1 DEF AmountsInv
  <2>3. QED
    BY <2>1, <2>2, LinesAreRounded DEF LinesRoundOnce
<1>2. QED
  BY AmountsInvariance, <1>1, PTL

\* Every line is taxed once, at one rate, and the taxed bases are the displayed
\* total.
THEOREM VatIsReconciled == Spec => []VatReconciles
<1>1. ASSUME AmountsInv PROVE VatReconciles
  <2>1. SUFFICES ASSUME AreTaxed PROVE VatReconciles
    BY <1>1 DEF AmountsInv, VatReconciles
  <2>2. work \in SegmentLists /\ agreements \in Schedules
    BY <1>1 DEF AmountsInv
  <2>3. /\ UNION {b.lines : b \in vat} = DOMAIN lines
        /\ SumFunction([b \in vat |-> b.base]) = HtOf(DOMAIN lines)
    BY <2>1, <2>2, BasesAddUp
  <2>4. \A b, c \in vat : b # c => b.lines \cap c.lines = {} /\ b.rate # c.rate
    BY <2>1 DEF AreTaxed
  <2>5. \A b \in vat : ToTheCent(b)
    BY <2>1, <2>2, BreakdownIs
  <2>6. QED
    BY <2>3, <2>4, <2>5 DEF VatReconciles, ToTheCent
<1>2. QED
  BY AmountsInvariance, <1>1, PTL

\* Whatever is issued can be read back from its rows.
THEOREM RowsReadBackAsIssued == Spec => []IssuedReadsBack
<1>1. ASSUME AmountsInv PROVE IssuedReadsBack
  <2>1. SUFFICES ASSUME AreTaxed, rows = RowsOf(rows.issue_date, rows.payment_terms, rows.due_date)
                 PROVE  IssuedReadsBack
    BY <1>1 DEF AmountsInv, IssuedReadsBack
  <2>2. work \in SegmentLists /\ agreements \in Schedules
    BY <1>1 DEF AmountsInv
  <2>3. /\ Reconciles
        /\ {[rate |-> rows.breakdowns[k].rate, exact |-> rows.breakdowns[k].exact,
             base |-> rows.breakdowns[k].base, tax |-> rows.breakdowns[k].tax,
             lines |-> {Positions[p] : p \in RestoredLines(k)}] : k \in DOMAIN rows.breakdowns}
           = vat
    BY <2>1, <2>2, RowsReadBack
  <2>4. QED
    BY <2>3 DEF IssuedReadsBack
<1>2. QED
  BY AmountsInvariance, <1>1, PTL

\* Issued invoices are due when their payment terms say, in every month of every
\* year (derive_payment_due_date).
THEOREM DueDatesFollowTerms == Spec => []DueDateFollowsTerms
<1>1. ASSUME AmountsInv PROVE DueDateFollowsTerms
  <2>1. SUFFICES ASSUME rows.issue_date \in IssueDates, rows.payment_terms \in Terms,
                        rows.due_date \in DueDates(rows.issue_date, rows.payment_terms)
                 PROVE  AsAgreed(rows.issue_date, rows.payment_terms, rows.due_date)
    BY <1>1 DEF AmountsInv, DueDateFollowsTerms
  <2>2. rows.due_date = DueBy(rows.issue_date, rows.payment_terms)
    BY <2>1 DEF DueDates
  <2>3. QED
    BY <2>1, <2>2, DueIsAsAgreed
<1>2. QED
  BY AmountsInvariance, <1>1, PTL
=============================================================================
