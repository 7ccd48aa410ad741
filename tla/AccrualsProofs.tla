----------------------------- MODULE AccrualsProofs -----------------------------
(***************************************************************************)
(* Theorems about Accruals for any calendar, any schedules, any rules and  *)
(* any sequence of administrators' calls, jobs and leave: what the jobs    *)
(* visit, what they post it under, and what that leaves of an account.     *)
(***************************************************************************)
EXTENDS Accruals, PolicyAudienceProofs, FunctionTheorems

-----------------------------------------------------------------------------
(* Numbers. *)

LEMMA Quotient ==
    ASSUME NEW a \in Int, NEW n \in Nat \ {0}
    PROVE  a \div n \in Int /\ (a \div n) * n <= a /\ a < (a \div n) * n + n
OBVIOUS

LEMMA QuotientIsOne ==
    ASSUME NEW a \in Int, NEW n \in Nat \ {0}, NEW k \in Int, k * n <= a, a < k * n + n
    PROVE  k = a \div n
BY Quotient

LEMMA MaxOfTwo ==
    ASSUME NEW a \in Int, NEW b \in Int
    PROVE  Max({a, b}) \in {a, b} /\ a <= Max({a, b}) /\ b <= Max({a, b})
BY DEF Max

LEMMA MinOfTwo ==
    ASSUME NEW a \in Int, NEW b \in Int
    PROVE  Min({a, b}) \in {a, b} /\ Min({a, b}) <= a /\ Min({a, b}) <= b
BY DEF Min

-----------------------------------------------------------------------------
(* Months. *)

LEMMA YearStarts == 0 \in MonthStarts
<1>1. 0 \in Dates /\ 0 % DaysPerYear = 0
    BY CalendarAssumption DEF Dates
<1> QED
    BY <1>1, MonthAssumption

(* The month of a date begins on the last start up to it and ends before   *)
(* the next one.                                                           *)
LEMMA MonthOf ==
    ASSUME NEW date \in Dates
    PROVE  /\ MonthStart(date) \in MonthStarts /\ MonthStart(date) \in Nat
           /\ MonthStart(date) <= date
           /\ \A m \in MonthStarts : m <= date => m <= MonthStart(date)
           /\ MonthEnd(date) \in Dates /\ date <= MonthEnd(date)
           /\ \A m \in MonthStarts : date < m => MonthEnd(date) < m
           /\ MonthEnd(date) + 1 \in MonthStarts \cup {LastDate + 1}
<1>1. /\ date \in Nat /\ LastDate \in Nat /\ date <= LastDate
      /\ \A m \in MonthStarts : m \in Nat /\ m <= LastDate
    BY CalendarAssumption, MonthAssumption DEF Dates
<1>2. PICK Begun : Begun = {m \in MonthStarts : m <= date}
    OBVIOUS
<1>3. \A m : m \in Begun <=> m \in MonthStarts /\ m <= date
    BY <1>2
<1>4. MonthStart(date) \in Begun /\ \A m \in Begun : MonthStart(date) >= m
  <2>1. Begun \in SUBSET Nat /\ 0 \in Begun
      BY <1>1, <1>3, YearStarts
  <2>2. PICK s \in Begun : \A m \in Begun : m <= s
      BY <2>1, <1>1, <1>3, GreatestNumber
  <2>3. MonthStart(date) = Max(Begun)
      BY <1>2 DEF MonthStart
  <2> QED
      BY <2>1, <2>2, <2>3 DEF Max
<1>5. PICK Ahead : Ahead = {m \in MonthStarts : m > date} \cup {LastDate + 1}
    OBVIOUS
<1>6. \A m : m \in Ahead <=> (m \in MonthStarts /\ m > date) \/ m = LastDate + 1
    BY <1>5
<1>7. /\ MonthEnd(date) + 1 \in Ahead /\ MonthEnd(date) \in Int
      /\ \A m \in Ahead : MonthEnd(date) + 1 <= m
  <2>1. Ahead \in SUBSET Nat /\ LastDate + 1 \in Ahead
      BY <1>1, <1>6
  <2>2. PICK e \in Ahead : \A m \in Ahead : e <= m
      BY <2>1, LeastNumber
  <2>3. Min(Ahead) \in Ahead /\ \A m \in Ahead : Min(Ahead) <= m
      BY <2>1, <2>2 DEF Min
  <2>4. MonthEnd(date) = Min(Ahead) - 1
      BY <1>5 DEF MonthEnd
  <2>5. Min(Ahead) \in Nat
      BY <2>1, <2>3
  <2>6. MonthEnd(date) + 1 = Min(Ahead) /\ MonthEnd(date) \in Int
      BY <2>4, <2>5
  <2> QED
      BY <2>3, <2>6
<1> QED
    BY <1>1, <1>3, <1>4, <1>6, <1>7 DEF Dates

(* Two dates of one month have it in common. *)
LEMMA SameMonth ==
    ASSUME NEW c \in Dates, NEW d \in Dates, MonthStart(c) <= d, d <= MonthEnd(c)
    PROVE  MonthStart(d) = MonthStart(c) /\ MonthEnd(d) = MonthEnd(c)
<1>1. /\ c \in Nat /\ d \in Nat /\ LastDate \in Nat /\ d <= LastDate
      /\ \A m \in MonthStarts : m \in Nat
    BY CalendarAssumption, MonthAssumption DEF Dates
<1>2. MonthStart(c) <= MonthStart(d) /\ MonthStart(d) <= MonthStart(c)
  <2>1. MonthStart(c) <= MonthStart(d)
      BY MonthOf
  <2>2. MonthStart(d) <= MonthStart(c)
    <3>1. MonthStart(d) <= c
      <4>1. CASE d <= c
          BY <4>1, <1>1, MonthOf
      <4>2. CASE c < d
        <5>1. ~ (c < MonthStart(d))
          <6>1. MonthStart(d) <= d /\ MonthEnd(c) \in Nat
              BY MonthOf, CalendarAssumption DEF Dates
          <6> QED
              BY <6>1, <1>1, MonthOf
        <5> QED
            BY <5>1, <1>1, MonthOf
      <4> QED
          BY <4>1, <4>2, <1>1
    <3> QED
        BY <3>1, MonthOf
  <2> QED
      BY <2>1, <2>2
<1>3. MonthEnd(c) \in Nat /\ MonthEnd(d) \in Nat
    BY MonthOf, CalendarAssumption DEF Dates
<1>4. MonthEnd(d) <= MonthEnd(c)
  <2>1. CASE MonthEnd(c) + 1 \in MonthStarts
      BY <2>1, <1>1, <1>3, MonthOf
  <2>2. CASE MonthEnd(c) + 1 = LastDate + 1
      BY <2>2, <1>1, <1>3, MonthOf DEF Dates
  <2> QED
      BY <2>1, <2>2, MonthOf
<1>5. MonthEnd(c) <= MonthEnd(d)
  <2>1. CASE MonthEnd(d) + 1 \in MonthStarts
    <3>1. c < MonthEnd(d) + 1
      <4>1. CASE c <= d
          BY <4>1, <1>1, <1>3, MonthOf
      <4>2. CASE d < c
          BY <4>2, <2>1, <1>1, <1>2, <1>3, MonthOf
      <4> QED
          BY <4>1, <4>2, <1>1
    <3> QED
        BY <3>1, <2>1, <1>1, <1>3, MonthOf
  <2>2. CASE MonthEnd(d) + 1 = LastDate + 1
      BY <2>2, <1>1, <1>3, MonthOf, CalendarAssumption DEF Dates
  <2> QED
      BY <2>1, <2>2, MonthOf
<1> QED
    BY <1>1, <1>2, <1>3, <1>4, <1>5, MonthOf

(* The first half of a month does not reach into the next one. *)
LEMMA ShortHalf ==
    ASSUME NEW c \in Dates, NEW d \in Dates, d <= MonthStart(c) + HalfMonth - 1
    PROVE  d <= MonthEnd(c)
<1>1. /\ MonthStart(c) \in Nat /\ MonthStart(c) \in MonthStarts
      /\ MonthEnd(c) \in Nat /\ MonthStart(c) <= MonthEnd(c) /\ d \in Nat
    BY MonthOf, CalendarAssumption DEF Dates
<1>2. HalfMonth \in Nat \ {0}
    BY MonthAssumption
<1>3. CASE MonthEnd(c) + 1 \in MonthStarts
  <2>1. MonthEnd(c) + 1 \notin MonthStart(c) + 1 .. MonthStart(c) + HalfMonth
      BY <1>1, <1>3, MonthAssumption
  <2> QED
      BY <2>1, <1>1, <1>2
<1>4. CASE MonthEnd(c) + 1 = LastDate + 1
    BY <1>1, <1>4, CalendarAssumption DEF Dates
<1> QED
    BY <1>3, <1>4, MonthOf

-----------------------------------------------------------------------------
(* Periods. *)

InPeriod(date, p) == p.start <= date /\ date <= p.end

(* A date is in its pay period, and a date of a pay period has no other,   *)
(* on either side of the anchor.                                           *)
LEMMA PayPeriods ==
    ASSUME NEW c \in Int, NEW d \in Int, NEW stride \in Nat \ {0}
    PROVE  /\ PayPeriod(d, stride) \in [start : Int, end : Int]
           /\ InPeriod(d, PayPeriod(d, stride))
           /\ InPeriod(d, PayPeriod(c, stride)) => PayPeriod(d, stride) = PayPeriod(c, stride)
<1>1. PayAnchor \in Int
    BY MonthAssumption
<1>2. PICK j \in Int : j = (d - PayAnchor) \div stride /\ j * stride \in Int
                       /\ j * stride <= d - PayAnchor /\ d - PayAnchor < j * stride + stride
    BY <1>1, Quotient
<1>3. PICK k \in Int : k = (c - PayAnchor) \div stride /\ k * stride \in Int
    BY <1>1, Quotient
<1>4. PayPeriod(d, stride) = [start |-> PayAnchor + j * stride,
                              end |-> PayAnchor + j * stride + stride - 1]
    BY <1>2 DEF PayPeriod
<1>5. PayPeriod(c, stride) = [start |-> PayAnchor + k * stride,
                              end |-> PayAnchor + k * stride + stride - 1]
    BY <1>3 DEF PayPeriod
<1>6. ASSUME InPeriod(d, PayPeriod(c, stride)) PROVE j = k
  <2>1. k * stride <= d - PayAnchor /\ d - PayAnchor < k * stride + stride
      BY <1>1, <1>3, <1>5, <1>6 DEF InPeriod
  <2> QED
      BY <2>1, <1>1, <1>2, QuotientIsOne
<1> QED
    BY <1>1, <1>2, <1>3, <1>4, <1>5, <1>6 DEF InPeriod

LEMMA Years ==
    ASSUME NEW c \in Dates, NEW d \in Dates
    PROVE  /\ YearOf(d) * DaysPerYear \in Int /\ (YearOf(d) + 1) * DaysPerYear - 1 \in Int
           /\ YearOf(d) * DaysPerYear <= d /\ d <= (YearOf(d) + 1) * DaysPerYear - 1
           /\ YearOf(c) * DaysPerYear <= d /\ d <= (YearOf(c) + 1) * DaysPerYear - 1 =>
                  YearOf(c) = YearOf(d)
<1>1. c \in Int /\ d \in Int /\ DaysPerYear \in Nat \ {0}
    BY CalendarAssumption DEF Dates
<1>2. \A k \in Int : (k + 1) * DaysPerYear = k * DaysPerYear + DaysPerYear
                     /\ k * DaysPerYear \in Int
    BY <1>1
<1>3. YearOf(c) \in Int /\ YearOf(d) \in Int
    BY <1>1, Quotient DEF YearOf
<1>4. YearOf(d) * DaysPerYear <= d /\ d < YearOf(d) * DaysPerYear + DaysPerYear
    BY <1>1, Quotient DEF YearOf
<1>5. ASSUME YearOf(c) * DaysPerYear <= d, d < YearOf(c) * DaysPerYear + DaysPerYear
      PROVE  YearOf(c) = YearOf(d)
    BY <1>1, <1>3, <1>5, QuotientIsOne DEF YearOf
<1> QED
    BY <1>1, <1>2, <1>3, <1>4, <1>5

(* Every date is in the period its schedule gives it, and that is the only *)
(* one that any date is given and that contains it.                        *)
LEMMA PeriodsPartition ==
    ASSUME NEW c \in Dates, NEW d \in Dates, NEW schedule \in Schedules
    PROVE  /\ Containing(d, schedule) \in [start : Int, end : Int]
           /\ InPeriod(d, Containing(d, schedule))
           /\ InPeriod(d, Containing(c, schedule)) =>
                  Containing(d, schedule) = Containing(c, schedule)
<1>1. c \in Int /\ d \in Int /\ WeekLength \in Nat \ {0} /\ 2 * WeekLength \in Nat \ {0}
      /\ HalfMonth \in Nat \ {0}
    BY CalendarAssumption, MonthAssumption DEF Dates
<1>2. \A e \in Dates : /\ MonthStart(e) \in Int /\ MonthEnd(e) \in Int
                       /\ MonthStart(e) <= e /\ e <= MonthEnd(e) /\ e \in Int
    BY MonthOf, CalendarAssumption DEF Dates
<1>3. CASE schedule = "DAILY"
    BY <1>1, <1>3 DEF Containing, InPeriod
<1>4. CASE schedule = "WEEKLY"
    BY <1>1, <1>4, PayPeriods DEF Containing
<1>5. CASE schedule = "BIWEEKLY"
    BY <1>1, <1>5, PayPeriods DEF Containing
<1>6. CASE schedule = "SEMIMONTHLY"
  <2>1. \A e \in Dates :
          Containing(e, schedule) =
              IF e - MonthStart(e) + 1 <= HalfMonth
              THEN [start |-> MonthStart(e), end |-> MonthStart(e) + HalfMonth - 1]
              ELSE [start |-> MonthStart(e) + HalfMonth, end |-> MonthEnd(e)]
    <3>1. SUFFICES ASSUME NEW e \in Dates
                   PROVE  Containing(e, schedule) =
                              IF e - MonthStart(e) + 1 <= HalfMonth
                              THEN [start |-> MonthStart(e), end |-> MonthStart(e) + HalfMonth - 1]
                              ELSE [start |-> MonthStart(e) + HalfMonth, end |-> MonthEnd(e)]
        OBVIOUS
    <3>2. DayOfMonth(e) = e - MonthStart(e) + 1 /\ DayOfMonth(e) \in Int
        BY <1>2 DEF DayOfMonth
    <3>3. CASE DayOfMonth(e) <= HalfMonth
        BY <1>1, <1>6, <3>2, <3>3 DEF Containing
    <3>4. CASE DayOfMonth(e) > HalfMonth
        BY <1>1, <1>6, <3>2, <3>4 DEF Containing
    <3> QED
        BY <1>1, <3>2, <3>3, <3>4
  <2>2. ASSUME InPeriod(d, Containing(c, schedule))
        PROVE  MonthStart(d) = MonthStart(c) /\ MonthEnd(d) = MonthEnd(c)
    <3>1. MonthStart(c) <= d
        BY <1>1, <1>2, <2>1, <2>2 DEF InPeriod
    <3>2. d <= MonthEnd(c)
      <4>1. CASE c - MonthStart(c) + 1 <= HalfMonth
        <5>1. d <= MonthStart(c) + HalfMonth - 1
            BY <4>1, <1>1, <1>2, <2>1, <2>2 DEF InPeriod
        <5> QED
            BY <5>1, ShortHalf
      <4>2. CASE c - MonthStart(c) + 1 > HalfMonth
          BY <4>2, <1>1, <1>2, <2>1, <2>2 DEF InPeriod
      <4> QED
          BY <4>1, <4>2, <1>1, <1>2
    <3> QED
        BY <3>1, <3>2, SameMonth
  <2>3. InPeriod(d, Containing(d, schedule)) /\ Containing(d, schedule) \in [start : Int, end : Int]
      BY <1>1, <1>2, <2>1 DEF InPeriod
  <2>4. ASSUME InPeriod(d, Containing(c, schedule))
        PROVE  Containing(d, schedule) = Containing(c, schedule)
      BY <1>1, <1>2, <2>1, <2>2, <2>4 DEF InPeriod
  <2> QED
      BY <2>3, <2>4
<1>7. CASE schedule = "MONTHLY"
  <2>1. \A e \in Dates : Containing(e, schedule) = [start |-> MonthStart(e), end |-> MonthEnd(e)]
      BY <1>7 DEF Containing
  <2> QED
      BY <1>2, <2>1, SameMonth DEF InPeriod
<1>8. CASE schedule = "YEARLY"
  <2>1. \A e \in Dates :
          Containing(e, schedule) = [start |-> YearOf(e) * DaysPerYear,
                                     end |-> (YearOf(e) + 1) * DaysPerYear - 1]
      BY <1>8 DEF Containing
  <2> QED
      BY <2>1, Years DEF InPeriod
<1> QED
    BY <1>3, <1>4, <1>5, <1>6, <1>7, <1>8 DEF Schedules

(* Every day of an assignment is in exactly one of the periods the job     *)
(* visits for it.                                                          *)
LEMMA RowIsTiled ==
    ASSUME NEW row \in RowType, NEW schedule \in Schedules
    PROVE  LET visited == IterPeriods(row.from, Min({row.to, LastDate}), schedule)
           IN  \A date \in Days(row) : \E p \in visited :
                   {q \in visited : date \in q.start .. q.end} = {p}
<1>1. row.from \in Dates /\ row.from \in Int /\ row.to \in Int /\ LastDate \in Int
    BY DateTypes, CalendarAssumption DEF RowType, Dates
<1>2. PICK through \in Int : through = Min({row.to, LastDate}) /\ through <= LastDate
    BY <1>1, MinOfTwo
<1>3. PICK visited : visited = IterPeriods(row.from, through, schedule)
    OBVIOUS
<1>4. \A p : p \in visited <=> /\ \E d \in {row.from} \cup (row.from .. through) :
                                      p = Containing(d, schedule)
                               /\ p.start <= through
    BY <1>3 DEF IterPeriods
<1>5. SUFFICES ASSUME NEW date \in row.from .. through
               PROVE  \E p \in visited : {q \in visited : date \in q.start .. q.end} = {p}
    BY <1>2, <1>3 DEF Days
<1>6. date \in Dates /\ date \in Int
      /\ \A d \in {row.from} \cup (row.from .. through) : d \in Dates
    BY <1>1, <1>2, DateTypes DEF Dates
<1>7. Containing(date, schedule) \in visited
  <2>1. Containing(date, schedule).start <= through
    <3>1. Containing(date, schedule).start \in Int /\ Containing(date, schedule).start <= date
        BY <1>6, PeriodsPartition DEF InPeriod
    <3> QED
        BY <3>1, <1>2, <1>6
  <2> QED
      BY <2>1, <1>4
<1>8. ASSUME NEW q \in visited
      PROVE  date \in q.start .. q.end <=> q = Containing(date, schedule)
  <2>1. PICK d \in Dates : q = Containing(d, schedule)
      BY <1>4, <1>6
  <2>2. q \in [start : Int, end : Int]
      BY <2>1, PeriodsPartition
  <2>3. date \in q.start .. q.end <=> InPeriod(date, q)
      BY <2>2, <1>6 DEF InPeriod
  <2> QED
      BY <2>1, <2>3, <1>6, PeriodsPartition
<1>9. {q \in visited : date \in q.start .. q.end} = {Containing(date, schedule)}
    BY <1>7, <1>8
<1> QED
    BY <1>7, <1>9

-----------------------------------------------------------------------------
(* Seniority. *)

(* The months completed are the anniversaries passed: every later month up *)
(* to the last has one, and the month of the date has one if its day, or   *)
(* its last one, was reached.                                              *)
LEMMA TenureIs ==
    ASSUME NEW hired \in Dates, NEW date \in Dates
    PROVE  CompletedTenureMonths(hired, date) =
               Cardinality({m \in MonthStarts : m > hired /\ Anniversary(hired, m) <= date})
<1>1. /\ hired \in Nat /\ date \in Nat /\ LastDate \in Nat
      /\ \A m \in MonthStarts : m \in Dates /\ m \in Nat
    BY CalendarAssumption, MonthAssumption DEF Dates
<1>2. /\ DayOfMonth(hired) \in Nat \ {0}
      /\ DayOfMonth(date) \in Int /\ DayOfMonth(date) = date - MonthStart(date) + 1
    BY <1>1, MonthOf DEF DayOfMonth
<1>3. \A m \in MonthStarts : MonthEnd(m) \in Nat /\ m <= MonthEnd(m)
    BY <1>1, MonthOf, CalendarAssumption DEF Dates
<1>4. \A m \in MonthStarts :
        Anniversary(hired, m) \in Int /\ m <= Anniversary(hired, m)
        /\ Anniversary(hired, m) <= MonthEnd(m)
  <2>1. SUFFICES ASSUME NEW m \in MonthStarts
                 PROVE  Anniversary(hired, m) \in Int /\ m <= Anniversary(hired, m)
                        /\ Anniversary(hired, m) <= MonthEnd(m)
      OBVIOUS
  <2>2. PICK x \in Int : x = m + DayOfMonth(hired) - 1 /\ m <= x
      BY <1>1, <1>2
  <2>3. PICK y \in Int : y = MonthEnd(m) /\ m <= y
      BY <1>3
  <2>4. Anniversary(hired, m) = Min({x, y})
      BY <2>2, <2>3 DEF Anniversary
  <2>5. Min({x, y}) \in {x, y} /\ Min({x, y}) <= y
      BY MinOfTwo
  <2> QED
      BY <2>2, <2>3, <2>4, <2>5
<1>5. PICK begun : begun = {m \in MonthStarts : hired < m /\ m <= date}
    OBVIOUS
<1>6. PICK passed : passed = {m \in MonthStarts : m > hired /\ Anniversary(hired, m) <= date}
    OBVIOUS
<1>7. \A m : /\ m \in begun <=> m \in MonthStarts /\ hired < m /\ m <= date
             /\ m \in passed <=> m \in MonthStarts /\ hired < m /\ Anniversary(hired, m) <= date
    BY <1>1, <1>5, <1>6
<1>8. IsFiniteSet(begun) /\ Cardinality(begun) \in Nat
  <2>1. begun \subseteq 0 .. LastDate
      BY <1>1, <1>7 DEF Dates
  <2>2. 0 \in Int /\ LastDate \in Int
      BY <1>1
  <2>3. IsFiniteSet(0 .. LastDate)
      BY <2>2, FS_Interval
  <2>4. IsFiniteSet(begun)
      BY <2>1, <2>3, FS_Subset
  <2> QED
      BY <2>4, FS_CardinalityType
<1>9. PICK last \in Nat : last = MonthStart(date) /\ last \in MonthStarts /\ last <= date
                          /\ \A m \in MonthStarts : m <= date => m <= last
    BY MonthOf
<1>10. PICK due \in Int : due = Min({DayOfMonth(hired), MonthEnd(date) - last + 1})
  <2>1. MonthEnd(date) - last + 1 \in Int /\ DayOfMonth(hired) \in Int
      BY <1>2, MonthOf DEF Dates
  <2> QED
      BY <2>1, MinOfTwo
<1>11. CompletedTenureMonths(hired, date) =
         Max({0, IF DayOfMonth(date) < due THEN Cardinality(begun) - 1 ELSE Cardinality(begun)})
    BY <1>5, <1>9, <1>10 DEF CompletedTenureMonths
<1>12. CASE last <= hired
  <2>1. begun = {}
    <3>1. ASSUME NEW m \in begun PROVE FALSE
      <4>1. m \in Nat /\ hired < m /\ m <= last
          BY <1>1, <1>7, <1>9
      <4> QED
          BY <4>1, <1>1, <1>12
    <3> QED
        BY <3>1
  <2>2. passed = {}
    <3>1. ASSUME NEW m \in passed PROVE FALSE
      <4>1. /\ m \in Nat /\ m \in MonthStarts /\ hired < m /\ Anniversary(hired, m) <= date
            /\ Anniversary(hired, m) \in Int /\ m <= Anniversary(hired, m)
          BY <1>1, <1>4, <1>7
      <4>2. m <= date
          BY <4>1, <1>1
      <4>3. m <= last
          BY <4>1, <4>2, <1>9
      <4> QED
          BY <4>1, <4>3, <1>1, <1>12
    <3> QED
        BY <3>1
  <2>3. Cardinality(begun) = 0 /\ Cardinality(passed) = 0
      BY <2>1, <2>2, FS_EmptySet
  <2>4. Max({0, 0 - 1}) = 0 /\ Max({0, 0}) = 0
      BY MaxOfTwo
  <2> QED
      BY <1>6, <1>11, <2>3, <2>4
<1>13. CASE hired < last
  <2>1. last \in begun
      BY <1>7, <1>9, <1>13
  <2>2. MonthEnd(last) = MonthEnd(date)
    <3>1. MonthStart(date) <= last /\ last <= MonthEnd(date) /\ last \in Dates
      <4>1. date <= MonthEnd(date) /\ MonthEnd(date) \in Nat
          BY MonthOf, CalendarAssumption DEF Dates
      <4> QED
          BY <4>1, <1>1, <1>9
    <3> QED
        BY <3>1, SameMonth
  <2>3. Anniversary(hired, last) = last + due - 1
    <3>1. PICK b \in Int : b = MonthEnd(date)
        BY MonthOf, CalendarAssumption DEF Dates
    <3>2. PICK a \in Int : a = DayOfMonth(hired)
        BY <1>2
    <3>3. PICK u \in Int, w \in Int : u = last + a - 1 /\ w = b - last + 1
        OBVIOUS
    <3>4. Anniversary(hired, last) = Min({u, b}) /\ due = Min({a, w})
        BY <1>10, <2>2, <3>1, <3>2, <3>3 DEF Anniversary
    <3>5. /\ Min({u, b}) \in {u, b} /\ Min({u, b}) <= u /\ Min({u, b}) <= b
          /\ Min({a, w}) \in {a, w} /\ Min({a, w}) <= a /\ Min({a, w}) <= w
        BY MinOfTwo
    <3> QED
        BY <3>3, <3>4, <3>5
  <2>4. Anniversary(hired, last) <= date <=> ~ (DayOfMonth(date) < due)
      BY <1>1, <1>2, <1>9, <1>10, <2>3
  <2>5. \A m \in begun : m # last => m \in passed
    <3>1. SUFFICES ASSUME NEW m \in begun, m # last PROVE m \in passed
        OBVIOUS
    <3>2. m \in MonthStarts /\ m \in Dates /\ m < last /\ hired < m
      <4>1. m \in MonthStarts /\ m \in Dates /\ m \in Nat /\ hired < m /\ m <= last
          BY <1>1, <1>7, <1>9
      <4> QED
          BY <4>1, <3>1
    <3>3. MonthEnd(m) < last
        BY <3>2, <1>9, MonthOf
    <3> QED
        BY <1>1, <1>3, <1>4, <1>7, <1>9, <3>2, <3>3
  <2>6. \A m \in passed : m \in begun
      BY <1>1, <1>4, <1>7
  <2>7. CASE DayOfMonth(date) < due
    <3>1. passed = begun \ {last}
        BY <1>7, <2>1, <2>4, <2>5, <2>6, <2>7
    <3>2. Cardinality(passed) = Cardinality(begun) - 1 /\ Cardinality(passed) \in Nat
        BY <3>1, <1>8, <2>1, FS_RemoveElement, FS_CardinalityType
    <3>3. PICK n \in Nat : n = Cardinality(passed)
        BY <3>2
    <3>4. Max({0, n}) = n
        BY MaxOfTwo
    <3> QED
        BY <1>6, <1>11, <2>7, <3>2, <3>3, <3>4
  <2>8. CASE ~ (DayOfMonth(date) < due)
    <3>1. passed = begun
        BY <1>7, <1>9, <1>13, <2>4, <2>5, <2>6, <2>8
    <3>2. PICK n \in Nat : n = Cardinality(begun)
        BY <1>8
    <3>3. Max({0, n}) = n
        BY MaxOfTwo
    <3> QED
        BY <1>6, <1>11, <2>8, <3>1, <3>2, <3>3
  <2> QED
      BY <2>7, <2>8
<1> QED
    BY <1>1, <1>9, <1>12, <1>13

-----------------------------------------------------------------------------
(* The administrators' calls, seen from the jobs. *)

(* A version is known by its number. *)
VersionsKnown ==
    \A p \in Policies :
        /\ IsFiniteSet(versions[p])
        /\ \A v, w \in versions[p] : v.no = w.no => v = w

VersionsGrow == \A p \in Policies : versions[p] \subseteq versions'[p]

LEMMA NewPolicyKnown ==
    ASSUME VersionsOK, VersionsKnown, NEW p \in Policies, NEW draft, NEW date,
           NewPolicy(p, draft, date)
    PROVE  VersionsKnown' /\ VersionsGrow
<1>1. PICK added : added = {Version(1, date, draft)}
    OBVIOUS
<1>2. /\ versions[p] = {} /\ versions'[p] = added
      /\ \A q \in Policies \ {p} : versions'[q] = versions[q]
  <2>1. versions' = [versions EXCEPT ![p] = added] /\ versions[p] = {}
      BY <1>1 DEF NewPolicy, Exists
  <2> QED
      BY <2>1 DEF VersionsOK
<1>3. IsFiniteSet(added) /\ \A v, w \in added : v = w
    BY <1>1, FS_Singleton
<1> QED
    BY <1>2, <1>3 DEF VersionsKnown, VersionsGrow

LEMMA AddVersionKnown ==
    ASSUME VersionsOK, VersionsKnown, NEW p \in Policies, NEW draft, NEW from,
           AddVersion(p, draft, from)
    PROVE  VersionsKnown' /\ VersionsGrow
<1>1. PICK latest \in versions[p] :
         /\ IsLatest(latest, versions[p])
         /\ versions' = [versions EXCEPT ![p] = @ \cup {Version(latest.no + 1, from, draft)}]
    BY DEF AddVersion
<1>2. PICK added : added = Version(latest.no + 1, from, draft)
    OBVIOUS
<1>3. added.no = latest.no + 1 /\ latest.no \in Nat
    BY <1>2 DEF Version, VersionsOK
<1>4. /\ versions'[p] = versions[p] \cup {added}
      /\ \A q \in Policies \ {p} : versions'[q] = versions[q]
  <2>1. versions' = [versions EXCEPT ![p] = versions[p] \cup {added}]
      BY <1>1, <1>2
  <2> QED
      BY <2>1 DEF VersionsOK
<1>5. \A v \in versions[p] : v.no # added.no
  <2>1. SUFFICES ASSUME NEW v \in versions[p] PROVE v.no # added.no
      OBVIOUS
  <2>2. v.no \in Nat /\ v.no <= latest.no
      BY <1>1 DEF VersionsOK, IsLatest
  <2> QED
      BY <1>3, <2>2
<1>6. IsFiniteSet(versions'[p])
    BY <1>4, FS_AddElement DEF VersionsKnown
<1>7. \A v, w \in versions'[p] : v.no = w.no => v = w
    BY <1>4, <1>5 DEF VersionsKnown
<1> QED
    BY <1>4, <1>6, <1>7 DEF VersionsKnown, VersionsGrow

LEMMA VersionsStayKnown ==
    ASSUME AudienceInv, VersionsKnown, [AudienceNext]_audienceVars
    PROVE  VersionsKnown' /\ VersionsGrow
<1>1. VersionsOK
    BY DEF AudienceInv
<1>2. CASE UNCHANGED versions
    BY <1>2 DEF VersionsKnown, VersionsGrow
<1>3. ASSUME NEW date \in AudienceDates, Reconciling(date)
      PROVE  VersionsKnown' /\ VersionsGrow
    BY <1>1, <1>2, <1>3, NewPolicyKnown, AddVersionKnown
       DEF Reconciling, ReplaceMembers, RemoveGroup, SetEmployeeGroup, SetPolicyAudience,
           CreatePolicy, UpdatePolicyAndAudience
<1>4. ASSUME NEW p \in Policies, NEW draft \in Drafts, NEW from \in VersionDates,
             UpdatePolicy(p, draft, from)
      PROVE  VersionsKnown' /\ VersionsGrow
    BY <1>1, <1>4, AddVersionKnown DEF UpdatePolicy
<1> QED
    BY <1>2, <1>3, <1>4 DEF AudienceNext, CreateGroup, Assign, EndAssignment, audienceVars

-----------------------------------------------------------------------------
(* Posting in sequence. *)

(* What holds of a set once it holds of every set of one element less      *)
(* holds of all the subsets of a finite one.                               *)
LEMMA RemovalInduction ==
    ASSUME NEW F, IsFiniteSet(F), NEW Good,
           \A G \in SUBSET F : (\A x \in G : G \ {x} \in Good) => G \in Good
    PROVE  SUBSET F \subseteq Good
<1> DEFINE Bad == {G \in SUBSET F : G \notin Good}
           Sizes == {n \in Nat : \E G \in Bad : Cardinality(G) = n}
<1>1. SUFFICES ASSUME Bad # {} PROVE FALSE
    OBVIOUS
<1>2. \A G \in SUBSET F : IsFiniteSet(G) /\ Cardinality(G) \in Nat
    BY FS_Subset, FS_CardinalityType
<1>3. Sizes # {}
    BY <1>1, <1>2
<1>4. PICK n \in Sizes : \A k \in Sizes : n <= k
    BY <1>3, LeastNumber
<1>5. PICK G \in Bad : Cardinality(G) = n
    OBVIOUS
<1>6. G \in SUBSET F /\ G \notin Good
    BY <1>5
<1>7. ASSUME NEW x \in G PROVE G \ {x} \in Good
  <2>1. Cardinality(G \ {x}) = Cardinality(G) - 1 /\ Cardinality(G \ {x}) \in Nat
      BY <1>2, <1>6, FS_RemoveElement
  <2>2. Cardinality(G \ {x}) \notin Sizes
    <3>1. Cardinality(G \ {x}) = n - 1 /\ n \in Nat
        BY <1>5, <2>1
    <3> HIDE DEF Sizes, Bad
    <3> QED
        BY <1>4, <3>1
  <2>3. G \ {x} \in SUBSET F
      BY <1>6
  <2> QED
      BY <2>1, <2>2, <2>3
<1> HIDE DEF Bad, Sizes
<1> QED
    BY <1>6, <1>7

(* The due of a set that is posted last. *)
LastOf(S, before) == CHOOSE x \in S : \A y \in S \ {x} : <<y, x>> \in before

(* An order that leaves no doubt which that is. *)
Ordered(dues, before) ==
    \A S \in SUBSET dues : S # {} => \E x \in S : \A y \in S \ {x} : <<y, x>> \in before

(* What there is after some of the dues were posted, for those in sets     *)
(* of S.                                                                   *)
IsSequence(f, S, entries, before) ==
    f = [D \in S |-> IF D = {} THEN entries
                     ELSE PostAccrual(f[D \ {LastOf(D, before)}], LastOf(D, before))]

LEMMA SequenceExists ==
    ASSUME NEW entries, NEW dues, NEW before, IsFiniteSet(dues), Ordered(dues, before)
    PROVE  \E f : IsSequence(f, SUBSET dues, entries, before)
<1> DEFINE Small(n) == {D \in SUBSET dues : Cardinality(D) <= n}
           Stuck == {n \in Nat : ~ \E f : IsSequence(f, Small(n), entries, before)}
<1>1. \A D \in SUBSET dues : IsFiniteSet(D) /\ Cardinality(D) \in Nat
    BY FS_Subset, FS_CardinalityType
<1>2. Stuck = {}
  <2>1. SUFFICES ASSUME Stuck # {} PROVE FALSE
      OBVIOUS
  <2>2. PICK m \in Stuck : \A k \in Stuck : m <= k
      BY <2>1, LeastNumber
  <2>3. m \in Nat /\ ~ \E f : IsSequence(f, Small(m), entries, before)
      BY <2>2
  <2>4. CASE m = 0
    <3>1. \A D \in Small(m) : D = {}
        BY <1>1, <2>4, FS_EmptySet
    <3>2. PICK f : f = [D \in Small(m) |-> entries]
        OBVIOUS
    <3>3. IsSequence(f, Small(m), entries, before)
        BY <3>1, <3>2 DEF IsSequence
    <3> QED
        BY <2>3, <3>3
  <2>5. CASE m > 0
    <3>1. m - 1 \in Nat /\ m - 1 \notin Stuck
      <4> HIDE DEF Stuck, Small
      <4> QED
          BY <2>2, <2>3, <2>5
    <3>2. PICK f : IsSequence(f, Small(m - 1), entries, before)
        BY <3>1
    <3>3. PICK g : g = [D \in Small(m) |->
                           IF D = {} THEN entries
                           ELSE PostAccrual(f[D \ {LastOf(D, before)}], LastOf(D, before))]
        OBVIOUS
    <3>4. \A D \in Small(m - 1) : D \in Small(m) /\ g[D] = f[D]
      <4>1. \A D \in Small(m - 1) : D \in Small(m)
          BY <1>1, <2>3
      <4>2. SUFFICES ASSUME NEW D \in Small(m - 1) PROVE g[D] = f[D]
          BY <4>1
      <4> HIDE DEF Small
      <4> QED
          BY <3>2, <3>3, <4>1 DEF IsSequence
    <3>5. ASSUME NEW D \in Small(m), D # {} PROVE D \ {LastOf(D, before)} \in Small(m - 1)
      <4>1. LastOf(D, before) \in D
          BY <3>5 DEF LastOf, Ordered
      <4>2. PICK x \in D : x = LastOf(D, before)
          BY <4>1
      <4>3. Cardinality(D \ {x}) = Cardinality(D) - 1 /\ D \in SUBSET dues
            /\ Cardinality(D) <= m /\ Cardinality(D) \in Nat
          BY <1>1, FS_RemoveElement
      <4> QED
          BY <2>3, <4>2, <4>3
    <3> HIDE DEF Small
    <3>6. IsSequence(g, Small(m), entries, before)
      <4>1. \A D \in Small(m) : D # {} =>
              g[D \ {LastOf(D, before)}] = f[D \ {LastOf(D, before)}]
          BY <3>4, <3>5
      <4> QED
          BY <3>3, <4>1 DEF IsSequence
    <3> QED
        BY <2>3, <3>6
  <2> QED
      BY <2>3, <2>4, <2>5
<1>3. Cardinality(dues) \in Nat /\ Small(Cardinality(dues)) = SUBSET dues
  <2>1. \A D \in SUBSET dues : Cardinality(D) <= Cardinality(dues)
      BY FS_Subset
  <2> QED
      BY <1>1, <2>1
<1>4. PICK n \in Nat : n = Cardinality(dues) /\ Small(n) = SUBSET dues
    BY <1>3
<1>5. \E f : IsSequence(f, Small(n), entries, before)
    BY <1>2
<1> HIDE DEF Small
<1> QED
    BY <1>4, <1>5

(* PostAll posts the dues one after the other. *)
PostsInTurn(f, entries, dues, before) ==
    /\ PostAll(entries, dues, before) = f[dues]
    /\ f[{}] = entries
    /\ \A D \in SUBSET dues : D # {} =>
          /\ LastOf(D, before) \in D
          /\ \A y \in D \ {LastOf(D, before)} : <<y, LastOf(D, before)>> \in before
          /\ f[D] = PostAccrual(f[D \ {LastOf(D, before)}], LastOf(D, before))

LEMMA PostAllIs ==
    ASSUME NEW entries, NEW dues, NEW before, IsFiniteSet(dues), Ordered(dues, before)
    PROVE  \E f : PostsInTurn(f, entries, dues, before)
<1> DEFINE f == CHOOSE g : IsSequence(g, SUBSET dues, entries, before)
<1>1. IsSequence(f, SUBSET dues, entries, before)
    BY SequenceExists
<1>2. PostAll(entries, dues, before) = f[dues]
    BY DEF PostAll, MapThenFoldSet, IsSequence, LastOf
<1> HIDE DEF f
<1>3. ASSUME NEW D \in SUBSET dues, D # {}
      PROVE  LastOf(D, before) \in D
             /\ \A y \in D \ {LastOf(D, before)} : <<y, LastOf(D, before)>> \in before
    BY <1>3 DEF Ordered, LastOf
<1>4. f[{}] = entries
    BY <1>1 DEF IsSequence
<1>5. ASSUME NEW D \in SUBSET dues, D # {}
      PROVE  f[D] = PostAccrual(f[D \ {LastOf(D, before)}], LastOf(D, before))
    BY <1>1, <1>5 DEF IsSequence
<1> QED
    BY <1>2, <1>3, <1>4, <1>5 DEF PostsInTurn

-----------------------------------------------------------------------------
(* What posting dues adds to a ledger. *)

Sound(entries) == HasAmounts(entries) /\ \A x, y \in entries : x.source = y.source => x = y

Credit(due) == Entry(due, "ACCRUAL", due.amount, due.source)

Loss(due, lost) == Entry(due, "FORFEITURE", -lost, Append(due.source, "forfeiture"))

(* What posting a due may add. *)
Yields(due, y) ==
    \/ y = Credit(due)
    \/ due.cap # None /\ \E lost \in Nat \ {0} : y = Loss(due, lost)

Postable(due) ==
    /\ due.amount \in Int \ {0} /\ due.cap \in Int \cup {None}
    /\ \E kind, run, rule, unit : due.source = <<kind, run, rule, unit>>

LEMMA LossHasItsKey ==
    ASSUME NEW due, Postable(due), NEW other, Postable(other)
    PROVE  /\ Append(due.source, "forfeiture") # other.source
           /\ Append(due.source, "forfeiture") = Append(other.source, "forfeiture") =>
                  due.source = other.source
<1>1. PICK a, b, c, d : due.source = <<a, b, c, d>>
    BY DEF Postable
<1>2. PICK e, f, g, h : other.source = <<e, f, g, h>>
    BY DEF Postable
<1>0. \E S : S = {a, b, c, d, e, f, g, h, "forfeiture"}
    OBVIOUS
<1>3. PICK S : a \in S /\ b \in S /\ c \in S /\ d \in S /\ e \in S /\ f \in S /\ g \in S
               /\ h \in S /\ "forfeiture" \in S
    BY <1>0
<1>4. PICK s \in Seq(S), t \in Seq(S) :
         /\ s = <<a, b, c, d>> /\ t = <<e, f, g, h>> /\ Len(s) = 4 /\ Len(t) = 4
  <2>1. <<a, b, c, d>> \in Seq(S) /\ Len(<<a, b, c, d>>) = 4
      BY <1>3
  <2>2. <<e, f, g, h>> \in Seq(S) /\ Len(<<e, f, g, h>>) = 4
      BY <1>3
  <2> QED
      BY <2>1, <2>2
<1>5. PICK x \in S : x = "forfeiture"
    BY <1>3
<1>6. Len(Append(s, x)) = 5 /\ \A i \in 1 .. 4 : Append(s, x)[i] = s[i] /\ Append(t, x)[i] = t[i]
    BY <1>4
<1>7. Append(s, x) # t
    BY <1>4, <1>6
<1>8. ASSUME Append(s, x) = Append(t, x) PROVE s = t
  <2>1. \A i \in 1 .. 4 : s[i] = t[i]
      BY <1>6, <1>8
  <2> QED
      BY <1>4, <2>1
<1> QED
    BY <1>1, <1>2, <1>4, <1>5, <1>7, <1>8

LEMMA LostType ==
    ASSUME NEW before \in Int, NEW amount \in Int, NEW cap \in Int \cup {None}
    PROVE  Lost(before, amount, cap) \in Nat
<1>1. CASE cap = None
    BY <1>1 DEF Lost
<1>2. CASE cap # None
  <2>1. PICK x \in Int : x = before + amount - cap
      BY <1>2
  <2>2. PICK z \in Int : z = 0
      OBVIOUS
  <2>3. Max({x, z}) \in Int /\ z <= Max({x, z})
      BY MaxOfTwo
  <2> QED
      BY <1>2, <2>1, <2>2, <2>3 DEF Lost
<1> QED
    BY <1>1, <1>2

LEMMA BalanceType ==
    ASSUME NEW entries, HasAmounts(entries), NEW account, NEW date
    PROVE  /\ HasAmounts({x \in entries : x.effective <= date})
           /\ HasAmounts(EntriesOf({x \in entries : x.effective <= date}, account))
           /\ BalanceAsOf(entries, account, date) \in Int
<1>1. PICK part : part = {x \in entries : x.effective <= date}
    OBVIOUS
<1>2. PICK own : own = EntriesOf(part, account)
    OBVIOUS
<1>3. part \subseteq entries /\ own \subseteq entries
    BY <1>1, <1>2 DEF EntriesOf
<1>4. IsFiniteSet(part) /\ IsFiniteSet(own)
    BY <1>3, FS_Subset DEF HasAmounts
<1>5. HasAmounts(part) /\ HasAmounts(own)
    BY <1>3, <1>4 DEF HasAmounts
<1>6. SumAmounts(own) \in Int
    BY <1>5, SumType
<1> QED
    BY <1>1, <1>2, <1>5, <1>6 DEF BalanceAsOf, Balance

(* One due: its credit, what is lost of it, or what of the two is new. *)
LEMMA PostingIs ==
    ASSUME NEW entries, Sound(entries), NEW due, Postable(due)
    PROVE  \E lost \in Nat :
              /\ lost = Lost(BalanceAsOf(entries, due.account, due.effective),
                             due.amount, due.cap)
              /\ lost # 0 => due.cap # None
              /\ \A y : y \in PostAccrual(entries, due) <=>
                    \/ y \in entries
                    \/ y = Credit(due) /\ ~ IsPosted(entries, y.source)
                    \/ y = Loss(due, lost) /\ lost # 0 /\ ~ IsPosted(entries, y.source)
<1>1. PICK lost \in Nat : lost = Lost(BalanceAsOf(entries, due.account, due.effective),
                                      due.amount, due.cap)
    BY BalanceType, LostType DEF Sound, Postable
<1>2. PostAccrual(entries, due) =
        Post(entries, {Credit(due)} \cup {Loss(due, x) : x \in {lost} \ {0}})
    BY <1>1 DEF PostAccrual, Credit, Loss
<1>3. \A y : y \in {Loss(due, x) : x \in {lost} \ {0}} <=> y = Loss(due, lost) /\ lost # 0
    OBVIOUS
<1>4. lost # 0 => due.cap # None
    BY <1>1 DEF Lost
<1> QED
    BY <1>1, <1>2, <1>3, <1>4 DEF Post

Grown(entries, due, after) ==
    /\ entries \subseteq after /\ Sound(after) /\ IsPosted(after, due.source)
    /\ \A y \in after \ entries : ~ IsPosted(entries, y.source) /\ Yields(due, y)

LEMMA PostingKeeps ==
    ASSUME NEW entries, Sound(entries), NEW due, Postable(due)
    PROVE  Grown(entries, due, PostAccrual(entries, due))
<1>1. PICK lost \in Nat :
         /\ lost # 0 => due.cap # None
         /\ \A y : y \in PostAccrual(entries, due) <=>
               \/ y \in entries
               \/ y = Credit(due) /\ ~ IsPosted(entries, y.source)
               \/ y = Loss(due, lost) /\ lost # 0 /\ ~ IsPosted(entries, y.source)
    BY PostingIs
<1>2. PICK after : after = PostAccrual(entries, due)
    OBVIOUS
<1>3. PICK credit, loss : credit = Credit(due) /\ loss = Loss(due, lost)
    OBVIOUS
<1>4. /\ credit.source = due.source /\ credit.amount \in Int
      /\ loss.source = Append(due.source, "forfeiture") /\ loss.amount \in Int
      /\ credit.source # loss.source
  <2>1. credit.source = due.source /\ credit.amount = due.amount
      BY <1>3 DEF Credit, Entry
  <2>2. loss.source = Append(due.source, "forfeiture") /\ loss.amount = -lost
      BY <1>3 DEF Loss, Entry
  <2> QED
      BY <2>1, <2>2, LossHasItsKey DEF Postable
<1>5. entries \subseteq after /\ after \subseteq entries \cup {credit, loss}
    BY <1>1, <1>2, <1>3
<1>6. IsFiniteSet(after)
  <2>1. IsFiniteSet(entries \cup {credit})
      BY FS_AddElement DEF Sound, HasAmounts
  <2>2. IsFiniteSet((entries \cup {credit}) \cup {loss})
      BY <2>1, FS_AddElement
  <2>3. after \subseteq (entries \cup {credit}) \cup {loss}
      BY <1>5
  <2> QED
      BY <2>2, <2>3, FS_Subset
<1>7. \A x \in after : x.amount \in Int
    BY <1>4, <1>5 DEF Sound, HasAmounts
<1>8. \A x, y \in after : x.source = y.source => x = y
    BY <1>1, <1>2, <1>3, <1>4 DEF Sound, IsPosted
<1>9. IsPosted(after, due.source)
    BY <1>1, <1>2, <1>3, <1>4 DEF IsPosted
<1>10. \A y \in after \ entries :
          /\ ~ IsPosted(entries, y.source)
          /\ Yields(due, y)
    BY <1>1, <1>2 DEF Yields
<1> QED
    BY <1>2, <1>5, <1>6, <1>7, <1>8, <1>9, <1>10 DEF Grown, Sound, HasAmounts

(* All the dues of a job: nothing is taken away, no source comes twice,    *)
(* and what is new is a credit or a loss of one of them.                   *)
LEMMA PostAllKeeps ==
    ASSUME NEW entries, Sound(entries), NEW dues, IsFiniteSet(dues),
           \A due \in dues : Postable(due), NEW before, Ordered(dues, before)
    PROVE  /\ entries \subseteq PostAll(entries, dues, before)
           /\ Sound(PostAll(entries, dues, before))
           /\ \A y \in PostAll(entries, dues, before) \ entries :
                 /\ ~ IsPosted(entries, y.source)
                 /\ \E due \in dues : Yields(due, y)
           /\ \A due \in dues : IsPosted(PostAll(entries, dues, before), due.source)
<1> DEFINE New(y) == /\ ~ IsPosted(entries, y.source)
                     /\ \E due \in dues : Yields(due, y)
<1>1. PICK f : PostsInTurn(f, entries, dues, before)
    BY PostAllIs
<1> DEFINE Good == {D \in SUBSET dues : /\ entries \subseteq f[D] /\ Sound(f[D])
                                        /\ \A y \in f[D] \ entries : New(y)
                                        /\ \A due \in D : IsPosted(f[D], due.source)}
<1>2. ASSUME NEW D \in SUBSET dues, \A x \in D : D \ {x} \in Good
      PROVE  D \in Good
  <2>1. CASE D = {}
    <3>1. f[D] = entries
        BY <1>1, <2>1 DEF PostsInTurn
    <3> QED
        BY <2>1, <3>1
  <2>2. CASE D # {}
    <3>1. PICK last \in D : f[D] = PostAccrual(f[D \ {last}], last)
        BY <1>1, <2>2 DEF PostsInTurn
    <3>2. PICK E : E = f[D \ {last}] /\ entries \subseteq E /\ Sound(E)
                   /\ \A y \in E \ entries : New(y)
                   /\ \A due \in D \ {last} : IsPosted(E, due.source)
        BY <1>2
    <3>3. Postable(last) /\ last \in dues
        OBVIOUS
    <3> HIDE DEF New
    <3>4. PICK F : F = PostAccrual(E, last)
        OBVIOUS
    <3>6. Grown(E, last, F)
        BY <3>2, <3>3, <3>4, PostingKeeps
    <3>7. F = f[D]
        BY <3>1, <3>2, <3>4
    <3>5. \A y \in F \ entries : New(y)
        BY <3>2, <3>3, <3>6 DEF Grown, IsPosted, New
    <3>8. ASSUME NEW due \in D PROVE IsPosted(F, due.source)
      <4>1. CASE due = last
          BY <4>1, <3>6 DEF Grown
      <4>2. CASE due # last
          BY <4>2, <3>2, <3>6 DEF Grown, IsPosted
      <4> QED
          BY <4>1, <4>2
    <3> QED
        BY <3>2, <3>5, <3>6, <3>7, <3>8 DEF Grown
  <2> QED
      BY <2>1, <2>2
<1> HIDE DEF Good
<1>3. dues \in Good
    BY <1>2, RemovalInduction
<1> QED
    BY <1>1, <1>3 DEF Good, PostsInTurn

-----------------------------------------------------------------------------
(* What a scheduled run finds due. *)

First(row, v) == Max({EligibleFrom(row), v.from})

Worth(row, v, i, period) ==
    ScheduledAmount(v.terms.rules[i], period, EligibleFrom(row), v.terms.proration)

FallsOn(row, v, i, period) == EffectiveDate(period, v.terms.rules[i], First(row, v))

Visited(row, v, i, asOf) ==
    IterPeriods(First(row, v), Through(row, asOf), v.terms.rules[i].frequency)

DueFor(row, v, i, period) ==
    [account |-> Account(row), amount |-> Worth(row, v, i, period),
     effective |-> FallsOn(row, v, i, period), version |-> v.no, cap |-> v.terms.cap,
     source |-> <<"SCHEDULED_ACCRUAL", RowId(row), RuleId(row.policy, v, i), period.start>>]

Earned(row, v, i, period, asOf) ==
    /\ FallsOn(row, v, i, period) <= Through(row, asOf)
    /\ IsEffectiveOn(v, versions[row.policy], FallsOn(row, v, i, period))
    /\ IsSelected(i, v.terms.rules, "TIME",
                  CompletedTenureMonths(Hired[row.employee], TierDate(period, asOf)))
    /\ Earns(Worth(row, v, i, period))

LEMMA RuleDuesAre ==
    ASSUME NEW row, NEW v, NEW i, NEW asOf
    PROVE  RuleDues(row, v, i, asOf) =
               {DueFor(row, v, i, period) :
                   period \in {p \in Visited(row, v, i, asOf) : Earned(row, v, i, p, asOf)}}
BY DEF RuleDues, DueFor, Visited, Earned, Worth, FallsOn, First

LEMMA DuesAre ==
    ASSUME NEW asOf, NEW due
    PROVE  due \in ScheduledDues(asOf) <=>
               \E row \in assignments : \E v \in versions[row.policy] : \E i \in TimeRules(v) :
                   \E period \in Visited(row, v, i, asOf) :
                       /\ row.from <= asOf /\ Earned(row, v, i, period, asOf)
                       /\ due = DueFor(row, v, i, period)
<1>1. \A row : due \in RowDues(row, asOf) <=>
          \E v \in versions[row.policy] : \E i \in TimeRules(v) : due \in RuleDues(row, v, i, asOf)
    BY DEF RowDues
<1>2. \A row, v, i : due \in RuleDues(row, v, i, asOf) <=>
          \E period \in Visited(row, v, i, asOf) :
              Earned(row, v, i, period, asOf) /\ due = DueFor(row, v, i, period)
    BY RuleDuesAre
<1> QED
    BY <1>1, <1>2 DEF ScheduledDues, StartedRows

(* The state the jobs read. *)
ReadInv == AudienceInv /\ VersionsKnown

(* A rule that accrues by time. *)
LEMMA TimeRuleIs ==
    ASSUME ReadInv, NEW p \in Policies, NEW v \in versions[p], NEW i \in TimeRules(v)
    PROVE  /\ v.terms \in DraftType /\ ValidDraft(v.terms) /\ v.from \in Dates /\ v.no \in Nat
           /\ i \in DOMAIN v.terms.rules /\ v.terms.rules[i] \in RuleType
           /\ v.terms.rules[i].frequency \in Schedules
           /\ \A j \in DOMAIN v.terms.rules :
                 v.terms.rules[j].tier = v.terms.rules[i].tier => i = j
<1>1. v.terms \in DraftType /\ ValidDraft(v.terms) /\ v.from \in Dates /\ v.no \in Nat
    BY AudienceAssumption DEF ReadInv, AudienceInv, VersionsOK
<1>2. PICK rules \in Seq(RuleType) : rules = v.terms.rules
    BY <1>1 DEF DraftType
<1>3. i \in DOMAIN rules /\ rules[i].method = "TIME"
    BY <1>2 DEF TimeRules
<1>4. rules[i] \in RuleType
    BY <1>3
<1>5. v.terms.kind = "ACCRUAL"
    BY <1>1, <1>2, <1>3 DEF DraftType, Kinds, ValidDraft, ValidRules
<1>6. Cardinality(Tiers(rules)) = Len(rules) /\ ValidRule(rules[i], rules[1])
    BY <1>1, <1>2, <1>3, <1>5 DEF ValidDraft, ValidRules
<1>7. rules[i].frequency \in Schedules
    BY <1>3, <1>4, <1>6 DEF ValidRule, RuleType
<1>8. \A j \in DOMAIN rules : rules[j].tier = rules[i].tier => i = j
    BY <1>3, <1>6, TiersApart
<1> QED
    BY <1>1, <1>2, <1>3, <1>4, <1>7, <1>8

(* The dates a row and a version are looked at for. *)
LEMMA SpanOf ==
    ASSUME ReadInv, NEW row \in assignments, NEW v \in versions[row.policy],
           NEW asOf \in Dates, row.from <= asOf
    PROVE  /\ row \in RowType /\ row.policy \in Policies /\ row.employee \in Employees
           /\ EligibleFrom(row) \in Dates /\ row.from <= EligibleFrom(row)
           /\ Hired[row.employee] \in Dates /\ Hired[row.employee] <= EligibleFrom(row)
           /\ First(row, v) \in Dates /\ EligibleFrom(row) <= First(row, v)
           /\ v.from <= First(row, v)
           /\ Through(row, asOf) \in Dates /\ Through(row, asOf) <= asOf
           /\ Through(row, asOf) <= row.to
<1>1. row \in RowType /\ row.from <= row.to
    BY DEF ReadInv, AudienceInv, RowsOK, Ranged
<1>2. row.policy \in Policies /\ row.employee \in Employees /\ row.from \in Dates
      /\ row.to \in Dates \cup {Open}
    BY <1>1 DEF RowType
<1>3. Hired[row.employee] \in Dates /\ v.from \in Dates
    BY <1>2, AccrualAssumption DEF ReadInv, AudienceInv, VersionsOK
<1>4. PICK h \in Int, f \in Int, g \in Int, a \in Int, t \in Int :
         h = Hired[row.employee] /\ f = row.from /\ g = v.from /\ a = asOf /\ t = row.to
    BY <1>2, <1>3, DateTypes
<1>5. PICK e \in Int : e = EligibleFrom(row) /\ e \in {h, f} /\ h <= e /\ f <= e
    BY <1>4, MaxOfTwo DEF EligibleFrom
<1>6. PICK d \in Int : d = First(row, v) /\ d \in {e, g} /\ e <= d /\ g <= d
  <2>1. First(row, v) = Max({e, g})
      BY <1>4, <1>5 DEF First
  <2>2. Max({e, g}) \in {e, g} /\ e <= Max({e, g}) /\ g <= Max({e, g})
      BY MaxOfTwo
  <2>3. First(row, v) \in Int
      BY <2>1, <2>2
  <2> QED
      BY <2>1, <2>2, <2>3
<1>7. PICK u \in Int : u = Through(row, asOf) /\ u \in {a, t} /\ u <= a /\ u <= t
  <2>1. Through(row, asOf) = Min({a, t})
      BY <1>4 DEF Through
  <2>2. Min({a, t}) \in {a, t} /\ Min({a, t}) <= a /\ Min({a, t}) <= t
      BY MinOfTwo
  <2>3. Through(row, asOf) \in Int
      BY <2>1, <2>2
  <2> QED
      BY <2>1, <2>2, <2>3
<1>8. u \in Dates
  <2>1. f \in Dates /\ a \in Dates /\ f <= t /\ f <= a
      BY <1>1, <1>2, <1>4
  <2> QED
      BY <2>1, <1>4, <1>7, CalendarAssumption DEF Dates
<1> QED
    BY <1>1, <1>2, <1>3, <1>4, <1>5, <1>6, <1>7, <1>8

LEMMA PeriodIs ==
    ASSUME ReadInv, NEW row \in assignments, NEW v \in versions[row.policy],
           NEW i \in TimeRules(v), NEW asOf \in Dates, row.from <= asOf,
           NEW period \in Visited(row, v, i, asOf)
    PROVE  /\ period \in [start : Int, end : Int] /\ period.start <= period.end
           /\ First(row, v) <= period.end
           /\ \E date \in Dates : period = Containing(date, v.terms.rules[i].frequency)
<1>1. First(row, v) \in Dates /\ Through(row, asOf) \in Dates /\ row.policy \in Policies
    BY SpanOf
<1>2. PICK schedule \in Schedules : schedule = v.terms.rules[i].frequency
    BY <1>1, TimeRuleIs
<1>3. PICK date \in {First(row, v)} \cup (First(row, v) .. Through(row, asOf)) :
         period = Containing(date, schedule)
    BY <1>2 DEF Visited, IterPeriods
<1>4. date \in Dates /\ date \in Int /\ First(row, v) <= date /\ First(row, v) \in Int
    BY <1>1, CalendarAssumption DEF Dates
<1>5. period \in [start : Int, end : Int] /\ period.start <= date /\ date <= period.end
    BY <1>2, <1>3, <1>4, PeriodsPartition DEF InPeriod
<1>6. period.start \in Int /\ period.end \in Int
    BY <1>5
<1> QED
    BY <1>2, <1>3, <1>4, <1>5, <1>6

LEMMA MinutesType ==
    ASSUME NEW rule \in RuleType
    PROVE  ToMinutes(rule.amount, rule.unit) \in Int
<1>1. rule.amount \in Int /\ rule.unit \in {"DAY", "HOUR", "MINUTE"}
    BY DEF RuleType
<1>2. DayMinutes \in Int /\ MinutesPerHour \in Int /\ AmountScale \in Nat \ {0}
    BY CalendarAssumption, UnitAssumption
<1>3. PICK k \in Int : k = CASE rule.unit = "DAY" -> DayMinutes
                             [] rule.unit = "HOUR" -> MinutesPerHour
                             [] rule.unit = "MINUTE" -> 1
    BY <1>1, <1>2
<1>4. PICK n \in Int : n = rule.amount * k
    BY <1>1
<1>5. ToMinutes(rule.amount, rule.unit) = n \div AmountScale
    BY <1>3, <1>4 DEF ToMinutes
<1> QED
    BY <1>2, <1>5, Quotient

LEMMA WorthType ==
    ASSUME NEW rule \in RuleType, NEW period \in [start : Int, end : Int],
           period.start <= period.end, NEW from \in Int, NEW proration \in Prorations
    PROVE  ScheduledAmount(rule, period, from, proration) \in Int
<1>1. PICK full \in Int : full = ToMinutes(rule.amount, rule.unit)
    BY MinutesType
<1>2. PICK days \in Nat \ {0} : days = period.end - period.start + 1
    OBVIOUS
<1>3. PICK share \in Int : share = full * (period.end - from + 1)
    OBVIOUS
<1>4. share \div days \in Int
    BY Quotient
<1>5. CASE from <= period.start \/ proration = "FULL"
  <2>1. ScheduledAmount(rule, period, from, proration) = full
      BY <1>1, <1>5 DEF ScheduledAmount
  <2> QED
      BY <2>1
<1>6. CASE from > period.start /\ proration = "NONE"
  <2>1. ScheduledAmount(rule, period, from, proration) = 0
      BY <1>6 DEF ScheduledAmount
  <2> QED
      BY <2>1
<1>7. CASE from > period.start /\ proration = "PRORATE"
  <2>1. ScheduledAmount(rule, period, from, proration) = share \div days
      BY <1>1, <1>2, <1>3, <1>7 DEF ScheduledAmount
  <2> QED
      BY <1>4, <2>1
<1> QED
    BY <1>5, <1>6, <1>7 DEF Prorations

(* A due of the scheduled job: its amount and date are in range, on a date *)
(* the employee is eligible for, and its key is made of the row, the rule  *)
(* and the period.                                                         *)
LEMMA DueIs ==
    ASSUME ReadInv, NEW row \in assignments, NEW v \in versions[row.policy],
           NEW i \in TimeRules(v), NEW asOf \in Dates, row.from <= asOf,
           NEW period \in Visited(row, v, i, asOf), Earned(row, v, i, period, asOf)
    PROVE  /\ Postable(DueFor(row, v, i, period))
           /\ FallsOn(row, v, i, period) \in Dates
           /\ First(row, v) <= FallsOn(row, v, i, period)
           /\ FallsOn(row, v, i, period) <= Through(row, asOf)
<1>1. /\ period \in [start : Int, end : Int] /\ period.start <= period.end
      /\ period.start \in Int /\ period.end \in Int
    BY PeriodIs
<1>2. /\ v.terms.rules[i] \in RuleType /\ v.terms \in DraftType
      /\ EligibleFrom(row) \in Int /\ First(row, v) \in Dates /\ First(row, v) \in Int
      /\ Through(row, asOf) \in Dates
    BY SpanOf, TimeRuleIs, DateTypes
<1>3. Worth(row, v, i, period) \in Int
    BY <1>1, <1>2, WorthType DEF Worth, DraftType
<1>4. Postable(DueFor(row, v, i, period))
  <2>1. Worth(row, v, i, period) # 0
      BY DEF Earned, Earns
  <2>2. v.terms.cap \in Int \cup {None}
      BY <1>2 DEF DraftType
  <2>3. PICK d : d = DueFor(row, v, i, period)
      OBVIOUS
  <2>4. /\ d.amount = Worth(row, v, i, period) /\ d.cap = v.terms.cap
        /\ d.source = <<"SCHEDULED_ACCRUAL", RowId(row), RuleId(row.policy, v, i), period.start>>
      BY <2>3 DEF DueFor
  <2> QED
      BY <1>3, <2>1, <2>2, <2>3, <2>4 DEF Postable
<1>5. First(row, v) <= FallsOn(row, v, i, period) /\ FallsOn(row, v, i, period) \in Int
  <2>1. PICK x \in Int : x = IF v.terms.rules[i].accruesAt = "START_OF_PERIOD"
                             THEN period.start ELSE period.end
      BY <1>1
  <2>2. PICK f \in Int : f = First(row, v)
      BY <1>2
  <2>3. FallsOn(row, v, i, period) = Max({f, x})
      BY <2>1, <2>2 DEF FallsOn, EffectiveDate
  <2>4. Max({f, x}) \in {f, x} /\ f <= Max({f, x})
      BY MaxOfTwo
  <2> QED
      BY <2>2, <2>3, <2>4
<1>6. FallsOn(row, v, i, period) <= Through(row, asOf)
    BY DEF Earned
<1>7. FallsOn(row, v, i, period) \in Dates
    BY <1>2, <1>5, <1>6, CalendarAssumption DEF Dates
<1> QED
    BY <1>4, <1>5, <1>6, <1>7

-----------------------------------------------------------------------------
(* The dues of a run are finitely many. *)

LEMMA FiniteUnion ==
    ASSUME NEW S, IsFiniteSet(S), NEW f, DOMAIN f = S, \A x \in S : IsFiniteSet(f[x])
    PROVE  IsFiniteSet(UNION {f[x] : x \in S})
<1>1. IsFiniteSet({f[x] : x \in S})
    BY FiniteImage
<1>2. \A T \in {f[x] : x \in S} : IsFiniteSet(T)
    OBVIOUS
<1> QED
    BY <1>1, <1>2, FS_UNION

LEMMA DatesFinite == IsFiniteSet(Dates)
<1>1. 0 \in Int /\ LastDate \in Int
    BY CalendarAssumption
<1> QED
    BY <1>1, FS_Interval DEF Dates

LEMMA AssignmentsFinite ==
    ASSUME ReadInv
    PROVE  IsFiniteSet(assignments)
<1> DEFINE Keys == (Employees \X Policies) \X (Dates \X (Dates \cup {Open}))
           made == [k \in Keys |-> [employee |-> k[1][1], policy |-> k[1][2],
                                    from |-> k[2][1], to |-> k[2][2]]]
<1>1. IsFiniteSet(Keys)
  <2>1. IsFiniteSet(Employees \X Policies)
      BY AccrualAssumption, AudienceAssumption, FS_Product
  <2>2. IsFiniteSet(Dates \cup {Open})
      BY DatesFinite, FS_AddElement
  <2>3. IsFiniteSet(Dates \X (Dates \cup {Open}))
      BY <2>2, DatesFinite, FS_Product
  <2> QED
      BY <2>1, <2>3, FS_Product
<1>2. assignments \subseteq {made[k] : k \in Keys}
  <2>1. SUFFICES ASSUME NEW row \in assignments PROVE \E k \in Keys : row = made[k]
      OBVIOUS
  <2>2. row \in RowType
      BY DEF ReadInv, AudienceInv, RowsOK, Ranged
  <2>3. <<<<row.employee, row.policy>>, <<row.from, row.to>>>> \in Keys
      BY <2>2 DEF RowType
  <2>4. row = made[<<<<row.employee, row.policy>>, <<row.from, row.to>>>>]
      BY <2>2, <2>3 DEF RowType
  <2> QED
      BY <2>3, <2>4
<1>3. IsFiniteSet({made[k] : k \in Keys})
  <2>1. DOMAIN made = Keys
      OBVIOUS
  <2> HIDE DEF Keys, made
  <2> QED
      BY <1>1, <2>1, FiniteImage
<1> HIDE DEF Keys, made
<1> QED
    BY <1>2, <1>3, FS_Subset

LEMMA VisitedFinite ==
    ASSUME NEW first \in Dates, NEW through \in Dates, NEW schedule
    PROVE  IsFiniteSet(IterPeriods(first, through, schedule))
<1>1. PICK days : days = {first} \cup (first .. through)
    OBVIOUS
<1>2. days \subseteq Dates
    BY <1>1, CalendarAssumption DEF Dates
<1>3. IsFiniteSet(days)
    BY <1>2, DatesFinite, FS_Subset
<1>4. PICK given : given = [d \in days |-> Containing(d, schedule)]
    OBVIOUS
<1>5. IsFiniteSet({given[d] : d \in days})
    BY <1>3, <1>4, FiniteImage
<1>6. IterPeriods(first, through, schedule) \subseteq {given[d] : d \in days}
    BY <1>1, <1>4 DEF IterPeriods
<1> QED
    BY <1>5, <1>6, FS_Subset

LEMMA RulesFinite ==
    ASSUME ReadInv, NEW p \in Policies, NEW v \in versions[p]
    PROVE  IsFiniteSet(DOMAIN v.terms.rules)
<1>1. v.terms \in DraftType
    BY AudienceAssumption DEF ReadInv, AudienceInv, VersionsOK
<1>2. PICK rules \in Seq(RuleType) : rules = v.terms.rules
    BY <1>1 DEF DraftType
<1>3. DOMAIN rules = 1 .. Len(rules) /\ Len(rules) \in Int /\ 1 \in Int
    OBVIOUS
<1> QED
    BY <1>2, <1>3, FS_Interval

LEMMA DuesFinite ==
    ASSUME ReadInv, NEW asOf \in Dates
    PROVE  IsFiniteSet(ScheduledDues(asOf))
<1>1. ASSUME NEW row \in StartedRows(asOf), NEW v \in versions[row.policy], NEW i \in TimeRules(v)
      PROVE  IsFiniteSet(RuleDues(row, v, i, asOf))
  <2>1. row \in assignments /\ row.from <= asOf
      BY DEF StartedRows
  <2>2. First(row, v) \in Dates /\ Through(row, asOf) \in Dates
      BY <2>1, SpanOf
  <2>3. PICK visited : visited = Visited(row, v, i, asOf) /\ IsFiniteSet(visited)
      BY <2>2, VisitedFinite DEF Visited
  <2>4. PICK due : due = [period \in visited |-> DueFor(row, v, i, period)]
      OBVIOUS
  <2>5. IsFiniteSet({due[p] : p \in visited})
      BY <2>3, <2>4, FiniteImage
  <2>6. RuleDues(row, v, i, asOf) \subseteq {due[p] : p \in visited}
      BY <2>3, <2>4, RuleDuesAre
  <2> QED
      BY <2>5, <2>6, FS_Subset
<1>2. ASSUME NEW row \in StartedRows(asOf), NEW v \in versions[row.policy]
      PROVE  IsFiniteSet(UNION {RuleDues(row, v, i, asOf) : i \in TimeRules(v)})
  <2>1. PICK R : R = TimeRules(v)
      OBVIOUS
  <2>2. IsFiniteSet(R)
    <3>1. row.policy \in Policies
        BY DEF StartedRows, ReadInv, AudienceInv, RowsOK, Ranged, RowType
    <3>2. R \subseteq DOMAIN v.terms.rules
        BY <2>1 DEF TimeRules
    <3> QED
        BY <3>1, <3>2, RulesFinite, FS_Subset
  <2>3. PICK f : f = [i \in R |-> RuleDues(row, v, i, asOf)]
      OBVIOUS
  <2>4. \A i \in R : IsFiniteSet(f[i])
      BY <1>1, <2>1, <2>3
  <2>5. IsFiniteSet(UNION {f[i] : i \in R})
      BY <2>2, <2>3, <2>4, FiniteUnion
  <2>6. {f[i] : i \in R} = {RuleDues(row, v, i, asOf) : i \in TimeRules(v)}
      BY <2>1, <2>3
  <2> QED
      BY <2>5, <2>6
<1>3. ASSUME NEW row \in StartedRows(asOf)
      PROVE  IsFiniteSet(RowDues(row, asOf))
  <2>1. PICK V : V = versions[row.policy]
      OBVIOUS
  <2>2. IsFiniteSet(V)
      BY <2>1 DEF StartedRows, ReadInv, AudienceInv, RowsOK, Ranged, RowType, VersionsKnown
  <2>3. PICK f : f = [v \in V |-> UNION {RuleDues(row, v, i, asOf) : i \in TimeRules(v)}]
      OBVIOUS
  <2>4. \A v \in V : IsFiniteSet(f[v])
      BY <1>2, <2>1, <2>3
  <2>5. IsFiniteSet(UNION {f[v] : v \in V})
      BY <2>2, <2>3, <2>4, FiniteUnion
  <2>6. {f[v] : v \in V} =
           {UNION {RuleDues(row, v, i, asOf) : i \in TimeRules(v)} : v \in versions[row.policy]}
      BY <2>1, <2>3
  <2> QED
      BY <2>5, <2>6 DEF RowDues
<1>4. PICK S : S = StartedRows(asOf)
    OBVIOUS
<1>5. IsFiniteSet(S)
  <2>1. S \subseteq assignments
      BY <1>4 DEF StartedRows
  <2> QED
      BY <2>1, AssignmentsFinite, FS_Subset
<1>6. PICK f : f = [row \in S |-> RowDues(row, asOf)]
    OBVIOUS
<1>7. \A row \in S : IsFiniteSet(f[row])
    BY <1>3, <1>4, <1>6
<1>8. IsFiniteSet(UNION {f[row] : row \in S})
    BY <1>5, <1>6, <1>7, FiniteUnion
<1>9. {f[row] : row \in S} = {RowDues(row, asOf) : row \in StartedRows(asOf)}
    BY <1>4, <1>6
<1> QED
    BY <1>8, <1>9 DEF ScheduledDues


-----------------------------------------------------------------------------
(* The order of a scheduled run leaves no doubt. *)

(* An order in which any two come one after the other. *)
TotalOrder(dues, before) ==
    /\ \A x, y \in dues : x # y => <<x, y>> \in before \/ <<y, x>> \in before
    /\ \A x, y, z \in dues : <<x, y>> \in before /\ <<y, z>> \in before => <<x, z>> \in before

LEMMA TotalIsOrdered ==
    ASSUME NEW dues, IsFiniteSet(dues), NEW before, TotalOrder(dues, before)
    PROVE  Ordered(dues, before)
<1> DEFINE HasLast(S) == \E x \in S : \A y \in S \ {x} : <<y, x>> \in before
           Good == {S \in SUBSET dues : S # {} => HasLast(S)}
<1>1. ASSUME NEW S \in SUBSET dues, \A x \in S : S \ {x} \in Good
      PROVE  S \in Good
  <2>1. SUFFICES ASSUME S # {} PROVE HasLast(S)
      OBVIOUS
  <2>2. PICK one \in S : TRUE
      BY <2>1
  <2>3. CASE S \ {one} = {}
      BY <2>2, <2>3
  <2>4. CASE S \ {one} # {}
    <3>1. PICK last \in S \ {one} : \A y \in (S \ {one}) \ {last} : <<y, last>> \in before
        BY <1>1, <2>2, <2>4
    <3>2. CASE <<one, last>> \in before
        BY <3>1, <3>2
    <3>3. CASE <<last, one>> \in before
      <4>1. \A y \in S \ {one} : <<y, one>> \in before
          BY <3>1, <3>3 DEF TotalOrder
      <4> QED
          BY <4>1, <2>2
    <3> QED
        BY <3>1, <3>2, <3>3 DEF TotalOrder
  <2> QED
      BY <2>3, <2>4
<1> HIDE DEF Good
<1>2. SUBSET dues \subseteq Good
    BY <1>1, RemovalInduction
<1> QED
    BY <1>2 DEF Good, Ordered

(* Two periods of a schedule that start on one date are the same. *)
LEMMA StartTellsPeriod ==
    ASSUME NEW schedule \in Schedules, NEW c \in Dates, NEW d \in Dates,
           Containing(c, schedule).start = Containing(d, schedule).start
    PROVE  Containing(c, schedule) = Containing(d, schedule)
<1>1. \A e \in Dates : /\ e \in Int
                       /\ Containing(e, schedule).start \in Int
                       /\ Containing(e, schedule).end \in Int
                       /\ Containing(e, schedule).start <= e /\ e <= Containing(e, schedule).end
  <2>1. SUFFICES ASSUME NEW e \in Dates
                 PROVE  /\ e \in Int
                        /\ Containing(e, schedule).start \in Int
                        /\ Containing(e, schedule).end \in Int
                        /\ Containing(e, schedule).start <= e /\ e <= Containing(e, schedule).end
      OBVIOUS
  <2>2. PICK p \in [start : Int, end : Int] : p = Containing(e, schedule) /\ InPeriod(e, p)
      BY PeriodsPartition
  <2> QED
      BY <2>2, DateTypes DEF InPeriod
<1>2. CASE c <= d
  <2>1. InPeriod(c, Containing(d, schedule))
      BY <1>1, <1>2 DEF InPeriod
  <2> QED
      BY <2>1, PeriodsPartition
<1>3. CASE d < c
  <2>1. InPeriod(d, Containing(c, schedule))
      BY <1>1, <1>3 DEF InPeriod
  <2> QED
      BY <2>1, PeriodsPartition
<1> QED
    BY <1>1, <1>2, <1>3

(* A row is known by its key: those of one employee and policy are apart. *)
LEMMA KeyTellsRow ==
    ASSUME ReadInv, NEW x \in assignments, NEW y \in assignments, RowKey(x) = RowKey(y)
    PROVE  x = y
<1>1. x.employee = y.employee /\ x.policy = y.policy /\ x.from = y.from
    BY DEF RowKey
<1>2. /\ x \in RowType /\ y \in RowType /\ x.from <= x.to /\ y.from <= y.to
      /\ Apart(assignments)
    BY DEF ReadInv, AudienceInv, RowsOK, Ranged
<1>3. x.from \in Int /\ x.to \in Int /\ y.from \in Int /\ y.to \in Int
    BY <1>2, DateTypes DEF RowType
<1>4. ~ (x.to < y.from) /\ ~ (y.to < x.from)
    BY <1>1, <1>2, <1>3
<1> QED
    BY <1>1, <1>2, <1>4 DEF Apart

(* The identifier of a row has its key in it. *)
LEMMA IdHasKey ==
    ASSUME NEW x, NEW y, RowId(x) = RowId(y)
    PROVE  RowKey(x) = RowKey(y)
<1>1. PICK a, b, c, n : RowKey(x) = <<a, b, c>> /\ n = remade[RowKey(x)]
    BY DEF RowKey
<1>2. PICK d, e, f, m : RowKey(y) = <<d, e, f>> /\ m = remade[RowKey(y)]
    BY DEF RowKey
<1>0. \E S : S = {a, b, c, d, e, f, n, m}
    OBVIOUS
<1>3. PICK S : /\ a \in S /\ b \in S /\ c \in S /\ d \in S /\ e \in S /\ f \in S
               /\ n \in S /\ m \in S
    BY <1>0
<1>4. PICK s \in Seq(S), t \in Seq(S) :
         s = <<a, b, c>> /\ t = <<d, e, f>> /\ Len(s) = 3 /\ Len(t) = 3
  <2>1. <<a, b, c>> \in Seq(S) /\ Len(<<a, b, c>>) = 3
      BY <1>3
  <2>2. <<d, e, f>> \in Seq(S) /\ Len(<<d, e, f>>) = 3
      BY <1>3
  <2> QED
      BY <2>1, <2>2
<1>5. Append(s, n) = Append(t, m)
    BY <1>1, <1>2, <1>4 DEF RowId
<1>6. \A i \in 1 .. 3 : Append(s, n)[i] = s[i] /\ Append(t, m)[i] = t[i]
    BY <1>3, <1>4
<1>7. s = t
    BY <1>4, <1>5, <1>6
<1> QED
    BY <1>1, <1>2, <1>4, <1>7

LEMMA SourceTellsDue ==
    ASSUME ReadInv, NEW asOf \in Dates,
           NEW x \in ScheduledDues(asOf), NEW y \in ScheduledDues(asOf),
           x.source[2] = y.source[2], x.version = y.version,
           x.source[3] = y.source[3], x.source[4] = y.source[4]
    PROVE  x = y
<1>1. PICK row \in assignments : \E v \in versions[row.policy] : \E i \in TimeRules(v) :
         \E p \in Visited(row, v, i, asOf) :
             row.from <= asOf /\ x = DueFor(row, v, i, p)
    BY DuesAre
<1>2. PICK v \in versions[row.policy] : \E i \in TimeRules(v) :
         \E p \in Visited(row, v, i, asOf) :
             row.from <= asOf /\ x = DueFor(row, v, i, p)
    BY <1>1
<1>3. PICK i \in TimeRules(v) : \E p \in Visited(row, v, i, asOf) :
         row.from <= asOf /\ x = DueFor(row, v, i, p)
    BY <1>2
<1>4. PICK p \in Visited(row, v, i, asOf) :
         row.from <= asOf /\ x = DueFor(row, v, i, p)
    BY <1>3
<1>5. PICK row2 \in assignments : \E w \in versions[row2.policy] : \E j \in TimeRules(w) :
         \E q \in Visited(row2, w, j, asOf) :
             row2.from <= asOf /\ y = DueFor(row2, w, j, q)
    BY DuesAre
<1>6. PICK w \in versions[row2.policy] : \E j \in TimeRules(w) :
         \E q \in Visited(row2, w, j, asOf) :
             row2.from <= asOf /\ y = DueFor(row2, w, j, q)
    BY <1>5
<1>7. PICK j \in TimeRules(w) : \E q \in Visited(row2, w, j, asOf) :
         row2.from <= asOf /\ y = DueFor(row2, w, j, q)
    BY <1>6
<1>8. PICK q \in Visited(row2, w, j, asOf) :
         row2.from <= asOf /\ y = DueFor(row2, w, j, q)
    BY <1>7
<1>9. /\ RowId(row) = RowId(row2) /\ v.no = w.no
      /\ RuleId(row.policy, v, i) = RuleId(row2.policy, w, j) /\ p.start = q.start
    BY <1>4, <1>8 DEF DueFor
<1>10. row = row2
    BY <1>9, IdHasKey, KeyTellsRow
<1>11. row.policy \in Policies
    BY DEF ReadInv, AudienceInv, RowsOK, Ranged, RowType
<1>12. v = w
    BY <1>9, <1>10, <1>11 DEF ReadInv, VersionsKnown
<1>13. i = j
  <2>1. v.terms.rules[i].tier = v.terms.rules[j].tier
      BY <1>9, <1>10, <1>12 DEF RuleId
  <2>2. j \in DOMAIN v.terms.rules
      BY <1>12 DEF TimeRules
  <2> QED
      BY <1>11, <2>1, <2>2, TimeRuleIs
<1>14. p = q
  <2>1. PICK schedule \in Schedules : schedule = v.terms.rules[i].frequency
      BY <1>11, TimeRuleIs
  <2>2. PICK c \in Dates : p = Containing(c, schedule)
      BY <1>4, <2>1, PeriodIs
  <2>3. PICK d \in Dates : q = Containing(d, schedule)
      BY <1>8, <1>10, <1>12, <1>13, <2>1, PeriodIs
  <2> QED
      BY <1>9, <2>2, <2>3, StartTellsPeriod
<1> QED
    BY <1>4, <1>8, <1>10, <1>12, <1>13, <1>14


(* Where a due comes in the order of a run. *)
PlaceOf(d, rows, rules) == <<rows[d.source[2]], d.version, rules[d.source[3]], d.source[4]>>

LexLess(s, t) ==
    \/ s[1] < t[1]
    \/ s[1] = t[1] /\ s[2] < t[2]
    \/ s[1] = t[1] /\ s[2] = t[2] /\ s[3] < t[3]
    \/ s[1] = t[1] /\ s[2] = t[2] /\ s[3] = t[3] /\ s[4] < t[4]

LEMMA PrecedesIs ==
    ASSUME NEW x, NEW y, NEW rows, NEW rules
    PROVE  Precedes(x, y, rows, rules) <=>
               LexLess(PlaceOf(x, rows, rules), PlaceOf(y, rows, rules))
<1>1. PICK s, t : s = PlaceOf(x, rows, rules) /\ t = PlaceOf(y, rows, rules)
    OBVIOUS
<1>2. Precedes(x, y, rows, rules) <=>
        \E i \in 1 .. 4 : s[i] < t[i] /\ \A j \in 1 .. i - 1 : s[j] = t[j]
    BY <1>1 DEF Precedes, PlaceOf
<1>3. (\E i \in 1 .. 4 : s[i] < t[i] /\ \A j \in 1 .. i - 1 : s[j] = t[j]) <=> LexLess(s, t)
  <2>1. 1 .. 4 = {1, 2, 3, 4} /\ 1 .. 1 - 1 = {} /\ 1 .. 2 - 1 = {1} /\ 1 .. 3 - 1 = {1, 2}
        /\ 1 .. 4 - 1 = {1, 2, 3}
      OBVIOUS
  <2> QED
      BY <2>1 DEF LexLess
<1> QED
    BY <1>1, <1>2, <1>3

LEMMA ScheduledInOrder ==
    ASSUME ReadInv, NEW asOf \in Dates, NEW dues, dues = ScheduledDues(asOf),
           NEW rows \in RowRankings(dues), NEW rules \in RuleRankings(dues)
    PROVE  Ordered(dues, {pair \in dues \X dues : Precedes(pair[1], pair[2], rows, rules)})
<1>1. IsFiniteSet(dues)
    BY DuesFinite
<1>2. PICK R, Q : R = {d.source[2] : d \in dues} /\ Q = {d.source[3] : d \in dues}
    OBVIOUS
<1>3. IsFiniteSet(R) /\ IsFiniteSet(Q)
  <2>1. PICK f, g : f = [d \in dues |-> d.source[2]] /\ g = [d \in dues |-> d.source[3]]
      OBVIOUS
  <2>2. R = {f[d] : d \in dues} /\ Q = {g[d] : d \in dues}
      BY <1>2, <2>1
  <2>3. IsFiniteSet({f[d] : d \in dues}) /\ IsFiniteSet({g[d] : d \in dues})
      BY <1>1, <2>1, FiniteImage
  <2> QED
      BY <2>2, <2>3
<1>4. /\ \A r \in R : rows[r] \in Int
      /\ \A r, s \in R : rows[r] = rows[s] => r = s
      /\ \A q \in Q : rules[q] \in Int
      /\ \A q, s \in Q : rules[q] = rules[s] => q = s
  <2>1. rows \in Injection(R, 1 .. Cardinality(R)) /\ rules \in Injection(Q, 1 .. Cardinality(Q))
      BY <1>2 DEF RowRankings, RuleRankings, Rankings
  <2>2. Cardinality(R) \in Nat /\ Cardinality(Q) \in Nat
      BY <1>3, FS_CardinalityType
  <2> QED
      BY <2>1, <2>2 DEF Injection, IsInjective
<1>5. \A d \in dues : d.version \in Int /\ d.source[4] \in Int
  <2>1. SUFFICES ASSUME NEW d \in dues PROVE d.version \in Int /\ d.source[4] \in Int
      OBVIOUS
  <2>2. PICK row \in assignments : \E v \in versions[row.policy] : \E i \in TimeRules(v) :
           \E p \in Visited(row, v, i, asOf) : row.from <= asOf /\ d = DueFor(row, v, i, p)
      BY DuesAre
  <2>3. PICK v \in versions[row.policy] : \E i \in TimeRules(v) :
           \E p \in Visited(row, v, i, asOf) : row.from <= asOf /\ d = DueFor(row, v, i, p)
      BY <2>2
  <2>4. PICK i \in TimeRules(v) : \E p \in Visited(row, v, i, asOf) :
           row.from <= asOf /\ d = DueFor(row, v, i, p)
      BY <2>3
  <2>5. PICK p \in Visited(row, v, i, asOf) : row.from <= asOf /\ d = DueFor(row, v, i, p)
      BY <2>4
  <2>6. row.policy \in Policies
      BY DEF ReadInv, AudienceInv, RowsOK, Ranged, RowType
  <2>7. v.no \in Int
      BY <2>6 DEF ReadInv, AudienceInv, VersionsOK
  <2>8. p.start \in Int
      BY <2>5, PeriodIs
  <2>9. d.version = v.no /\ d.source[4] = p.start
      BY <2>5 DEF DueFor
  <2> QED
      BY <2>7, <2>8, <2>9
<1>6. PICK place : place = [d \in dues |-> PlaceOf(d, rows, rules)]
    OBVIOUS
<1>7. \A d \in dues : /\ place[d][1] \in Int /\ place[d][2] \in Int
                      /\ place[d][3] \in Int /\ place[d][4] \in Int
  <2>1. SUFFICES ASSUME NEW d \in dues
                 PROVE  /\ place[d][1] \in Int /\ place[d][2] \in Int
                        /\ place[d][3] \in Int /\ place[d][4] \in Int
      OBVIOUS
  <2>2. d.source[2] \in R /\ d.source[3] \in Q
      BY <1>2
  <2> QED
      BY <1>4, <1>5, <1>6, <2>2 DEF PlaceOf
<1>8. ASSUME NEW x \in dues, NEW y \in dues,
             place[x][1] = place[y][1], place[x][2] = place[y][2],
             place[x][3] = place[y][3], place[x][4] = place[y][4]
      PROVE  x = y
  <2>1. x.source[2] \in R /\ y.source[2] \in R /\ x.source[3] \in Q /\ y.source[3] \in Q
      BY <1>2
  <2>2. x.source[2] = y.source[2] /\ x.version = y.version /\ x.source[3] = y.source[3]
        /\ x.source[4] = y.source[4]
      BY <1>4, <1>6, <1>8, <2>1 DEF PlaceOf
  <2> QED
      BY <2>2, SourceTellsDue
<1>9. PICK before : before = {pair \in dues \X dues : Precedes(pair[1], pair[2], rows, rules)}
    OBVIOUS
<1>10. \A x, y \in dues : <<x, y>> \in before <=> LexLess(place[x], place[y])
    BY <1>6, <1>9, PrecedesIs
<1>11. TotalOrder(dues, before)
  <2>1. ASSUME NEW x \in dues, NEW y \in dues, x # y
        PROVE  LexLess(place[x], place[y]) \/ LexLess(place[y], place[x])
      BY <1>7, <1>8, <2>1 DEF LexLess
  <2>2. ASSUME NEW x \in dues, NEW y \in dues, NEW z \in dues,
               LexLess(place[x], place[y]), LexLess(place[y], place[z])
        PROVE  LexLess(place[x], place[z])
      BY <1>7, <2>2 DEF LexLess
  <2> QED
      BY <1>10, <2>1, <2>2 DEF TotalOrder
<1> QED
    BY <1>1, <1>9, <1>11, TotalIsOrdered


-----------------------------------------------------------------------------
(* What a payroll run finds due. *)

PayDue(row, v, i, run, worked) ==
    [account |-> Account(row),
     amount |-> PayrollAmount(worked[row.employee], v.terms.rules[i]),
     effective |-> PayrollEnd[run], version |-> v.no, cap |-> v.terms.cap,
     source |-> <<"PAYROLL_ACCRUAL", run, row.employee, RuleId(row.policy, v, i)>>]

Pays(row, v, i, run, worked) ==
    /\ row.employee \in DOMAIN worked /\ Covers(row, PayrollEnd[run])
    /\ IsEffectiveOn(v, versions[row.policy], PayrollEnd[run])
    /\ IsSelected(i, v.terms.rules, "HOURS_WORKED",
                  CompletedTenureMonths(Hired[row.employee], PayrollEnd[run]))
    /\ Earns(PayrollAmount(worked[row.employee], v.terms.rules[i]))

PayDuesOf(row, v, run, worked) ==
    {PayDue(row, v, i, run, worked) :
        i \in {j \in DOMAIN v.terms.rules : Pays(row, v, j, run, worked)}}

LEMMA PayrollDuesAre ==
    ASSUME NEW run, NEW worked
    PROVE  PayrollDues(run, worked) =
               UNION {UNION {PayDuesOf(row, v, run, worked) : v \in versions[row.policy]} :
                      row \in assignments}
BY DEF PayrollDues, PayDuesOf, PayDue, Pays

LEMMA PayDuesAre ==
    ASSUME NEW run, NEW worked, NEW due
    PROVE  due \in PayrollDues(run, worked) <=>
               \E row \in assignments : \E v \in versions[row.policy] :
                   \E i \in DOMAIN v.terms.rules :
                       Pays(row, v, i, run, worked) /\ due = PayDue(row, v, i, run, worked)
<1>1. \A row, v : due \in PayDuesOf(row, v, run, worked) <=>
          \E i \in DOMAIN v.terms.rules :
              Pays(row, v, i, run, worked) /\ due = PayDue(row, v, i, run, worked)
    BY DEF PayDuesOf
<1>2. PICK D : D = PayrollDues(run, worked)
    OBVIOUS
<1>3. D = UNION {UNION {PayDuesOf(row, v, run, worked) : v \in versions[row.policy]} :
                 row \in assignments}
    BY <1>2, PayrollDuesAre
<1>4. due \in D <=> \E row \in assignments : \E v \in versions[row.policy] :
                        due \in PayDuesOf(row, v, run, worked)
    BY <1>3
<1> QED
    BY <1>1, <1>2, <1>4

LEMMA PayDuesFinite ==
    ASSUME ReadInv, NEW run, NEW worked
    PROVE  IsFiniteSet(PayrollDues(run, worked))
<1>0. \A row \in assignments : row.policy \in Policies
    BY DEF ReadInv, AudienceInv, RowsOK, Ranged, RowType
<1>1. ASSUME NEW row \in assignments, NEW v \in versions[row.policy]
      PROVE  IsFiniteSet(PayDuesOf(row, v, run, worked))
  <2>1. PICK R : R = DOMAIN v.terms.rules /\ IsFiniteSet(R)
      BY <1>0, RulesFinite
  <2>2. PICK f : f = [i \in R |-> PayDue(row, v, i, run, worked)]
      OBVIOUS
  <2>3. IsFiniteSet({f[i] : i \in R})
      BY <2>1, <2>2, FiniteImage
  <2>4. PayDuesOf(row, v, run, worked) \subseteq {f[i] : i \in R}
      BY <2>1, <2>2 DEF PayDuesOf
  <2> QED
      BY <2>3, <2>4, FS_Subset
<1>2. ASSUME NEW row \in assignments
      PROVE  IsFiniteSet(UNION {PayDuesOf(row, v, run, worked) : v \in versions[row.policy]})
  <2>1. PICK V : V = versions[row.policy]
      OBVIOUS
  <2>2. IsFiniteSet(V)
      BY <1>0, <2>1 DEF ReadInv, VersionsKnown
  <2>3. PICK f : f = [v \in V |-> PayDuesOf(row, v, run, worked)]
      OBVIOUS
  <2>4. \A v \in V : IsFiniteSet(f[v])
      BY <1>1, <2>1, <2>3
  <2>5. IsFiniteSet(UNION {f[v] : v \in V})
      BY <2>2, <2>3, <2>4, FiniteUnion
  <2>6. {f[v] : v \in V} = {PayDuesOf(row, v, run, worked) : v \in versions[row.policy]}
      BY <2>1, <2>3
  <2> QED
      BY <2>5, <2>6
<1>3. PICK S : S = assignments
    OBVIOUS
<1>4. PICK f : f = [row \in S |-> UNION {PayDuesOf(row, v, run, worked) :
                                           v \in versions[row.policy]}]
    OBVIOUS
<1>5. \A row \in S : IsFiniteSet(f[row])
    BY <1>2, <1>3, <1>4
<1>6. IsFiniteSet(UNION {f[row] : row \in S})
    BY <1>3, <1>4, <1>5, AssignmentsFinite, FiniteUnion
<1>7. {f[row] : row \in S} =
         {UNION {PayDuesOf(row, v, run, worked) : v \in versions[row.policy]} : row \in assignments}
    BY <1>3, <1>4
<1> QED
    BY <1>6, <1>7, PayrollDuesAre

(* A rule that accrues by the hours worked divides by a number of them. *)
LEMMA HoursRuleIs ==
    ASSUME ReadInv, NEW p \in Policies, NEW v \in versions[p],
           NEW i \in DOMAIN v.terms.rules, v.terms.rules[i].method = "HOURS_WORKED"
    PROVE  /\ v.terms \in DraftType /\ v.terms.rules[i] \in RuleType
           /\ v.terms.rules[i].per \in Nat \ {0}
<1>1. v.terms \in DraftType /\ ValidDraft(v.terms)
    BY AudienceAssumption DEF ReadInv, AudienceInv, VersionsOK
<1>2. PICK rules \in Seq(RuleType) : rules = v.terms.rules
    BY <1>1 DEF DraftType
<1>3. i \in DOMAIN rules /\ rules[i] \in RuleType
    BY <1>2
<1>4. v.terms.kind = "ACCRUAL"
    BY <1>1, <1>2, <1>3 DEF DraftType, Kinds, ValidDraft, ValidRules
<1>5. ValidRule(rules[i], rules[1])
    BY <1>1, <1>2, <1>3, <1>4 DEF ValidDraft, ValidRules
<1>6. rules[i].per \in Nat \ {0}
    BY <1>2, <1>3, <1>5 DEF ValidRule, RuleType
<1> QED
    BY <1>1, <1>2, <1>3, <1>6

LEMMA PayType ==
    ASSUME NEW rule \in RuleType, rule.per \in Nat \ {0}, NEW minutes \in Int
    PROVE  PayrollAmount(minutes, rule) \in Int
<1>1. PICK k \in Int : k = ToMinutes(rule.amount, rule.unit)
    BY MinutesType
<1>2. PICK n \in Int, per \in Nat \ {0} : n = minutes * k /\ per = rule.per
    OBVIOUS
<1>3. PayrollAmount(minutes, rule) = n \div per
    BY <1>1, <1>2 DEF PayrollAmount
<1> QED
    BY <1>2, <1>3, Quotient


-----------------------------------------------------------------------------
(* What an entry tells of where it comes from. *)

(* The rule that an employee's seniority on a date selects of a version. *)
Chosen(x, rule, method, date) ==
    \E v \in versions[x.account[2]] :
        /\ v.no = x.version
        /\ \E i \in DOMAIN v.terms.rules :
              /\ rule = RuleId(x.account[2], v, i)
              /\ IsSelected(i, v.terms.rules, method,
                            CompletedTenureMonths(Hired[x.account[1]], date))

FromSchedule(x) ==
    \E id, rule, start :
        /\ x.source = <<"SCHEDULED_ACCRUAL", id, rule, start>>
        /\ id[1] = x.account[1] /\ id[2] = x.account[2]
        /\ Chosen(x, rule, "TIME", start)

FromPayroll(x) ==
    \E run, rule :
        /\ x.source = <<"PAYROLL_ACCRUAL", run, x.account[1], rule>>
        /\ Chosen(x, rule, "HOURS_WORKED", PayrollEnd[run])

DueFits(due) ==
    /\ Postable(due)
    /\ due.account \in Employees \X Policies /\ due.effective \in Dates
    /\ \E v \in versions[due.account[2]] :
          /\ v.no = due.version /\ v.terms.cap = due.cap
          /\ IsEffectiveOn(v, versions[due.account[2]], due.effective)
    /\ FromSchedule(due) \/ FromPayroll(due)

LEMMA IdIs ==
    ASSUME NEW row
    PROVE  RowId(row)[1] = row.employee /\ RowId(row)[2] = row.policy
<1>1. PICK a, b, c, n : RowKey(row) = <<a, b, c>> /\ n = remade[RowKey(row)]
                        /\ a = row.employee /\ b = row.policy
    BY DEF RowKey
<1>2. \E S : S = {a, b, c, n}
    OBVIOUS
<1>3. PICK S : a \in S /\ b \in S /\ c \in S /\ n \in S
    BY <1>2
<1>4. PICK s \in Seq(S) : s = <<a, b, c>> /\ Len(s) = 3
  <2>1. <<a, b, c>> \in Seq(S) /\ Len(<<a, b, c>>) = 3
      BY <1>3
  <2> QED
      BY <2>1
<1>5. RowId(row) = Append(s, n)
    BY <1>1, <1>4 DEF RowId
<1>6. Append(s, n)[1] = s[1] /\ Append(s, n)[2] = s[2]
    BY <1>3, <1>4
<1> QED
    BY <1>1, <1>4, <1>5, <1>6

LEMMA ScheduledFits ==
    ASSUME ReadInv, NEW asOf \in Dates, NEW due \in ScheduledDues(asOf)
    PROVE  /\ DueFits(due) /\ FromSchedule(due)
           /\ Hired[due.account[1]] <= due.effective
           /\ due.account[1] \in EligibleOn(assignments, due.account[2], due.effective)
<1>1. PICK row \in assignments : \E v \in versions[row.policy] : \E i \in TimeRules(v) :
         \E p \in Visited(row, v, i, asOf) :
             /\ row.from <= asOf /\ Earned(row, v, i, p, asOf) /\ due = DueFor(row, v, i, p)
    BY DuesAre
<1>2. PICK v \in versions[row.policy] : \E i \in TimeRules(v) :
         \E p \in Visited(row, v, i, asOf) :
             /\ row.from <= asOf /\ Earned(row, v, i, p, asOf) /\ due = DueFor(row, v, i, p)
    BY <1>1
<1>3. PICK i \in TimeRules(v) : \E p \in Visited(row, v, i, asOf) :
         /\ row.from <= asOf /\ Earned(row, v, i, p, asOf) /\ due = DueFor(row, v, i, p)
    BY <1>2
<1>4. PICK p \in Visited(row, v, i, asOf) :
         /\ row.from <= asOf /\ Earned(row, v, i, p, asOf) /\ due = DueFor(row, v, i, p)
    BY <1>3
<1>5. /\ due.account = <<row.employee, row.policy>> /\ due.effective = FallsOn(row, v, i, p)
      /\ due.version = v.no /\ due.cap = v.terms.cap
      /\ due.source = <<"SCHEDULED_ACCRUAL", RowId(row), RuleId(row.policy, v, i), p.start>>
    BY <1>4 DEF DueFor, Account
<1>6. /\ Postable(due) /\ due.effective \in Dates
      /\ First(row, v) <= due.effective /\ due.effective <= Through(row, asOf)
    BY <1>4, <1>5, DueIs
<1>7. /\ row \in RowType /\ row.employee \in Employees /\ row.policy \in Policies
      /\ EligibleFrom(row) \in Dates /\ row.from <= EligibleFrom(row)
      /\ Hired[row.employee] \in Dates /\ Hired[row.employee] <= EligibleFrom(row)
      /\ First(row, v) \in Dates /\ EligibleFrom(row) <= First(row, v)
      /\ Through(row, asOf) \in Dates /\ Through(row, asOf) <= row.to
    BY <1>4, SpanOf
<1>8. /\ IsEffectiveOn(v, versions[row.policy], due.effective)
      /\ IsSelected(i, v.terms.rules, "TIME",
                    CompletedTenureMonths(Hired[row.employee], p.start))
    BY <1>4, <1>5 DEF Earned, TierDate
<1>9. FromSchedule(due)
  <2>1. i \in DOMAIN v.terms.rules
      BY DEF TimeRules
  <2>2. due.account[1] = row.employee /\ due.account[2] = row.policy
      BY <1>5
  <2>3. Chosen(due, RuleId(row.policy, v, i), "TIME", p.start)
      BY <1>5, <1>8, <2>1, <2>2 DEF Chosen
  <2> QED
      BY <1>5, <2>2, <2>3, IdIs DEF FromSchedule
<1>10. Hired[row.employee] <= due.effective /\ row.from <= due.effective
       /\ due.effective <= row.to
  <2>1. row.from \in Int /\ row.to \in Int
      BY <1>7, DateTypes DEF RowType
  <2>2. PICK h \in Int, f \in Int, e \in Int, d \in Int, x \in Int, u \in Int, t \in Int :
           /\ h = Hired[row.employee] /\ f = row.from /\ e = EligibleFrom(row)
           /\ d = First(row, v) /\ x = due.effective /\ u = Through(row, asOf) /\ t = row.to
      BY <1>6, <1>7, <2>1, DateTypes
  <2> QED
      BY <1>6, <1>7, <2>2
<1>11. row.employee \in EligibleOn(assignments, row.policy, due.effective)
    BY <1>10 DEF EligibleOn, Covers
<1> QED
    BY <1>5, <1>6, <1>7, <1>8, <1>9, <1>10, <1>11 DEF DueFits

LEMMA PayrollFits ==
    ASSUME ReadInv, NEW run \in DOMAIN PayrollEnd, NEW E \in SUBSET Employees,
           NEW worked \in [E -> WorkedMinutes], NEW due \in PayrollDues(run, worked)
    PROVE  DueFits(due) /\ FromPayroll(due)
<1>1. PICK row \in assignments : \E v \in versions[row.policy] : \E i \in DOMAIN v.terms.rules :
         Pays(row, v, i, run, worked) /\ due = PayDue(row, v, i, run, worked)
    BY PayDuesAre
<1>2. PICK v \in versions[row.policy] : \E i \in DOMAIN v.terms.rules :
         Pays(row, v, i, run, worked) /\ due = PayDue(row, v, i, run, worked)
    BY <1>1
<1>3. PICK i \in DOMAIN v.terms.rules :
         Pays(row, v, i, run, worked) /\ due = PayDue(row, v, i, run, worked)
    BY <1>2
<1>4. /\ due.account = <<row.employee, row.policy>> /\ due.effective = PayrollEnd[run]
      /\ due.version = v.no /\ due.cap = v.terms.cap
      /\ due.amount = PayrollAmount(worked[row.employee], v.terms.rules[i])
      /\ due.source = <<"PAYROLL_ACCRUAL", run, row.employee, RuleId(row.policy, v, i)>>
    BY <1>3 DEF PayDue, Account
<1>5. row.employee \in Employees /\ row.policy \in Policies
    BY DEF ReadInv, AudienceInv, RowsOK, Ranged, RowType
<1>6. IsSelected(i, v.terms.rules, "HOURS_WORKED",
                 CompletedTenureMonths(Hired[row.employee], PayrollEnd[run]))
    BY <1>3 DEF Pays
<1>7. Postable(due)
  <2>1. v.terms.rules[i].method = "HOURS_WORKED"
      BY <1>6 DEF IsSelected, EligibleRules
  <2>2. /\ v.terms \in DraftType /\ v.terms.rules[i] \in RuleType
        /\ v.terms.rules[i].per \in Nat \ {0}
      BY <1>5, <2>1, HoursRuleIs
  <2>3. worked[row.employee] \in Int
      BY <1>3, AccrualAssumption DEF Pays
  <2>4. due.amount \in Int /\ due.amount # 0
      BY <1>3, <1>4, <2>2, <2>3, PayType DEF Pays, Earns
  <2>5. due.cap \in Int \cup {None}
      BY <1>4, <2>2 DEF DraftType
  <2> QED
      BY <1>4, <2>4, <2>5 DEF Postable
<1>8. PayrollEnd[run] \in Dates
    BY AccrualAssumption
<1>9. IsEffectiveOn(v, versions[row.policy], PayrollEnd[run])
    BY <1>3 DEF Pays
<1>10. FromPayroll(due)
  <2>1. due.account[1] = row.employee /\ due.account[2] = row.policy
      BY <1>4
  <2>2. Chosen(due, RuleId(row.policy, v, i), "HOURS_WORKED", PayrollEnd[run])
      BY <1>4, <1>6, <2>1 DEF Chosen
  <2> QED
      BY <1>4, <2>1, <2>2 DEF FromPayroll
<1> QED
    BY <1>4, <1>5, <1>7, <1>8, <1>9, <1>10 DEF DueFits


-----------------------------------------------------------------------------
(* The invariant of the jobs: what they read is in order, no source has    *)
(* two entries, every entry has its shape and every credit the key of what *)
(* it was earned for.                                                      *)

EntryOK(x) ==
    /\ x.account \in Employees \X Policies
    /\ x.type \in EntryTypes
    /\ x.amount \in Int \ {0}
    /\ x.effective \in Dates
    /\ \E v \in versions[x.account[2]] : v.no = x.version

OriginOK(x) == IsAccrual(x) => FromSchedule(x) \/ FromPayroll(x)

EntriesOK(entries) == Sound(entries) /\ \A x \in entries : EntryOK(x) /\ OriginOK(x)

RemadeOK == remade \in [Employees \X Policies \X Dates -> 0 .. MaxRemakes]

JobsInv == ReadInv /\ EntriesOK(ledger) /\ RemadeOK

LEMMA YieldIs ==
    ASSUME NEW due, DueFits(due), NEW y, Yields(due, y)
    PROVE  /\ EntryOK(y) /\ OriginOK(y)
           /\ IsAccrual(y) => y = Credit(due)
           /\ y.account = due.account /\ y.effective = due.effective
           /\ y.type \in {"ACCRUAL", "FORFEITURE"}
<1>1. /\ due.amount \in Int \ {0} /\ due.account \in Employees \X Policies
      /\ due.effective \in Dates /\ \E v \in versions[due.account[2]] : v.no = due.version
    BY DEF DueFits, Postable
<1>2. CASE y = Credit(due)
  <2>1. /\ y.account = due.account /\ y.type = "ACCRUAL" /\ y.amount = due.amount
        /\ y.effective = due.effective /\ y.version = due.version /\ y.source = due.source
      BY <1>2 DEF Credit, Entry
  <2>2. FromSchedule(y) \/ FromPayroll(y)
      BY <2>1 DEF DueFits, FromSchedule, FromPayroll, Chosen
  <2>3. EntryOK(y)
      BY <1>1, <2>1 DEF EntryOK, EntryTypes
  <2> QED
      BY <1>2, <2>1, <2>2, <2>3 DEF OriginOK
<1>3. ASSUME NEW lost \in Nat \ {0}, y = Loss(due, lost)
      PROVE  /\ EntryOK(y) /\ OriginOK(y) /\ ~ IsAccrual(y)
             /\ y.account = due.account /\ y.effective = due.effective /\ y.type = "FORFEITURE"
  <2>1. /\ y.account = due.account /\ y.type = "FORFEITURE" /\ y.amount = -lost
        /\ y.effective = due.effective /\ y.version = due.version
      BY <1>3 DEF Loss, Entry
  <2>2. y.amount \in Int \ {0}
      BY <2>1
  <2> QED
      BY <1>1, <2>1, <2>2 DEF EntryOK, EntryTypes, OriginOK, IsAccrual
<1> QED
    BY <1>2, <1>3 DEF Yields

(* What a job that posts dues in order leaves. *)
LEMMA JobPosts ==
    ASSUME EntriesOK(ledger), NEW dues, IsFiniteSet(dues), \A due \in dues : DueFits(due),
           NEW before, Ordered(dues, before)
    PROVE  /\ ledger \subseteq PostAll(ledger, dues, before)
           /\ EntriesOK(PostAll(ledger, dues, before))
           /\ \A y \in PostAll(ledger, dues, before) \ ledger : \E due \in dues : Yields(due, y)
<1>1. \A due \in dues : Postable(due)
    BY DEF DueFits
<1>2. PICK after : after = PostAll(ledger, dues, before)
    OBVIOUS
<1>3. /\ ledger \subseteq after /\ Sound(after)
      /\ \A y \in after \ ledger : \E due \in dues : Yields(due, y)
    BY <1>1, <1>2, PostAllKeeps DEF EntriesOK
<1>4. ASSUME NEW y \in after PROVE EntryOK(y) /\ OriginOK(y)
  <2>1. CASE y \in ledger
      BY <2>1 DEF EntriesOK
  <2>2. CASE y \notin ledger
    <3>1. PICK due \in dues : Yields(due, y)
        BY <1>3, <2>2
    <3> QED
        BY <3>1, YieldIs
  <2> QED
      BY <2>1, <2>2
<1> QED
    BY <1>2, <1>3, <1>4 DEF EntriesOK

(* Entries of sources of their own, posted at once. *)
LEMMA PostKeeps ==
    ASSUME NEW entries, Sound(entries), NEW legs, Sound(legs)
    PROVE  /\ entries \subseteq Post(entries, legs) /\ Sound(Post(entries, legs))
           /\ \A y \in Post(entries, legs) : y \in entries \/ y \in legs
<1>1. PICK after : after = Post(entries, legs)
    OBVIOUS
<1>2. \A y : y \in after <=> y \in entries \/ (y \in legs /\ ~ IsPosted(entries, y.source))
    BY <1>1 DEF Post
<1>3. IsFiniteSet(after)
  <2>1. IsFiniteSet(entries \cup legs)
      BY FS_Union DEF Sound, HasAmounts
  <2>2. after \subseteq entries \cup legs
      BY <1>2
  <2> QED
      BY <2>1, <2>2, FS_Subset
<1>4. \A x, y \in after : x.source = y.source => x = y
    BY <1>2 DEF Sound, IsPosted
<1>5. Sound(after)
    BY <1>2, <1>3, <1>4 DEF Sound, HasAmounts
<1> QED
    BY <1>1, <1>2, <1>5

-----------------------------------------------------------------------------
(* The legs of a rollover. *)

LEMMA PlanIs ==
    ASSUME NEW balance \in Int, NEW periodEnd \in Int, NEW terms \in DraftType, ValidDraft(terms),
           NEW leg \in Plan(balance, periodEnd, terms)
    PROVE  /\ balance > 0 /\ Carried(balance, terms) \in Nat
           /\ Carried(balance, terms) <= balance
           /\ terms.expires => Carried(balance, terms) = 0
           /\ ~ terms.expires => terms.carryover \in Nat /\ Carried(balance, terms) <= terms.carryover
           /\ \/ leg = [type |-> "EXPIRATION", amount |-> -balance, effective |-> periodEnd]
              \/ /\ leg = [type |-> "CARRYOVER", amount |-> Carried(balance, terms),
                           effective |-> periodEnd + 1]
                 /\ Carried(balance, terms) # 0
<1>1. /\ balance > 0 /\ (terms.expires \/ terms.carryover # None)
      /\ \/ leg = [type |-> "EXPIRATION", amount |-> -balance, effective |-> periodEnd]
         \/ /\ leg = [type |-> "CARRYOVER", amount |-> Carried(balance, terms),
                      effective |-> periodEnd + 1]
            /\ Carried(balance, terms) # 0
  <2>1. ~ (balance <= 0 \/ (~ terms.expires /\ terms.carryover = None))
      BY DEF Plan
  <2>2. leg \in {[type |-> "EXPIRATION", amount |-> -balance, effective |-> periodEnd]} \cup
             {[type |-> "CARRYOVER", amount |-> x, effective |-> periodEnd + 1] :
                 x \in {Carried(balance, terms)} \ {0}}
      BY <2>1 DEF Plan
  <2> QED
      BY <2>1, <2>2
<1>2. terms.expires \in BOOLEAN
    BY DEF DraftType
<1>3. CASE terms.expires
    BY <1>1, <1>3 DEF Carried
<1>4. CASE ~ terms.expires
  <2>1. terms.carryover \in Int /\ terms.carryover >= 0
      BY <1>1, <1>4 DEF DraftType, ValidDraft, ValidSettings
  <2>2. PICK c \in Int : c = terms.carryover
      BY <2>1
  <2>3. Min({balance, c}) \in {balance, c} /\ Min({balance, c}) <= balance
        /\ Min({balance, c}) <= c
      BY MinOfTwo
  <2>4. Carried(balance, terms) = Min({balance, c})
      BY <1>4, <2>2 DEF Carried
  <2> QED
      BY <1>1, <1>4, <2>1, <2>2, <2>3, <2>4
<1> QED
    BY <1>1, <1>3, <1>4

(* The versions a rollover reads are known by the date alone. *)
LEMMA OneInForce ==
    ASSUME ReadInv, NEW p \in Policies, NEW date, NEW v, NEW w,
           IsEffectiveOn(v, versions[p], date), IsEffectiveOn(w, versions[p], date)
    PROVE  v = w
<1>1. v \in versions[p] /\ w \in versions[p] /\ v.from <= w.from /\ w.from <= v.from
    BY DEF IsEffectiveOn, EffectiveVersions
<1>2. v.from \in Int /\ w.from \in Int /\ v.no \in Int /\ w.no \in Int
    BY <1>1, DateTypes DEF ReadInv, AudienceInv, VersionsOK
<1>3. ~ (v.no < w.no) /\ ~ (w.no < v.no)
    BY <1>1, <1>2 DEF ReadInv, AudienceInv, VersionsOK, VersionsInOrder
<1>4. v.no = w.no
    BY <1>2, <1>3
<1> QED
    BY <1>1, <1>4 DEF ReadInv, VersionsKnown

(* Two rows of an account that cover one date are the same. *)
LEMMA DateTellsRow ==
    ASSUME ReadInv, NEW x \in assignments, NEW y \in assignments, NEW date \in Int,
           Account(x) = Account(y), Covers(x, date), Covers(y, date)
    PROVE  x = y
<1>1. x.employee = y.employee /\ x.policy = y.policy
    BY DEF Account
<1>2. x \in RowType /\ y \in RowType /\ Apart(assignments)
    BY DEF ReadInv, AudienceInv, RowsOK, Ranged
<1>3. x.from \in Int /\ x.to \in Int /\ y.from \in Int /\ y.to \in Int
    BY <1>2, DateTypes DEF RowType
<1>4. x.from <= date /\ date <= x.to /\ y.from <= date /\ date <= y.to
    BY DEF Covers
<1>5. ~ (x.to < y.from) /\ ~ (y.to < x.from)
    BY <1>3, <1>4
<1> QED
    BY <1>1, <1>2, <1>5 DEF Apart


LegOf(row, v, periodEnd, leg) ==
    [account |-> Account(row), type |-> leg.type, amount |-> leg.amount,
     effective |-> leg.effective, version |-> v.no,
     source |-> <<"PERIOD_ROLLOVER", row.policy, row.employee, periodEnd, leg.type>>]

PlanOf(row, v, periodEnd) ==
    Plan(BalanceAsOf(ledger, Account(row), periodEnd), periodEnd, v.terms)

Closing(row, periodEnd) ==
    {w \in versions[row.policy] :
        IsEffectiveOn(w, versions[row.policy], periodEnd) /\ ~ Unlimited(w.terms)}

ClosedRows(periodEnd) == {x \in assignments : Covers(x, periodEnd)}

LEMMA LegsOfAre ==
    ASSUME NEW row, NEW v, NEW periodEnd
    PROVE  LegsOf(row, v, periodEnd) =
               {LegOf(row, v, periodEnd, leg) : leg \in PlanOf(row, v, periodEnd)}
BY DEF LegsOf, LegOf, PlanOf

LEMMA RolloverIs ==
    ASSUME NEW periodEnd
    PROVE  RolloverLegs(periodEnd) =
               UNION {UNION {LegsOf(row, v, periodEnd) : v \in Closing(row, periodEnd)} :
                      row \in ClosedRows(periodEnd)}
BY DEF RolloverLegs, Closing, ClosedRows

LEMMA LegsAre ==
    ASSUME NEW periodEnd, NEW e
    PROVE  e \in RolloverLegs(periodEnd) <=>
               \E row \in assignments : \E v \in versions[row.policy] :
                   /\ Covers(row, periodEnd) /\ IsEffectiveOn(v, versions[row.policy], periodEnd)
                   /\ \E leg \in PlanOf(row, v, periodEnd) : e = LegOf(row, v, periodEnd, leg)
                   /\ ~ Unlimited(v.terms)
<1>1. \A row, v : e \in LegsOf(row, v, periodEnd) <=>
          \E leg \in PlanOf(row, v, periodEnd) : e = LegOf(row, v, periodEnd, leg)
    BY LegsOfAre
<1>2. e \in RolloverLegs(periodEnd) <=>
         \E row \in ClosedRows(periodEnd) : \E v \in Closing(row, periodEnd) :
             e \in LegsOf(row, v, periodEnd)
  <2>1. PICK D : D = RolloverLegs(periodEnd)
      OBVIOUS
  <2>2. D = UNION {UNION {LegsOf(row, v, periodEnd) : v \in Closing(row, periodEnd)} :
                   row \in ClosedRows(periodEnd)}
      BY <2>1, RolloverIs
  <2> QED
      BY <2>1, <2>2
<1> QED
    BY <1>1, <1>2 DEF Closing, ClosedRows

LEMMA LegsFinite ==
    ASSUME ReadInv, NEW periodEnd
    PROVE  IsFiniteSet(RolloverLegs(periodEnd))
<1>0. \A row \in assignments : row.policy \in Policies
    BY DEF ReadInv, AudienceInv, RowsOK, Ranged, RowType
<1>1. ASSUME NEW row, NEW v
      PROVE  IsFiniteSet(LegsOf(row, v, periodEnd))
  <2>1. PICK balance, P : balance = BalanceAsOf(ledger, Account(row), periodEnd)
                          /\ P = Plan(balance, periodEnd, v.terms) /\ P = PlanOf(row, v, periodEnd)
      BY DEF PlanOf
  <2>2. PICK one, two : /\ one = [type |-> "EXPIRATION", amount |-> -balance,
                                  effective |-> periodEnd]
                        /\ two = [type |-> "CARRYOVER", amount |-> Carried(balance, v.terms),
                                  effective |-> periodEnd + 1]
      OBVIOUS
  <2>3. P \subseteq {one} \cup {two}
      BY <2>1, <2>2 DEF Plan
  <2>4. IsFiniteSet({one} \cup {two})
      BY FS_Singleton, FS_AddElement
  <2>5. IsFiniteSet(P)
      BY <2>3, <2>4, FS_Subset
  <2>6. PICK f : f = [leg \in P |-> LegOf(row, v, periodEnd, leg)]
      OBVIOUS
  <2>7. IsFiniteSet({f[leg] : leg \in P})
      BY <2>5, <2>6, FiniteImage
  <2>8. LegsOf(row, v, periodEnd) \subseteq {f[leg] : leg \in P}
      BY <2>1, <2>6, LegsOfAre
  <2> QED
      BY <2>7, <2>8, FS_Subset
<1>2. ASSUME NEW row \in assignments
      PROVE  IsFiniteSet(UNION {LegsOf(row, v, periodEnd) : v \in Closing(row, periodEnd)})
  <2>1. PICK V : V = Closing(row, periodEnd)
      OBVIOUS
  <2>2. IsFiniteSet(V)
    <3>1. V \subseteq versions[row.policy] /\ IsFiniteSet(versions[row.policy])
        BY <1>0, <2>1 DEF ReadInv, VersionsKnown, Closing
    <3> QED
        BY <3>1, FS_Subset
  <2>3. PICK f : f = [v \in V |-> LegsOf(row, v, periodEnd)]
      OBVIOUS
  <2>4. \A v \in V : IsFiniteSet(f[v])
      BY <1>1, <2>3
  <2>5. IsFiniteSet(UNION {f[v] : v \in V})
      BY <2>2, <2>3, <2>4, FiniteUnion
  <2>6. {f[v] : v \in V} = {LegsOf(row, v, periodEnd) : v \in Closing(row, periodEnd)}
      BY <2>1, <2>3
  <2> QED
      BY <2>5, <2>6
<1>3. PICK S : S = ClosedRows(periodEnd)
    OBVIOUS
<1>4. IsFiniteSet(S) /\ \A row \in S : row \in assignments
  <2>1. S \subseteq assignments
      BY <1>3 DEF ClosedRows
  <2> QED
      BY <2>1, AssignmentsFinite, FS_Subset
<1>5. PICK f : f = [row \in S |-> UNION {LegsOf(row, v, periodEnd) :
                                           v \in Closing(row, periodEnd)}]
    OBVIOUS
<1>6. \A row \in S : IsFiniteSet(f[row])
    BY <1>2, <1>4, <1>5
<1>7. IsFiniteSet(UNION {f[row] : row \in S})
    BY <1>4, <1>5, <1>6, FiniteUnion
<1>8. {f[row] : row \in S} =
         {UNION {LegsOf(row, v, periodEnd) : v \in Closing(row, periodEnd)} :
             row \in ClosedRows(periodEnd)}
    BY <1>3, <1>5
<1> QED
    BY <1>7, <1>8, RolloverIs

(* Where a leg comes from: a row and a version in force that close an      *)
(* account with a balance, and one of the two legs of their plan.          *)
LegFrom(e, row, v, periodEnd, balance) ==
    /\ row \in assignments /\ Covers(row, periodEnd)
    /\ v \in versions[row.policy] /\ IsEffectiveOn(v, versions[row.policy], periodEnd)
    /\ balance = BalanceAsOf(ledger, Account(row), periodEnd) /\ balance \in Int /\ balance > 0
    /\ e.account = <<row.employee, row.policy>> /\ e.version = v.no
    /\ e.source = <<"PERIOD_ROLLOVER", row.policy, row.employee, periodEnd, e.type>>
    /\ Carried(balance, v.terms) \in Nat /\ Carried(balance, v.terms) <= balance
    /\ Carried(balance, v.terms) <= IF v.terms.expires THEN 0 ELSE v.terms.carryover
    /\ ~ v.terms.expires => v.terms.carryover \in Nat
    /\ \/ e.type = "EXPIRATION" /\ e.amount = -balance /\ e.effective = periodEnd
       \/ /\ e.type = "CARRYOVER" /\ e.amount = Carried(balance, v.terms) /\ e.amount # 0
          /\ e.effective = periodEnd + 1

LEMMA LegIs ==
    ASSUME ReadInv, HasAmounts(ledger), NEW periodEnd \in Int, NEW e \in RolloverLegs(periodEnd)
    PROVE  \E row, v, balance : LegFrom(e, row, v, periodEnd, balance)
<1>1. PICK row \in assignments : \E v \in versions[row.policy] :
         /\ Covers(row, periodEnd) /\ IsEffectiveOn(v, versions[row.policy], periodEnd)
         /\ \E leg \in PlanOf(row, v, periodEnd) : e = LegOf(row, v, periodEnd, leg)
    BY LegsAre
<1>2. PICK v \in versions[row.policy] :
         /\ Covers(row, periodEnd) /\ IsEffectiveOn(v, versions[row.policy], periodEnd)
         /\ \E leg \in PlanOf(row, v, periodEnd) : e = LegOf(row, v, periodEnd, leg)
    BY <1>1
<1>3. PICK leg \in PlanOf(row, v, periodEnd) : e = LegOf(row, v, periodEnd, leg)
    BY <1>2
<1>4. PICK balance \in Int : balance = BalanceAsOf(ledger, Account(row), periodEnd)
    BY BalanceType
<1>5. leg \in Plan(balance, periodEnd, v.terms)
    BY <1>3, <1>4 DEF PlanOf
<1>6. v.terms \in DraftType /\ ValidDraft(v.terms)
    BY AudienceAssumption DEF ReadInv, AudienceInv, VersionsOK, RowsOK, Ranged, RowType
<1>7. PICK terms : terms = v.terms
    OBVIOUS
<1>8. /\ balance > 0 /\ Carried(balance, terms) \in Nat
      /\ Carried(balance, terms) <= balance
      /\ terms.expires => Carried(balance, terms) = 0
      /\ ~ terms.expires => terms.carryover \in Nat /\ Carried(balance, terms) <= terms.carryover
      /\ \/ leg = [type |-> "EXPIRATION", amount |-> -balance, effective |-> periodEnd]
         \/ /\ leg = [type |-> "CARRYOVER", amount |-> Carried(balance, terms),
                      effective |-> periodEnd + 1]
            /\ Carried(balance, terms) # 0
    BY <1>5, <1>6, <1>7, PlanIs
<1>9. /\ e.account = <<row.employee, row.policy>> /\ e.version = v.no
      /\ e.type = leg.type /\ e.amount = leg.amount /\ e.effective = leg.effective
      /\ e.source = <<"PERIOD_ROLLOVER", row.policy, row.employee, periodEnd, e.type>>
    BY <1>3 DEF LegOf, Account
<1>10. Carried(balance, terms) <= IF terms.expires THEN 0 ELSE terms.carryover
    BY <1>8
<1> QED
    BY <1>2, <1>4, <1>7, <1>8, <1>9, <1>10 DEF LegFrom

LEMMA LegsSound ==
    ASSUME ReadInv, HasAmounts(ledger), NEW periodEnd \in Int
    PROVE  Sound(RolloverLegs(periodEnd))
<1>1. ASSUME NEW e \in RolloverLegs(periodEnd) PROVE e.amount \in Int
  <2>1. PICK row, v, balance : LegFrom(e, row, v, periodEnd, balance)
      BY LegIs
  <2> QED
      BY <2>1 DEF LegFrom
<1>2. ASSUME NEW e \in RolloverLegs(periodEnd), NEW f \in RolloverLegs(periodEnd),
             e.source = f.source
      PROVE  e = f
  <2>1. PICK row \in assignments : \E v \in versions[row.policy] :
           /\ Covers(row, periodEnd) /\ IsEffectiveOn(v, versions[row.policy], periodEnd)
           /\ \E leg \in PlanOf(row, v, periodEnd) : e = LegOf(row, v, periodEnd, leg)
      BY LegsAre
  <2>2. PICK v \in versions[row.policy] :
           /\ Covers(row, periodEnd) /\ IsEffectiveOn(v, versions[row.policy], periodEnd)
           /\ \E leg \in PlanOf(row, v, periodEnd) : e = LegOf(row, v, periodEnd, leg)
      BY <2>1
  <2>3. PICK leg \in PlanOf(row, v, periodEnd) : e = LegOf(row, v, periodEnd, leg)
      BY <2>2
  <2>4. PICK row2 \in assignments : \E w \in versions[row2.policy] :
           /\ Covers(row2, periodEnd) /\ IsEffectiveOn(w, versions[row2.policy], periodEnd)
           /\ \E leg2 \in PlanOf(row2, w, periodEnd) : f = LegOf(row2, w, periodEnd, leg2)
      BY LegsAre
  <2>5. PICK w \in versions[row2.policy] :
           /\ Covers(row2, periodEnd) /\ IsEffectiveOn(w, versions[row2.policy], periodEnd)
           /\ \E leg2 \in PlanOf(row2, w, periodEnd) : f = LegOf(row2, w, periodEnd, leg2)
      BY <2>4
  <2>6. PICK leg2 \in PlanOf(row2, w, periodEnd) : f = LegOf(row2, w, periodEnd, leg2)
      BY <2>5
  <2>7. row.policy = row2.policy /\ row.employee = row2.employee /\ leg.type = leg2.type
      BY <1>2, <2>3, <2>6 DEF LegOf
  <2>8. row = row2
      BY <2>2, <2>5, <2>7, DateTellsRow DEF Account
  <2>9. row.policy \in Policies
      BY DEF ReadInv, AudienceInv, RowsOK, Ranged, RowType
  <2>10. v = w
      BY <2>2, <2>5, <2>8, <2>9, OneInForce
  <2>11. leg = leg2
    <3>1. PICK balance : balance = BalanceAsOf(ledger, Account(row), periodEnd)
        OBVIOUS
    <3>2. leg \in Plan(balance, periodEnd, v.terms) /\ leg2 \in Plan(balance, periodEnd, v.terms)
        BY <2>3, <2>6, <2>8, <2>10, <3>1 DEF PlanOf
    <3> QED
        BY <2>7, <3>2 DEF Plan
  <2> QED
      BY <2>3, <2>6, <2>8, <2>10, <2>11
<1> QED
    BY <1>1, <1>2, LegsFinite DEF Sound, HasAmounts


-----------------------------------------------------------------------------
(* The invariant holds initially and is kept. *)

LEMMA AdministersOnly == AccrualNext => [AudienceNext]_audienceVars
BY DEF AccrualNext, Administer, RunScheduled, PayrollProcessed, Rollover, TakeLeave, Posted

LEMMA JobsInitInv == AccrualInit => JobsInv
<1> SUFFICES ASSUME AccrualInit PROVE JobsInv
    OBVIOUS
<1>1. AudienceInv
    BY AudienceInitInv DEF AccrualInit
<1>2. VersionsKnown
    BY FS_EmptySet DEF AccrualInit, AudienceInit, VersionsKnown
<1>3. EntriesOK(ledger)
    BY FS_EmptySet DEF AccrualInit, EntriesOK, Sound, HasAmounts
<1>4. RemadeOK
    BY AccrualAssumption DEF AccrualInit, RemadeOK
<1> QED
    BY <1>1, <1>2, <1>3, <1>4 DEF JobsInv, ReadInv

LEMMA EntryStays ==
    ASSUME VersionsGrow, NEW x, EntryOK(x), OriginOK(x)
    PROVE  EntryOK(x)' /\ OriginOK(x)'
<1>1. x.account \in Employees \X Policies
    BY DEF EntryOK
<1>2. versions[x.account[2]] \subseteq versions'[x.account[2]]
    BY <1>1 DEF VersionsGrow
<1>3. EntryOK(x)'
    BY <1>2 DEF EntryOK
<1>4. ASSUME NEW rule, NEW method, NEW date, Chosen(x, rule, method, date)
      PROVE  Chosen(x, rule, method, date)'
    BY <1>2, <1>4 DEF Chosen, RuleId
<1>5. FromSchedule(x) => FromSchedule(x)'
    BY <1>4 DEF FromSchedule
<1>6. FromPayroll(x) => FromPayroll(x)'
    BY <1>4 DEF FromPayroll
<1> QED
    BY <1>3, <1>5, <1>6 DEF OriginOK, IsAccrual

LEMMA AdministerKeeps ==
    ASSUME JobsInv, [Administer]_accrualVars
    PROVE  JobsInv'
<1>1. [AudienceNext]_audienceVars /\ ledger' = ledger
    BY DEF Administer, accrualVars
<1>2. AudienceInv'
    BY <1>1, AudienceStep DEF JobsInv, ReadInv
<1>3. VersionsKnown' /\ VersionsGrow
    BY <1>1, VersionsStayKnown DEF JobsInv, ReadInv
<1>4. \A x \in ledger' : EntryOK(x)' /\ OriginOK(x)'
    BY <1>1, <1>3, EntryStays DEF JobsInv, EntriesOK
<1>5. Sound(ledger')
    BY <1>1 DEF JobsInv, EntriesOK
<1>6. RemadeOK'
  <2>1. CASE UNCHANGED remade
      BY <2>1 DEF JobsInv, RemadeOK
  <2>2. CASE Remade
    <3>1. PICK Gone : remade' = [k \in DOMAIN remade |-> IF k \in Gone THEN remade[k] + 1
                                                         ELSE remade[k]]
        BY <2>2 DEF Remade
    <3>2. DOMAIN remade = Employees \X Policies \X Dates
          /\ \A k \in DOMAIN remade : remade[k] \in Nat
        BY DEF JobsInv, RemadeOK
    <3>3. \A k \in DOMAIN remade : remade'[k] \in Nat /\ remade'[k] <= MaxRemakes
        BY <2>2, <3>1, <3>2 DEF Remade
    <3>4. \A k \in DOMAIN remade : remade'[k] \in 0 .. MaxRemakes
        BY <3>3, AccrualAssumption
    <3> QED
        BY <3>1, <3>2, <3>4 DEF RemadeOK
  <2> QED
      BY <2>1, <2>2 DEF Administer, accrualVars
<1> QED
    BY <1>2, <1>3, <1>4, <1>5, <1>6 DEF JobsInv, ReadInv, EntriesOK

LEMMA PostedKeeps ==
    ASSUME JobsInv, NEW entries, EntriesOK(entries), Posted(entries)
    PROVE  JobsInv'
<1>1. ledger' = entries /\ UNCHANGED audienceVars /\ remade' = remade
    BY DEF Posted
<1>2. AudienceInv'
    BY <1>1, AudienceStep DEF JobsInv, ReadInv
<1>3. VersionsKnown' /\ VersionsGrow
    BY <1>1, VersionsStayKnown DEF JobsInv, ReadInv
<1>4. \A x \in ledger' : EntryOK(x)' /\ OriginOK(x)'
    BY <1>1, <1>3, EntryStays DEF EntriesOK
<1>5. Sound(ledger')
    BY <1>1 DEF EntriesOK
<1>6. RemadeOK'
    BY <1>1 DEF JobsInv, RemadeOK
<1> QED
    BY <1>2, <1>3, <1>4, <1>5, <1>6 DEF JobsInv, ReadInv, EntriesOK

(* What each job adds to the ledger. *)
LEMMA ScheduledAdds ==
    ASSUME JobsInv, NEW asOf \in RunDates, RunScheduled(asOf)
    PROVE  /\ EntriesOK(ledger') /\ ledger \subseteq ledger' /\ UNCHANGED audienceVars /\ JobsInv'
           /\ \A y \in ledger' \ ledger : \E due \in ScheduledDues(asOf) : Yields(due, y)
<1>1. PICK dues : dues = ScheduledDues(asOf)
    OBVIOUS
<1>2. PICK rows \in RowRankings(dues), rules \in RuleRankings(dues) :
         Posted(AfterScheduled(ledger, asOf, rows, rules))
    BY <1>1 DEF RunScheduled
<1>3. PICK before : before = {pair \in dues \X dues : Precedes(pair[1], pair[2], rows, rules)}
    OBVIOUS
<1>4. PICK entries : entries = PostAll(ledger, dues, before)
    OBVIOUS
<1>5. Posted(entries)
    BY <1>1, <1>2, <1>3, <1>4 DEF AfterScheduled
<1>6. asOf \in Dates /\ ReadInv /\ EntriesOK(ledger)
    BY AccrualAssumption DEF JobsInv
<1>7. Ordered(dues, before)
    BY <1>1, <1>3, <1>6, ScheduledInOrder
<1>8. IsFiniteSet(dues) /\ \A due \in dues : DueFits(due)
    BY <1>1, <1>6, DuesFinite, ScheduledFits
<1>9. /\ ledger \subseteq entries /\ EntriesOK(entries)
      /\ \A y \in entries \ ledger : \E due \in dues : Yields(due, y)
    BY <1>4, <1>6, <1>7, <1>8, JobPosts
<1>10. ledger' = entries /\ UNCHANGED audienceVars /\ JobsInv'
    BY <1>5, <1>9, PostedKeeps DEF Posted
<1> QED
    BY <1>1, <1>9, <1>10

LEMMA PayrollAdds ==
    ASSUME JobsInv, NEW run \in DOMAIN PayrollEnd, NEW E \in SUBSET Employees,
           NEW worked \in [E -> WorkedMinutes], PayrollProcessed(run, worked)
    PROVE  /\ EntriesOK(ledger') /\ ledger \subseteq ledger' /\ UNCHANGED audienceVars /\ JobsInv'
           /\ \A y \in ledger' \ ledger : \E due \in PayrollDues(run, worked) : Yields(due, y)
<1>1. PICK dues : dues = PayrollDues(run, worked)
    OBVIOUS
<1>2. PICK entries : entries = PostAll(ledger, dues, dues \X dues)
    OBVIOUS
<1>3. Posted(entries)
    BY <1>1, <1>2 DEF PayrollProcessed
<1>4. ReadInv /\ EntriesOK(ledger)
    BY DEF JobsInv
<1>5. Ordered(dues, dues \X dues)
    BY DEF Ordered
<1>6. IsFiniteSet(dues) /\ \A due \in dues : DueFits(due)
    BY <1>1, <1>4, PayDuesFinite, PayrollFits
<1>7. /\ ledger \subseteq entries /\ EntriesOK(entries)
      /\ \A y \in entries \ ledger : \E due \in dues : Yields(due, y)
    BY <1>2, <1>4, <1>5, <1>6, JobPosts
<1>8. ledger' = entries /\ UNCHANGED audienceVars /\ JobsInv'
    BY <1>3, <1>7, PostedKeeps DEF Posted
<1> QED
    BY <1>1, <1>7, <1>8

LEMMA RolloverAdds ==
    ASSUME JobsInv, NEW asOf \in RolloverDates, Rollover(asOf)
    PROVE  \E periodEnd \in Int :
              /\ ledger' = Post(ledger, RolloverLegs(periodEnd)) /\ Sound(ledger')
              /\ UNCHANGED audienceVars /\ JobsInv'
<1>1. asOf \in Dates /\ ReadInv /\ EntriesOK(ledger) /\ Sound(ledger) /\ HasAmounts(ledger)
    BY AccrualAssumption DEF JobsInv, EntriesOK, Sound
<1>2. PICK periodEnd \in Int : /\ periodEnd = YearOf(asOf) * DaysPerYear - 1
                               /\ periodEnd + 1 <= asOf
  <2>1. PICK d \in Int : d = YearOf(asOf) * DaysPerYear /\ d <= asOf
      BY <1>1, Years
  <2>2. d - 1 \in Int /\ d - 1 + 1 <= asOf
      BY <2>1
  <2> QED
      BY <2>1, <2>2
<1>3. PICK legs, entries : legs = RolloverLegs(periodEnd) /\ entries = Post(ledger, legs)
    OBVIOUS
<1>4. Posted(entries)
    BY <1>2, <1>3 DEF Rollover
<1>5. Sound(legs)
    BY <1>1, <1>3, LegsSound
<1>6. Sound(entries) /\ \A y \in entries : y \in ledger \/ y \in legs
    BY <1>1, <1>3, <1>5, PostKeeps
<1>7. ASSUME NEW e \in legs PROVE EntryOK(e) /\ OriginOK(e)
  <2>1. PICK row, v, balance : LegFrom(e, row, v, periodEnd, balance)
      BY <1>1, <1>3, LegIs
  <2>2. /\ row \in RowType /\ row.employee \in Employees /\ row.policy \in Policies
        /\ row.from \in Dates /\ row.from <= periodEnd
      BY <1>1, <2>1 DEF LegFrom, Covers, ReadInv, AudienceInv, RowsOK, Ranged, RowType
  <2>3. periodEnd \in Dates /\ periodEnd + 1 \in Dates
      BY <1>1, <1>2, <2>2, CalendarAssumption DEF Dates
  <2>4. e.amount \in Int \ {0} /\ e.type \in {"EXPIRATION", "CARRYOVER"} /\ e.effective \in Dates
      BY <2>1, <2>3 DEF LegFrom
  <2>5. e.account \in Employees \X Policies
        /\ \E w \in versions[e.account[2]] : w.no = e.version
      BY <2>1, <2>2 DEF LegFrom
  <2> QED
      BY <2>4, <2>5 DEF EntryOK, EntryTypes, OriginOK, IsAccrual
<1>8. EntriesOK(entries)
    BY <1>1, <1>6, <1>7 DEF EntriesOK
<1> QED
    BY <1>3, <1>4, <1>6, <1>8, PostedKeeps DEF Posted

LEMMA LeaveAdds ==
    ASSUME JobsInv, NEW r \in Requests, NEW row \in assignments, NEW date \in LeaveDates,
           NEW minutes \in LeaveMinutes, TakeLeave(r, row, date, minutes)
    PROVE  /\ \A y \in ledger' \ ledger : y.type = "DEBIT"
           /\ UNCHANGED audienceVars /\ JobsInv'
<1>0. PICK v \in versions[row.policy] :
         Posted(Post(ledger, {[account |-> Account(row), type |-> "DEBIT", amount |-> -minutes,
                               effective |-> date, version |-> v.no,
                               source |-> <<"REQUEST", r>>]}))
    BY DEF TakeLeave
<1>1. PICK debit :
         /\ debit = [account |-> Account(row), type |-> "DEBIT", amount |-> -minutes,
                     effective |-> date, version |-> v.no, source |-> <<"REQUEST", r>>]
         /\ Posted(Post(ledger, {debit}))
    BY <1>0
<1>2. row.employee \in Employees /\ row.policy \in Policies
    BY DEF JobsInv, ReadInv, AudienceInv, RowsOK, Ranged, RowType
<1>3. date \in Dates /\ minutes \in Nat \ {0}
    BY AccrualAssumption
<1>4. EntryOK(debit) /\ OriginOK(debit) /\ debit.amount \in Int
  <2>1. debit.amount \in Int \ {0}
      BY <1>1, <1>3
  <2>2. /\ debit.account = <<row.employee, row.policy>> /\ debit.type = "DEBIT"
        /\ debit.effective = date /\ debit.version = v.no
      BY <1>1 DEF Account
  <2> QED
      BY <1>2, <1>3, <2>1, <2>2 DEF EntryOK, OriginOK, IsAccrual, EntryTypes
<1>5. PICK entries : entries = Post(ledger, {debit})
    OBVIOUS
<1>6. Sound({debit})
    BY <1>4, FS_Singleton DEF Sound, HasAmounts
<1>7. Sound(entries) /\ \A y \in entries : y \in ledger \/ y \in {debit}
    BY <1>5, <1>6, PostKeeps DEF JobsInv, EntriesOK
<1>8. EntriesOK(entries)
    BY <1>4, <1>7 DEF JobsInv, EntriesOK
<1>9. Posted(entries)
    BY <1>1, <1>5
<1>10. ledger' = entries /\ UNCHANGED audienceVars /\ JobsInv'
    BY <1>8, <1>9, PostedKeeps DEF Posted
<1>11. debit.type = "DEBIT"
    BY <1>1
<1>12. \A y \in entries : y \in ledger \/ y.type = "DEBIT"
    BY <1>7, <1>11
<1> QED
    BY <1>10, <1>12

LEMMA JobsStep == JobsInv /\ [AccrualNext]_accrualVars => JobsInv'
<1> SUFFICES ASSUME JobsInv, [AccrualNext]_accrualVars PROVE JobsInv'
    OBVIOUS
<1>1. CASE [Administer]_accrualVars
    BY <1>1, AdministerKeeps
<1>2. ASSUME NEW asOf \in RunDates, RunScheduled(asOf) PROVE JobsInv'
    BY <1>2, ScheduledAdds
<1>3. ASSUME NEW run \in DOMAIN PayrollEnd, NEW E \in SUBSET Employees,
             NEW worked \in [E -> WorkedMinutes], PayrollProcessed(run, worked)
      PROVE  JobsInv'
    BY <1>3, PayrollAdds
<1>4. ASSUME NEW asOf \in RolloverDates, Rollover(asOf) PROVE JobsInv'
    BY <1>4, RolloverAdds
<1>5. ASSUME NEW r \in Requests, NEW row \in assignments, NEW date \in LeaveDates,
             NEW minutes \in LeaveMinutes, TakeLeave(r, row, date, minutes)
      PROVE  JobsInv'
    BY <1>5, LeaveAdds
<1> QED
    BY <1>1, <1>2, <1>3, <1>4, <1>5 DEF AccrualNext

LEMMA JobsInvariant == AccrualSpec => []JobsInv
BY JobsInitInv, JobsStep, PTL DEF AccrualSpec


-----------------------------------------------------------------------------
(* Theorems. *)

(* Whatever the lengths of the months, the anchor of the pay periods and   *)
(* the assignments administrators make: every day of an assignment is in   *)
(* exactly one of the periods that iter_periods visits for it.             *)
THEOREM PeriodsAlwaysTile == AccrualSpec => []PeriodsTile
<1>1. JobsInv => PeriodsTile
  <2>1. SUFFICES ASSUME JobsInv, NEW row \in assignments, NEW schedule \in Schedules
                 PROVE  LET visited == IterPeriods(row.from, Min({row.to, LastDate}), schedule)
                        IN  \A date \in Days(row) : \E p \in visited :
                                {q \in visited : date \in q.start .. q.end} = {p}
      BY DEF PeriodsTile
  <2>2. row \in RowType
      BY <2>1 DEF JobsInv, ReadInv, AudienceInv, RowsOK, Ranged
  <2> QED
      BY <2>2, RowIsTiled
<1> QED
    BY <1>1, JobsInvariant, PTL

(* On every day of an assignment completed_tenure_months counts the        *)
(* anniversaries passed, those of a hire at the end of a long month too.   *)
THEOREM TenureAlwaysCountsMonths == AccrualSpec => []TenureCountsMonths
<1>1. JobsInv => TenureCountsMonths
  <2>1. SUFFICES ASSUME JobsInv, NEW row \in assignments, NEW date \in Days(row)
                 PROVE  CompletedTenureMonths(Hired[row.employee], date) =
                            Cardinality({m \in MonthStarts :
                                m > Hired[row.employee]
                                /\ Anniversary(Hired[row.employee], m) <= date})
      BY DEF TenureCountsMonths
  <2>2. row \in RowType
      BY <2>1 DEF JobsInv, ReadInv, AudienceInv, RowsOK, Ranged
  <2>3. row.from \in Dates /\ row.to \in Int /\ Hired[row.employee] \in Dates /\ LastDate \in Int
      BY <2>2, DateTypes, AccrualAssumption, CalendarAssumption DEF RowType
  <2>4. PICK through \in Int : through = Min({row.to, LastDate}) /\ through <= LastDate
      BY <2>3, MinOfTwo
  <2>5. date \in row.from .. through
      BY <2>1, <2>4 DEF Days
  <2>6. date \in Dates
      BY <2>3, <2>4, <2>5 DEF Dates
  <2> QED
      BY <2>3, <2>6, TenureIs
<1> QED
    BY <1>1, JobsInvariant, PTL

(* The jobs write entries of their shapes, with an amount and a version    *)
(* that exists, and no two of one source.                                  *)
THEOREM JobsWriteTypedEntries == AccrualSpec => []AccrualTypeOK
<1>1. JobsInv => AccrualTypeOK
    BY DEF JobsInv, EntriesOK, EntryOK, Sound, RemadeOK, AccrualTypeOK
<1> QED
    BY <1>1, JobsInvariant, PTL

(* The rule seniority selects has one tier. *)
LEMMA SelectedTier ==
    ASSUME ReadInv, NEW p \in Policies, NEW v \in versions[p], NEW method, NEW tenure,
           NEW i \in DOMAIN v.terms.rules, NEW j \in DOMAIN v.terms.rules,
           IsSelected(i, v.terms.rules, method, tenure), IsSelected(j, v.terms.rules, method, tenure)
    PROVE  v.terms.rules[i].tier = v.terms.rules[j].tier
<1>1. v.terms \in DraftType
    BY AudienceAssumption DEF ReadInv, AudienceInv, VersionsOK
<1>2. PICK rules \in Seq(RuleType) : rules = v.terms.rules
    BY <1>1 DEF DraftType
<1>3. rules[i] \in RuleType /\ rules[j] \in RuleType
    BY <1>2
<1>4. rules[i].tier \in Nat /\ rules[j].tier \in Nat
    BY <1>3 DEF RuleType
<1>5. rules[i].tier <= rules[j].tier /\ rules[j].tier <= rules[i].tier
    BY <1>2 DEF IsSelected
<1> QED
    BY <1>2, <1>4, <1>5

(* Seniority chooses one rule, and so one key, of a version and a date. *)
LEMMA ChosenOnce ==
    ASSUME ReadInv, NEW x, NEW y, x.account = y.account, x.account[2] \in Policies,
           x.version = y.version, NEW rule, NEW other, NEW method, NEW date,
           Chosen(x, rule, method, date), Chosen(y, other, method, date)
    PROVE  rule = other
<1>1. PICK v \in versions[x.account[2]] :
         /\ v.no = x.version
         /\ \E i \in DOMAIN v.terms.rules :
               /\ rule = RuleId(x.account[2], v, i)
               /\ IsSelected(i, v.terms.rules, method,
                             CompletedTenureMonths(Hired[x.account[1]], date))
    BY DEF Chosen
<1>2. PICK w \in versions[x.account[2]] :
         /\ w.no = x.version
         /\ \E i \in DOMAIN w.terms.rules :
               /\ other = RuleId(x.account[2], w, i)
               /\ IsSelected(i, w.terms.rules, method,
                             CompletedTenureMonths(Hired[x.account[1]], date))
    BY DEF Chosen
<1>3. v = w
    BY <1>1, <1>2 DEF ReadInv, VersionsKnown
<1>4. PICK tenure : tenure = CompletedTenureMonths(Hired[x.account[1]], date)
    OBVIOUS
<1>5. PICK i \in DOMAIN v.terms.rules :
         rule = RuleId(x.account[2], v, i) /\ IsSelected(i, v.terms.rules, method, tenure)
    BY <1>1, <1>4
<1>6. PICK j \in DOMAIN v.terms.rules :
         other = RuleId(x.account[2], v, j) /\ IsSelected(j, v.terms.rules, method, tenure)
    BY <1>2, <1>3, <1>4
<1>7. v.terms.rules[i].tier = v.terms.rules[j].tier
    BY <1>5, <1>6, SelectedTier
<1> QED
    BY <1>5, <1>6, <1>7 DEF RuleId

(* Under one version a period of an assignment, or a payroll run, is       *)
(* credited once: seniority selects one rule by a date the period or the   *)
(* run fixes, so that every job that earns it posts under the same key.    *)
THEOREM OneCreditAlways == AccrualSpec => []OneCreditPerSlice
<1>1. JobsInv => OneCreditPerSlice
  <2>1. SUFFICES ASSUME JobsInv, NEW x \in ledger, NEW y \in ledger, IsAccrual(x), IsAccrual(y),
                        x.source[1] = y.source[1], Slice(x) = Slice(y), x.version = y.version
                 PROVE  x = y
      BY DEF OneCreditPerSlice
  <2>2. /\ FromSchedule(x) \/ FromPayroll(x)
        /\ FromSchedule(y) \/ FromPayroll(y)
        /\ x.account \in Employees \X Policies /\ y.account \in Employees \X Policies
      BY <2>1 DEF JobsInv, EntriesOK, EntryOK, OriginOK
  <2>3. x.source = y.source
    <3>1. CASE FromSchedule(x) /\ FromSchedule(y)
      <4>1. PICK id, rule, start :
               /\ x.source = <<"SCHEDULED_ACCRUAL", id, rule, start>>
               /\ id[1] = x.account[1] /\ id[2] = x.account[2]
               /\ Chosen(x, rule, "TIME", start)
          BY <3>1 DEF FromSchedule
      <4>2. PICK id2, other, start2 :
               /\ y.source = <<"SCHEDULED_ACCRUAL", id2, other, start2>>
               /\ id2[1] = y.account[1] /\ id2[2] = y.account[2]
               /\ Chosen(y, other, "TIME", start2)
          BY <3>1 DEF FromSchedule
      <4>3. id = id2 /\ start = start2
          BY <2>1, <4>1, <4>2 DEF Slice, IsScheduled
      <4>4. x.account = y.account
          BY <2>2, <4>1, <4>2, <4>3
      <4>5. rule = other
          BY <2>1, <2>2, <4>1, <4>2, <4>3, <4>4, ChosenOnce DEF JobsInv
      <4> QED
          BY <4>1, <4>2, <4>3, <4>5
    <3>2. CASE FromPayroll(x) /\ FromPayroll(y)
      <4>1. PICK run, rule :
               /\ x.source = <<"PAYROLL_ACCRUAL", run, x.account[1], rule>>
               /\ Chosen(x, rule, "HOURS_WORKED", PayrollEnd[run])
          BY <3>2 DEF FromPayroll
      <4>2. PICK run2, other :
               /\ y.source = <<"PAYROLL_ACCRUAL", run2, y.account[1], other>>
               /\ Chosen(y, other, "HOURS_WORKED", PayrollEnd[run2])
          BY <3>2 DEF FromPayroll
      <4>3. run = run2 /\ x.account = y.account
          BY <2>1, <4>1, <4>2 DEF Slice, IsScheduled
      <4>4. rule = other
          BY <2>1, <2>2, <4>1, <4>2, <4>3, ChosenOnce DEF JobsInv
      <4> QED
          BY <4>1, <4>2, <4>3, <4>4
    <3> QED
        BY <2>1, <2>2, <3>1, <3>2 DEF FromSchedule, FromPayroll
  <2> QED
      BY <2>1, <2>3 DEF JobsInv, EntriesOK, Sound
<1> QED
    BY <1>1, JobsInvariant, PTL


LEMMA VersionIs ==
    ASSUME ReadInv, NEW x, x.account[2] \in Policies,
           NEW v \in versions[x.account[2]], v.no = x.version
    PROVE  VersionOf(x) = v
BY DEF ReadInv, VersionsKnown, VersionOf

(* Where a scheduled credit falls. *)
Falls(x) ==
    /\ Hired[x.account[1]] <= x.effective
    /\ x.account[1] \in EligibleOn(assignments, x.account[2], x.effective)
    /\ IsEffectiveOn(VersionOf(x), versions[x.account[2]], x.effective)

(* A scheduled credit falls on a date its employee is eligible for under   *)
(* an assignment of the moment, and comes from the version in force then,  *)
(* whatever was backdated between the runs.                                *)
THEOREM CreditsAlwaysFallWhereEarned == AccrualSpec => CreditsFallWhereEarned
<1> DEFINE Step == \A x \in ledger' \ ledger : IsAccrual(x) /\ IsScheduled(x) => Falls(x)
<1>1. ASSUME JobsInv, [AccrualNext]_accrualVars PROVE Step
  <2>1. CASE UNCHANGED ledger
      BY <2>1
  <2>2. ASSUME NEW asOf \in RunDates, RunScheduled(asOf) PROVE Step
    <3>1. SUFFICES ASSUME NEW x \in ledger' \ ledger, IsAccrual(x) PROVE Falls(x)
        OBVIOUS
    <3>2. PICK due \in ScheduledDues(asOf) : Yields(due, x)
        BY <1>1, <2>2, <3>1, ScheduledAdds
    <3>3. asOf \in Dates /\ ReadInv
        BY <1>1, AccrualAssumption DEF JobsInv
    <3>4. /\ DueFits(due) /\ Hired[due.account[1]] <= due.effective
          /\ due.account[1] \in EligibleOn(assignments, due.account[2], due.effective)
        BY <3>3, ScheduledFits
    <3>5. x = Credit(due)
        BY <3>1, <3>2, <3>4, YieldIs
    <3>6. x.account = due.account /\ x.effective = due.effective /\ x.version = due.version
        BY <3>5 DEF Credit, Entry
    <3>7. PICK v \in versions[x.account[2]] :
             v.no = x.version /\ IsEffectiveOn(v, versions[x.account[2]], x.effective)
        BY <3>4, <3>6 DEF DueFits
    <3>8. x.account[2] \in Policies
        BY <3>4, <3>6 DEF DueFits
    <3>9. VersionOf(x) = v
        BY <3>3, <3>7, <3>8, VersionIs
    <3> QED
        BY <3>4, <3>6, <3>7, <3>9 DEF Falls
  <2>3. ASSUME NEW run \in DOMAIN PayrollEnd, NEW E \in SUBSET Employees,
               NEW worked \in [E -> WorkedMinutes], PayrollProcessed(run, worked)
        PROVE  Step
    <3>1. SUFFICES ASSUME NEW x \in ledger' \ ledger, IsAccrual(x) PROVE ~ IsScheduled(x)
        OBVIOUS
    <3>2. PICK due \in PayrollDues(run, worked) : Yields(due, x)
        BY <1>1, <2>3, <3>1, PayrollAdds
    <3>3. DueFits(due) /\ FromPayroll(due)
        BY <1>1, <3>2, PayrollFits DEF JobsInv
    <3>4. x = Credit(due)
        BY <3>1, <3>2, <3>3, YieldIs
    <3>5. x.source = due.source
        BY <3>4 DEF Credit, Entry
    <3> QED
        BY <3>3, <3>5 DEF FromPayroll, IsScheduled
  <2>4. ASSUME NEW asOf \in RolloverDates, Rollover(asOf) PROVE Step
    <3>1. PICK periodEnd \in Int : ledger' = Post(ledger, RolloverLegs(periodEnd))
        BY <1>1, <2>4, RolloverAdds
    <3>2. SUFFICES ASSUME NEW x \in ledger' \ ledger PROVE ~ IsAccrual(x)
        OBVIOUS
    <3>3. x \in RolloverLegs(periodEnd)
        BY <3>1, <3>2 DEF Post
    <3>4. PICK row, v, balance : LegFrom(x, row, v, periodEnd, balance)
        BY <1>1, <3>3, LegIs DEF JobsInv, EntriesOK, Sound
    <3> QED
        BY <3>4 DEF LegFrom, IsAccrual
  <2>5. ASSUME NEW r \in Requests, NEW row \in assignments, NEW date \in LeaveDates,
               NEW minutes \in LeaveMinutes, TakeLeave(r, row, date, minutes)
        PROVE  Step
    <3>1. \A y \in ledger' \ ledger : y.type = "DEBIT"
        BY <1>1, <2>5, LeaveAdds
    <3> QED
        BY <3>1 DEF IsAccrual
  <2> QED
      BY <1>1, <2>1, <2>2, <2>3, <2>4, <2>5 DEF AccrualNext, Administer, accrualVars
<1>2. JobsInv /\ [AccrualNext]_accrualVars => [Step]_accrualVars
    BY <1>1
<1>3. CreditsFallWhereEarned <=> [][Step]_accrualVars
    BY DEF CreditsFallWhereEarned, Falls
<1> QED
    BY <1>2, <1>3, JobsInvariant, PTL DEF AccrualSpec


(* One row and one version close an account at the end of a year. *)
LEMMA OneClosing ==
    ASSUME ReadInv, NEW periodEnd \in Int, NEW x, NEW row, NEW v, NEW balance,
           LegFrom(x, row, v, periodEnd, balance), NEW y, NEW other, NEW w, NEW rest,
           LegFrom(y, other, w, periodEnd, rest), x.account = y.account
    PROVE  other = row /\ w = v /\ rest = balance
<1>1. row.employee = other.employee /\ row.policy = other.policy
    BY DEF LegFrom
<1>2. other = row
    BY <1>1, DateTellsRow DEF LegFrom, Account
<1>3. row.policy \in Policies
    BY DEF LegFrom, ReadInv, AudienceInv, RowsOK, Ranged, RowType
<1>4. w = v
    BY <1>2, <1>3, OneInForce DEF LegFrom
<1> QED
    BY <1>2, <1>4 DEF LegFrom

(* The last day of an account that was closed. *)
LEMMA ClosedToZero ==
    ASSUME NEW entries, HasAmounts(entries), NEW after, HasAmounts(after), NEW x \in after \ entries,
           entries \subseteq after, NEW account, NEW date \in Int, x.account = account, x.effective = date,
           x.amount = - BalanceAsOf(entries, account, date),
           \A y \in after \ entries : y.account = account /\ y.effective <= date => y = x
    PROVE  BalanceAsOf(after, account, date) = 0
<1>1. PICK old : old = EntriesOf({y \in entries : y.effective <= date}, account)
    OBVIOUS
<1>2. PICK new : new = EntriesOf({y \in after : y.effective <= date}, account)
    OBVIOUS
<1>3. HasAmounts(old) /\ HasAmounts({x}) /\ x \notin old
  <2>1. HasAmounts(old)
      BY <1>1, BalanceType
  <2>2. x.amount \in Int
      BY DEF HasAmounts
  <2>3. HasAmounts({x})
      BY <2>2, FS_Singleton DEF HasAmounts
  <2> QED
      BY <1>1, <2>1, <2>3 DEF EntriesOf
<1>4. new = old \cup {x}
    BY <1>1, <1>2 DEF EntriesOf
<1>5. SumAmounts(new) = SumAmounts(old) + SumAmounts({x})
    BY <1>3, <1>4, SumUnion
<1>6. PICK b \in Int : b = SumAmounts(old)
    BY <1>3, SumType
<1>7. SumAmounts({x}) = x.amount
    BY SumSingleton DEF HasAmounts
<1>8. BalanceAsOf(entries, account, date) = b /\ BalanceAsOf(after, account, date) = SumAmounts(new)
    BY <1>1, <1>2, <1>6 DEF BalanceAsOf, Balance
<1>9. SumAmounts(new) = b + (-b)
    BY <1>5, <1>6, <1>7, <1>8
<1> QED
    BY <1>8, <1>9

Settles(x) ==
    LET carried == SumAmounts({y \in ledger' \ ledger :
                                 y.type = "CARRYOVER" /\ y.account = x.account})
    IN  /\ BalanceAsOf(ledger', x.account, x.effective) = 0
        /\ carried <= -x.amount
        /\ carried <= (IF VersionOf(x).terms.expires
                       THEN 0 ELSE VersionOf(x).terms.carryover)

LEMMA RolloverStep ==
    ASSUME JobsInv, NEW asOf \in RolloverDates, Rollover(asOf),
           NEW x \in ledger' \ ledger, x.type = "EXPIRATION"
    PROVE  Settles(x)
<1>1. PICK periodEnd \in Int :
         ledger' = Post(ledger, RolloverLegs(periodEnd)) /\ Sound(ledger')
    BY RolloverAdds
<1>2. PICK after : after = ledger' /\ Sound(after) /\ HasAmounts(after)
    BY <1>1 DEF Sound
<1>3. ReadInv /\ Sound(ledger) /\ HasAmounts(ledger)
    BY DEF JobsInv, EntriesOK, Sound
<1>4. /\ ledger \subseteq after
      /\ \A y \in after \ ledger : \E row, v, balance : LegFrom(y, row, v, periodEnd, balance)
  <2>1. ledger \subseteq after /\ \A y \in after \ ledger : y \in RolloverLegs(periodEnd)
      BY <1>1, <1>2 DEF Post
  <2> QED
      BY <1>3, <2>1, LegIs
<1>5. PICK row, v, balance : LegFrom(x, row, v, periodEnd, balance)
    BY <1>2, <1>4
<1>6. ASSUME NEW y \in after \ ledger, y.account = x.account
      PROVE  LegFrom(y, row, v, periodEnd, balance)
  <2>1. PICK other, w, rest : LegFrom(y, other, w, periodEnd, rest)
      BY <1>4
  <2>2. other = row /\ w = v /\ rest = balance
      BY <1>3, <1>5, <1>6, <2>1, OneClosing
  <2> QED
      BY <2>1, <2>2
<1>7. \A y, z \in after \ ledger :
         y.account = x.account /\ z.account = x.account /\ y.type = z.type => y = z
    BY <1>2, <1>6 DEF LegFrom, Sound
<1>8. /\ balance \in Int /\ x.amount = -balance /\ x.effective = periodEnd
      /\ balance = BalanceAsOf(ledger, x.account, periodEnd)
    BY <1>5 DEF LegFrom, Account
<1>9. BalanceAsOf(after, x.account, periodEnd) = 0
  <2>1. \A y \in after \ ledger : y.account = x.account /\ y.effective <= periodEnd => y = x
    <3>1. ASSUME NEW y \in after \ ledger, y.account = x.account, y.effective <= periodEnd
          PROVE  y.type = "EXPIRATION"
      <4>1. LegFrom(y, row, v, periodEnd, balance)
          BY <1>6, <3>1
      <4>2. ~ (periodEnd + 1 <= periodEnd)
          OBVIOUS
      <4> QED
          BY <3>1, <4>1, <4>2 DEF LegFrom
    <3> QED
        BY <1>2, <1>7, <3>1
  <2>2. x \in after \ ledger
      BY <1>2
  <2>3. x.amount = - BalanceAsOf(ledger, x.account, periodEnd)
      BY <1>8
  <2> QED
      BY <1>2, <1>3, <1>4, <1>8, <2>1, <2>2, <2>3, ClosedToZero
<1>10. PICK carry : carry = {y \in after \ ledger : y.type = "CARRYOVER" /\ y.account = x.account}
    OBVIOUS
<1>11. PICK most \in Nat : /\ most = Carried(balance, v.terms) /\ most <= balance
                           /\ most <= IF v.terms.expires THEN 0 ELSE v.terms.carryover
    BY <1>5 DEF LegFrom
<1>12. SumAmounts(carry) \in {0, most}
  <2>1. CASE carry = {}
      BY <2>1, SumEmpty
  <2>2. CASE carry # {}
    <3>1. PICK y \in carry : TRUE
        BY <2>2
    <3>2. carry = {y}
        BY <1>7, <1>10, <3>1
    <3>3. y.amount = most
      <4>1. LegFrom(y, row, v, periodEnd, balance) /\ y.type = "CARRYOVER"
          BY <1>6, <1>10, <3>1
      <4> QED
          BY <1>11, <4>1 DEF LegFrom
    <3>4. SumAmounts({y}) = y.amount
        BY <3>3, SumSingleton
    <3> QED
        BY <3>2, <3>3, <3>4
  <2> QED
      BY <2>1, <2>2
<1>13. VersionOf(x) = v
  <2>1. /\ x.account[2] = row.policy /\ v \in versions[row.policy] /\ x.version = v.no
        /\ row.policy \in Policies
      BY <1>3, <1>5 DEF LegFrom, ReadInv, AudienceInv, RowsOK, Ranged, RowType
  <2> QED
      BY <1>3, <2>1, VersionIs
<1>14. 0 <= IF v.terms.expires THEN 0 ELSE v.terms.carryover
    BY <1>5 DEF LegFrom
<1>15. /\ SumAmounts(carry) <= -x.amount
       /\ SumAmounts(carry) <= IF v.terms.expires THEN 0 ELSE v.terms.carryover
  <2>1. balance > 0 /\ -x.amount = balance
      BY <1>5, <1>8 DEF LegFrom
  <2> QED
      BY <1>8, <1>11, <1>12, <1>14, <2>1
<1> QED
    BY <1>2, <1>8, <1>9, <1>10, <1>13, <1>15 DEF Settles

(* A rollover that closes an account's year leaves nothing on its last     *)
(* day, and carries over no more than it took and no more than the version *)
(* in force then allows, whenever it runs and whatever was posted since.   *)
THEOREM RolloverAlwaysSettles == AccrualSpec => RolloverSettles
<1> DEFINE Step == \A x \in ledger' \ ledger : x.type = "EXPIRATION" => Settles(x)
<1>1. ASSUME JobsInv, [AccrualNext]_accrualVars PROVE Step
  <2>1. CASE UNCHANGED ledger
      BY <2>1
  <2>2. ASSUME NEW asOf \in RunDates, RunScheduled(asOf) PROVE Step
    <3>1. SUFFICES ASSUME NEW x \in ledger' \ ledger PROVE x.type # "EXPIRATION"
        OBVIOUS
    <3>2. PICK due \in ScheduledDues(asOf) : Yields(due, x)
        BY <1>1, <2>2, <3>1, ScheduledAdds
    <3>3. DueFits(due)
        BY <1>1, <3>2, ScheduledFits, AccrualAssumption DEF JobsInv
    <3> QED
        BY <3>2, <3>3, YieldIs
  <2>3. ASSUME NEW run \in DOMAIN PayrollEnd, NEW E \in SUBSET Employees,
               NEW worked \in [E -> WorkedMinutes], PayrollProcessed(run, worked)
        PROVE  Step
    <3>1. SUFFICES ASSUME NEW x \in ledger' \ ledger PROVE x.type # "EXPIRATION"
        OBVIOUS
    <3>2. PICK due \in PayrollDues(run, worked) : Yields(due, x)
        BY <1>1, <2>3, <3>1, PayrollAdds
    <3>3. DueFits(due)
        BY <1>1, <3>2, PayrollFits DEF JobsInv
    <3> QED
        BY <3>2, <3>3, YieldIs
  <2>4. ASSUME NEW asOf \in RolloverDates, Rollover(asOf) PROVE Step
      BY <1>1, <2>4, RolloverStep
  <2>5. ASSUME NEW r \in Requests, NEW row \in assignments, NEW date \in LeaveDates,
               NEW minutes \in LeaveMinutes, TakeLeave(r, row, date, minutes)
        PROVE  Step
      BY <1>1, <2>5, LeaveAdds
  <2> QED
      BY <1>1, <2>1, <2>2, <2>3, <2>4, <2>5 DEF AccrualNext, Administer, accrualVars
<1>2. JobsInv /\ [AccrualNext]_accrualVars => [Step]_accrualVars
    BY <1>1
<1>3. RolloverSettles <=> [][Step]_accrualVars
    BY DEF RolloverSettles, Settles
<1> QED
    BY <1>2, <1>3, JobsInvariant, PTL DEF AccrualSpec


-----------------------------------------------------------------------------
(* A late run catches up. *)

(* A later run finds everything due that an earlier one did. *)
LEMMA DuesGrow ==
    ASSUME ReadInv, NEW early \in Dates, NEW late \in Dates, early <= late,
           NEW due \in ScheduledDues(early)
    PROVE  due \in ScheduledDues(late)
<1>1. PICK row \in assignments : \E v \in versions[row.policy] : \E i \in TimeRules(v) :
         \E p \in Visited(row, v, i, early) :
             /\ row.from <= early /\ Earned(row, v, i, p, early) /\ due = DueFor(row, v, i, p)
    BY DuesAre
<1>2. PICK v \in versions[row.policy] : \E i \in TimeRules(v) :
         \E p \in Visited(row, v, i, early) :
             /\ row.from <= early /\ Earned(row, v, i, p, early) /\ due = DueFor(row, v, i, p)
    BY <1>1
<1>3. PICK i \in TimeRules(v) : \E p \in Visited(row, v, i, early) :
         /\ row.from <= early /\ Earned(row, v, i, p, early) /\ due = DueFor(row, v, i, p)
    BY <1>2
<1>4. PICK p \in Visited(row, v, i, early) :
         /\ row.from <= early /\ Earned(row, v, i, p, early) /\ due = DueFor(row, v, i, p)
    BY <1>3
<1>5. /\ row \in RowType /\ First(row, v) \in Dates /\ row.from \in Int /\ row.to \in Int
      /\ early \in Int /\ late \in Int
    BY <1>4, SpanOf, DateTypes DEF RowType
<1>6. PICK one \in Int, two \in Int :
         one = Through(row, early) /\ two = Through(row, late) /\ one <= two
  <2>1. PICK a \in Int, b \in Int, t \in Int : a = early /\ b = late /\ t = row.to /\ a <= b
      BY <1>5
  <2>2. Through(row, early) = Min({a, t}) /\ Through(row, late) = Min({b, t})
      BY <2>1 DEF Through
  <2>3. Min({a, t}) \in {a, t} /\ Min({a, t}) <= a /\ Min({a, t}) <= t
      BY MinOfTwo
  <2>4. Min({b, t}) \in {b, t}
      BY MinOfTwo
  <2>5. Min({a, t}) \in Int /\ Min({b, t}) \in Int
      BY <2>3, <2>4
  <2>6. Min({a, t}) <= Min({b, t})
      BY <2>1, <2>3, <2>4, <2>5
  <2> QED
      BY <2>2, <2>5, <2>6
<1>7. row.from <= late
    BY <1>4, <1>5
<1>8. p \in Visited(row, v, i, late)
  <2>0. PICK first \in Int : first = First(row, v)
      BY <1>5, DateTypes
  <2>1. PICK schedule : first = First(row, v) /\ schedule = v.terms.rules[i].frequency
      BY <2>0
  <2>2. PICK d \in {first} \cup (first .. one) : p = Containing(d, schedule) /\ p.start <= one
      BY <1>6, <2>1 DEF Visited, IterPeriods
  <2>3. p.start \in Int
      BY <1>4, PeriodIs
  <2>4. d \in {first} \cup (first .. two) /\ p.start <= two
      BY <1>6, <2>2, <2>3
  <2> QED
      BY <1>6, <2>1, <2>2, <2>4 DEF Visited, IterPeriods
<1>9. Earned(row, v, i, p, late)
  <2>1. FallsOn(row, v, i, p) \in Int
      BY <1>4, DueIs, DateTypes
  <2> QED
      BY <1>4, <1>6, <2>1 DEF Earned, TierDate
<1> QED
    BY <1>4, <1>7, <1>8, <1>9, DuesAre

(* The rule's identifier in its key names the version. *)
LEMMA KeyTellsDue ==
    ASSUME ReadInv, NEW asOf \in Dates,
           NEW x \in ScheduledDues(asOf), NEW y \in ScheduledDues(asOf), x.source = y.source
    PROVE  x = y
<1>1. ASSUME NEW z \in ScheduledDues(asOf) PROVE z.version = z.source[3][2]
    BY DuesAre DEF DueFor, RuleId
<1>2. x.version = y.version
    BY <1>1
<1> QED
    BY <1>2, SourceTellsDue

LEMMA RankingsExist ==
    ASSUME NEW S, IsFiniteSet(S)
    PROVE  \E r : r \in Rankings(S)
<1>1. ExistsBijection(1 .. Cardinality(S), S)
    BY FS_CardinalityType
<1>2. ExistsBijection(S, 1 .. Cardinality(S))
    BY <1>1, Fun_ExistsBijSymmetric
<1> QED
    BY <1>2 DEF ExistsBijection, Bijection, Rankings

LEMMA ScheduledRankings ==
    ASSUME ReadInv, NEW asOf \in Dates
    PROVE  /\ \E r : r \in RowRankings(ScheduledDues(asOf))
           /\ \E r : r \in RuleRankings(ScheduledDues(asOf))
<1>1. PICK dues : dues = ScheduledDues(asOf) /\ IsFiniteSet(dues)
    BY DuesFinite
<1>2. PICK f, g : f = [d \in dues |-> d.source[2]] /\ g = [d \in dues |-> d.source[3]]
    OBVIOUS
<1>3. IsFiniteSet({f[d] : d \in dues}) /\ IsFiniteSet({g[d] : d \in dues})
    BY <1>1, <1>2, FiniteImage
<1>4. {d.source[2] : d \in dues} = {f[d] : d \in dues}
      /\ {d.source[3] : d \in dues} = {g[d] : d \in dues}
    BY <1>2
<1> QED
    BY <1>1, <1>3, <1>4, RankingsExist DEF RowRankings, RuleRankings

(* What dues do to the accounts without a cap, in whatever order.          *)
UncappedOf(entries) == {x \in entries : Uncapped(x.account[2])}

FreeCredit(y, entries, dues) ==
    \E due \in dues : /\ Uncapped(due.account[2]) /\ ~ IsPosted(entries, due.source)
                      /\ y = Credit(due)

LEMMA UncappedPosting ==
    ASSUME NEW entries, Sound(entries), NEW dues, IsFiniteSet(dues),
           \A due \in dues : DueFits(due),
           \A d, e \in dues : d.source = e.source => d = e,
           NEW before, Ordered(dues, before), NEW after, after = PostAll(entries, dues, before)
    PROVE  /\ Sound(after)
           /\ \A due \in dues : IsPosted(after, due.source)
           /\ \A due \in dues : Postable(due)
           /\ entries \subseteq after
           /\ \A y \in after \ entries : \E due \in dues : Yields(due, y)
           /\ \A y : y \in UncappedOf(after) <=>
                 y \in UncappedOf(entries) \/ FreeCredit(y, entries, dues)
<1>1. \A due \in dues : Postable(due)
    BY DEF DueFits
<1>2. /\ entries \subseteq after /\ Sound(after)
      /\ \A y \in after \ entries : /\ ~ IsPosted(entries, y.source)
                                    /\ \E due \in dues : Yields(due, y)
      /\ \A due \in dues : IsPosted(after, due.source)
    BY <1>1, PostAllKeeps
<1>3. ASSUME NEW y \in UncappedOf(after), y \notin UncappedOf(entries)
      PROVE  FreeCredit(y, entries, dues)
  <2>1. y \in after \ entries /\ Uncapped(y.account[2])
      BY <1>3 DEF UncappedOf
  <2>2. PICK due \in dues : Yields(due, y)
      BY <1>2, <2>1
  <2>3. y.account = due.account
      BY <2>2, YieldIs
  <2>4. due.cap = None
      BY <2>1, <2>3 DEF DueFits, Uncapped
  <2>5. y = Credit(due)
      BY <2>2, <2>4 DEF Yields
  <2>6. y.source = due.source
      BY <2>5 DEF Credit, Entry
  <2> QED
      BY <1>2, <2>1, <2>3, <2>5, <2>6 DEF FreeCredit
<1>4. ASSUME NEW y, FreeCredit(y, entries, dues)
      PROVE  y \in UncappedOf(after)
  <2>1. PICK due \in dues : /\ Uncapped(due.account[2]) /\ ~ IsPosted(entries, due.source)
                            /\ y = Credit(due)
      BY <1>4 DEF FreeCredit
  <2>2. PICK z \in after : z.source = due.source
      BY <1>2 DEF IsPosted
  <2>3. z \notin entries
      BY <2>1, <2>2 DEF IsPosted
  <2>4. PICK other \in dues : Yields(other, z)
      BY <1>2, <2>2, <2>3
  <2>5. z = Credit(other)
    <3>1. ASSUME NEW lost \in Nat, z = Loss(other, lost) PROVE FALSE
      <4>1. z.source = Append(other.source, "forfeiture")
          BY <3>1 DEF Loss, Entry
      <4> QED
          BY <1>1, <2>2, <4>1, LossHasItsKey
    <3> QED
        BY <2>4, <3>1 DEF Yields
  <2>6. other = due
      BY <2>2, <2>5 DEF Credit, Entry
  <2>7. y \in after /\ y.account = due.account
      BY <2>1, <2>2, <2>5, <2>6 DEF Credit, Entry
  <2> QED
      BY <2>1, <2>7 DEF UncappedOf
<1>5. UncappedOf(entries) \subseteq UncappedOf(after)
    BY <1>2 DEF UncappedOf
<1> QED
    BY <1>1, <1>2, <1>3, <1>4, <1>5


(* What a scheduled run leaves of a ledger. *)
RunLeaves(entries, asOf, after) ==
    /\ Sound(after) /\ entries \subseteq after
    /\ \A due \in ScheduledDues(asOf) : Postable(due)
    /\ \A due \in ScheduledDues(asOf) : IsPosted(after, due.source)
    /\ \A y \in after \ entries : \E due \in ScheduledDues(asOf) : Yields(due, y)
    /\ \A y : y \in UncappedOf(after) <=>
          y \in UncappedOf(entries) \/ FreeCredit(y, entries, ScheduledDues(asOf))

LEMMA RunIs ==
    ASSUME ReadInv, NEW entries, Sound(entries), NEW asOf \in Dates,
           NEW rows, rows \in RowRankings(ScheduledDues(asOf)),
           NEW rules, rules \in RuleRankings(ScheduledDues(asOf)),
           NEW after, after = AfterScheduled(entries, asOf, rows, rules)
    PROVE  RunLeaves(entries, asOf, after)
<1>1. PICK dues : dues = ScheduledDues(asOf) /\ IsFiniteSet(dues)
    BY DuesFinite
<1>2. PICK before : before = {pair \in dues \X dues : Precedes(pair[1], pair[2], rows, rules)}
    OBVIOUS
<1>3. after = PostAll(entries, dues, before)
    BY <1>1, <1>2 DEF AfterScheduled
<1>4. Ordered(dues, before)
    BY <1>1, <1>2, ScheduledInOrder
<1>5. (\A due \in dues : DueFits(due)) /\ \A d, e \in dues : d.source = e.source => d = e
    BY <1>1, ScheduledFits, KeyTellsDue
<1> QED
    BY <1>1, <1>3, <1>4, <1>5, UncappedPosting DEF RunLeaves

LEMMA RunsMerge ==
    ASSUME ReadInv, NEW early \in Dates, NEW late \in Dates, early <= late,
           NEW entries, NEW first, RunLeaves(entries, early, first),
           NEW both, RunLeaves(first, late, both), NEW once, RunLeaves(entries, late, once)
    PROVE  UncappedOf(both) = UncappedOf(once)
<1>1. PICK sooner, later : sooner = ScheduledDues(early) /\ later = ScheduledDues(late)
    OBVIOUS
<1>2. sooner \subseteq later
    BY <1>1, DuesGrow
<1>3. ASSUME NEW y, FreeCredit(y, entries, sooner) \/ FreeCredit(y, first, later)
      PROVE  FreeCredit(y, entries, later)
  <2>1. CASE FreeCredit(y, entries, sooner)
      BY <1>2, <2>1 DEF FreeCredit
  <2>2. CASE FreeCredit(y, first, later)
      BY <2>2 DEF FreeCredit, RunLeaves, IsPosted
  <2> QED
      BY <1>3, <2>1, <2>2
<1>4. ASSUME NEW y, FreeCredit(y, entries, later), ~ FreeCredit(y, entries, sooner)
      PROVE  FreeCredit(y, first, later)
  <2>1. PICK due \in later : /\ Uncapped(due.account[2]) /\ ~ IsPosted(entries, due.source)
                             /\ y = Credit(due)
      BY <1>4 DEF FreeCredit
  <2>2. due \notin sooner
      BY <1>4, <2>1 DEF FreeCredit
  <2>3. ASSUME NEW z \in first, z.source = due.source PROVE FALSE
    <3>1. z \in first \ entries
        BY <2>1, <2>3 DEF IsPosted
    <3>2. PICK other \in sooner : Yields(other, z)
        BY <1>1, <3>1 DEF RunLeaves
    <3>3. Postable(other) /\ Postable(due) /\ other \in later
        BY <1>1, <1>2 DEF RunLeaves
    <3>4. CASE z = Credit(other)
      <4>1. other.source = due.source
          BY <2>3, <3>4 DEF Credit, Entry
      <4> QED
          BY <1>1, <2>2, <3>3, <4>1, KeyTellsDue
    <3>5. ASSUME NEW lost \in Nat, z = Loss(other, lost) PROVE FALSE
      <4>1. z.source = Append(other.source, "forfeiture")
          BY <3>5 DEF Loss, Entry
      <4> QED
          BY <2>3, <3>3, <4>1, LossHasItsKey
    <3> QED
        BY <3>2, <3>4, <3>5 DEF Yields
  <2> QED
      BY <2>1, <2>3 DEF FreeCredit, IsPosted
<1>5. /\ \A y : y \in UncappedOf(first) <=>
                   y \in UncappedOf(entries) \/ FreeCredit(y, entries, sooner)
      /\ \A y : y \in UncappedOf(both) <=>
                   y \in UncappedOf(first) \/ FreeCredit(y, first, later)
      /\ \A y : y \in UncappedOf(once) <=>
                   y \in UncappedOf(entries) \/ FreeCredit(y, entries, later)
    BY <1>1 DEF RunLeaves
<1> QED
    BY <1>3, <1>4, <1>5

(* A scheduled run that comes late leaves the accounts without a cap as if *)
(* an earlier one had been there too: it finds all that one found, under   *)
(* the same keys and worth the same.                                       *)
THEOREM RunsAlwaysCatchUp == AccrualSpec => []RunsCatchUp
<1>1. JobsInv => RunsCatchUp
  <2>1. SUFFICES ASSUME JobsInv, NEW early \in RunDates, NEW late \in RunDates, early <= late
                 PROVE  LET rows(d) == CHOOSE r \in RowRankings(ScheduledDues(d)) : TRUE
                            rules(d) == CHOOSE r \in RuleRankings(ScheduledDues(d)) : TRUE
                            After(entries, d) == AfterScheduled(entries, d, rows(d), rules(d))
                            Free(entries) == {x \in entries : Uncapped(x.account[2])}
                        IN  Free(After(After(ledger, early), late)) = Free(After(ledger, late))
      BY DEF RunsCatchUp
  <2> DEFINE rows(d) == CHOOSE r \in RowRankings(ScheduledDues(d)) : TRUE
             rules(d) == CHOOSE r \in RuleRankings(ScheduledDues(d)) : TRUE
             After(entries, d) == AfterScheduled(entries, d, rows(d), rules(d))
  <2>2. ReadInv /\ Sound(ledger) /\ early \in Dates /\ late \in Dates
      BY <2>1, AccrualAssumption DEF JobsInv, EntriesOK
  <2>3. \A d \in {early, late} : rows(d) \in RowRankings(ScheduledDues(d))
                                 /\ rules(d) \in RuleRankings(ScheduledDues(d))
      BY <2>2, ScheduledRankings
  <2> HIDE DEF rows, rules
  <2>4. PICK first : first = After(ledger, early)
      OBVIOUS
  <2>5. RunLeaves(ledger, early, first)
      BY <2>2, <2>3, <2>4, RunIs
  <2>6. PICK both : both = After(first, late)
      OBVIOUS
  <2>7. RunLeaves(first, late, both)
      BY <2>2, <2>3, <2>5, <2>6, RunIs DEF RunLeaves
  <2>8. PICK once : once = After(ledger, late)
      OBVIOUS
  <2>9. RunLeaves(ledger, late, once)
      BY <2>2, <2>3, <2>8, RunIs
  <2>10. UncappedOf(both) = UncappedOf(once)
      BY <2>1, <2>2, <2>5, <2>7, <2>9, RunsMerge
  <2> QED
      BY <2>4, <2>6, <2>8, <2>10 DEF UncappedOf, rows, rules
<1> QED
    BY <1>1, JobsInvariant, PTL


-----------------------------------------------------------------------------
(* Credits in the order of their dates. *)

LEMMA PeriodsInOrder ==
    ASSUME NEW schedule \in Schedules, NEW c \in Dates, NEW d \in Dates,
           Containing(c, schedule).start < Containing(d, schedule).start
    PROVE  Containing(c, schedule).end < Containing(d, schedule).start
<1>1. PICK p \in [start : Int, end : Int] : p = Containing(c, schedule) /\ InPeriod(c, p)
    BY PeriodsPartition
<1>2. PICK q \in [start : Int, end : Int] : q = Containing(d, schedule) /\ InPeriod(d, q)
    BY PeriodsPartition
<1>3. c \in Int /\ d \in Int /\ p.start \in Int /\ p.end \in Int /\ q.start \in Int /\ q.end \in Int
      /\ p.start < q.start
    BY <1>1, <1>2, DateTypes
<1>4. \A e \in Dates : ~ (InPeriod(e, p) /\ InPeriod(e, q))
    BY <1>1, <1>2, <1>3, PeriodsPartition
<1>5. SUFFICES ASSUME q.start <= p.end PROVE FALSE
    BY <1>1, <1>2, <1>3
<1>6. p.end < d
  <2>1. ~ InPeriod(d, p)
      BY <1>2, <1>4
  <2> QED
      BY <1>2, <1>3, <2>1 DEF InPeriod
<1>7. c < q.start
  <2>1. ~ InPeriod(c, q)
      BY <1>1, <1>4
  <2> QED
      BY <1>1, <1>2, <1>3, <1>6, <2>1 DEF InPeriod
<1>8. q.start \in Dates
    BY <1>3, <1>5, <1>6, <1>7, CalendarAssumption DEF Dates
<1>9. InPeriod(q.start, p) /\ InPeriod(q.start, q)
    BY <1>1, <1>2, <1>3, <1>5, <1>6 DEF InPeriod
<1> QED
    BY <1>4, <1>8, <1>9

(* Two credits of one row, and of one rule if they are of one version. *)
SameTrack(d, e) ==
    /\ d.source[1] = e.source[1] /\ d.source[2] = e.source[2]
    /\ d.source[1] = "SCHEDULED_ACCRUAL" /\ d.version = e.version => d.source[3] = e.source[3]

(* Dues that are posted one before the other take effect in that order.    *)
Chained(dues, before) ==
    \A d, e \in dues :
        d.account = e.account /\ <<d, e>> \in before /\ SameTrack(d, e) =>
            d.effective <= e.effective

LEMMA LaterFalls ==
    ASSUME NEW p \in [start : Int, end : Int], NEW q \in [start : Int, end : Int],
           p.start < q.start, p.end < q.start, q.start <= q.end, NEW first \in Int, NEW rule
    PROVE  EffectiveDate(p, rule, first) <= EffectiveDate(q, rule, first)
<1>1. PICK a \in Int, b \in Int :
         /\ a = IF rule.accruesAt = "START_OF_PERIOD" THEN p.start ELSE p.end
         /\ b = IF rule.accruesAt = "START_OF_PERIOD" THEN q.start ELSE q.end
         /\ a <= b
  <2>1. p.start \in Int /\ p.end \in Int /\ q.start \in Int /\ q.end \in Int
      OBVIOUS
  <2>2. p.start <= q.start /\ p.end <= q.end
      BY <2>1
  <2> QED
      BY <2>1, <2>2
<1>2. EffectiveDate(p, rule, first) = Max({first, a}) /\ EffectiveDate(q, rule, first) = Max({first, b})
    BY <1>1 DEF EffectiveDate
<1>3. Max({first, a}) \in {first, a}
    BY MaxOfTwo
<1>4. Max({first, b}) \in {first, b} /\ first <= Max({first, b}) /\ b <= Max({first, b})
    BY MaxOfTwo
<1>5. Max({first, a}) <= Max({first, b})
    BY <1>1, <1>3, <1>4
<1> QED
    BY <1>2, <1>5

LEMMA ScheduledChained ==
    ASSUME ReadInv, NEW asOf \in Dates, NEW x \in ScheduledDues(asOf), NEW y \in ScheduledDues(asOf),
           SameTrack(x, y), NEW rows, rows[x.source[2]] \in Int,
           NEW rules, rules[x.source[3]] \in Int,
           LexLess(PlaceOf(x, rows, rules), PlaceOf(y, rows, rules))
    PROVE  x.effective <= y.effective
<1>1. PICK row \in assignments : \E v \in versions[row.policy] : \E i \in TimeRules(v) :
         \E p \in Visited(row, v, i, asOf) :
             /\ row.from <= asOf /\ Earned(row, v, i, p, asOf) /\ x = DueFor(row, v, i, p)
    BY DuesAre
<1>2. PICK v \in versions[row.policy] : \E i \in TimeRules(v) :
         \E p \in Visited(row, v, i, asOf) :
             /\ row.from <= asOf /\ Earned(row, v, i, p, asOf) /\ x = DueFor(row, v, i, p)
    BY <1>1
<1>3. PICK i \in TimeRules(v) : \E p \in Visited(row, v, i, asOf) :
         /\ row.from <= asOf /\ Earned(row, v, i, p, asOf) /\ x = DueFor(row, v, i, p)
    BY <1>2
<1>4. PICK p \in Visited(row, v, i, asOf) :
         /\ row.from <= asOf /\ Earned(row, v, i, p, asOf) /\ x = DueFor(row, v, i, p)
    BY <1>3
<1>5. PICK other \in assignments : \E w \in versions[other.policy] : \E j \in TimeRules(w) :
         \E q \in Visited(other, w, j, asOf) :
             /\ other.from <= asOf /\ Earned(other, w, j, q, asOf) /\ y = DueFor(other, w, j, q)
    BY DuesAre
<1>6. PICK w \in versions[other.policy] : \E j \in TimeRules(w) :
         \E q \in Visited(other, w, j, asOf) :
             /\ other.from <= asOf /\ Earned(other, w, j, q, asOf) /\ y = DueFor(other, w, j, q)
    BY <1>5
<1>7. PICK j \in TimeRules(w) : \E q \in Visited(other, w, j, asOf) :
         /\ other.from <= asOf /\ Earned(other, w, j, q, asOf) /\ y = DueFor(other, w, j, q)
    BY <1>6
<1>8. PICK q \in Visited(other, w, j, asOf) :
         /\ other.from <= asOf /\ Earned(other, w, j, q, asOf) /\ y = DueFor(other, w, j, q)
    BY <1>7
<1>9. /\ x.source = <<"SCHEDULED_ACCRUAL", RowId(row), RuleId(row.policy, v, i), p.start>>
      /\ x.version = v.no /\ x.effective = FallsOn(row, v, i, p)
    BY <1>4 DEF DueFor
<1>10. /\ y.source = <<"SCHEDULED_ACCRUAL", RowId(other), RuleId(other.policy, w, j), q.start>>
       /\ y.version = w.no /\ y.effective = FallsOn(other, w, j, q)
    BY <1>8 DEF DueFor
<1>11. RowId(row) = RowId(other)
    BY <1>9, <1>10 DEF SameTrack
<1>12. other = row
    BY <1>11, IdHasKey, KeyTellsRow
<1>13. row.policy \in Policies
    BY DEF ReadInv, AudienceInv, RowsOK, Ranged, RowType
<1>14. x.effective \in Int /\ y.effective \in Int
  <2>1. FallsOn(row, v, i, p) \in Dates
      BY <1>4, DueIs
  <2>2. FallsOn(other, w, j, q) \in Dates
      BY <1>8, DueIs
  <2> QED
      BY <1>9, <1>10, <2>1, <2>2, DateTypes
<1>15. /\ v.from \in Int /\ w.from \in Int
       /\ v.no < w.no => v.from < w.from
    BY <1>12, <1>13, DateTypes DEF ReadInv, AudienceInv, VersionsOK, VersionsInOrder
<1>16. CASE v.no < w.no
  <2>1. v.from < w.from
      BY <1>15, <1>16
  <2>2. ~ (w.from <= x.effective)
    <3>1. IsEffectiveOn(v, versions[row.policy], x.effective)
        BY <1>4, <1>9 DEF Earned
    <3> QED
        BY <1>12, <1>15, <2>1, <3>1 DEF IsEffectiveOn, EffectiveVersions
  <2>3. w.from <= y.effective
      BY <1>8, <1>10 DEF Earned, IsEffectiveOn, EffectiveVersions
  <2> QED
      BY <1>14, <1>15, <2>2, <2>3
<1>17. CASE v.no = w.no
  <2>1. v = w
      BY <1>12, <1>13, <1>17 DEF ReadInv, VersionsKnown
  <2>2. RuleId(row.policy, v, i) = RuleId(row.policy, v, j)
      BY <1>9, <1>10, <1>12, <1>17, <2>1 DEF SameTrack
  <2>3. i = j
    <3>1. v.terms.rules[i].tier = v.terms.rules[j].tier
        BY <2>2 DEF RuleId
    <3>2. j \in DOMAIN v.terms.rules
        BY <2>1 DEF TimeRules
    <3> QED
        BY <1>13, <3>1, <3>2, TimeRuleIs
  <2>4. p.start < q.start
    <3>1. PICK s, t : s = PlaceOf(x, rows, rules) /\ t = PlaceOf(y, rows, rules)
        OBVIOUS
    <3>2. s[1] = t[1] /\ s[2] = t[2] /\ s[3] = t[3] /\ s[4] = p.start /\ t[4] = q.start
        BY <1>9, <1>10, <1>12, <2>1, <2>2, <2>3, <3>1 DEF PlaceOf
    <3>3. s[1] \in Int /\ s[2] \in Int /\ s[3] \in Int
        BY <1>9, <1>13, <3>1 DEF PlaceOf, ReadInv, AudienceInv, VersionsOK
    <3> QED
        BY <3>1, <3>2, <3>3 DEF LexLess
  <2>5. PICK schedule \in Schedules : schedule = v.terms.rules[i].frequency
      BY <1>13, TimeRuleIs
  <2>6. PICK c \in Dates : p = Containing(c, schedule)
      BY <1>4, <2>5, PeriodIs
  <2>7. PICK d \in Dates : q = Containing(d, schedule)
      BY <1>8, <1>12, <2>1, <2>3, <2>5, PeriodIs
  <2>8. /\ p \in [start : Int, end : Int] /\ q \in [start : Int, end : Int] /\ q.start <= q.end
        /\ First(row, v) \in Int
      BY <1>4, <1>8, <1>12, <2>1, <2>3, PeriodIs, SpanOf, DateTypes
  <2>9. p.end < q.start
      BY <2>4, <2>6, <2>7, PeriodsInOrder
  <2>10. FallsOn(row, v, i, p) <= FallsOn(row, v, i, q)
      BY <2>4, <2>8, <2>9, LaterFalls DEF FallsOn
  <2> QED
      BY <1>9, <1>10, <1>12, <2>1, <2>3, <2>10
<1>18. v.no < w.no \/ v.no = w.no
  <2>1. PICK s, t : s = PlaceOf(x, rows, rules) /\ t = PlaceOf(y, rows, rules)
      OBVIOUS
  <2>2. s[1] = t[1] /\ s[1] \in Int /\ s[2] = v.no /\ t[2] = w.no
      BY <1>9, <1>10, <1>11, <2>1 DEF PlaceOf
  <2> QED
      BY <2>1, <2>2 DEF LexLess
<1> QED
    BY <1>16, <1>17, <1>18


-----------------------------------------------------------------------------
(* What posting a due does to the balances. *)

IsKey(s) == \E kind, run, rule, unit : s = <<kind, run, rule, unit>>

(* A loss is never in the ledger without its credit. *)
Keyed(entries) ==
    \A y \in entries : \A s : IsKey(s) /\ y.source = Append(s, "forfeiture") => IsPosted(entries, s)

LEMMA KeysAreTold ==
    ASSUME NEW s, IsKey(s), NEW t, IsKey(t)
    PROVE  /\ Append(s, "forfeiture") # t
           /\ Append(s, "forfeiture") = Append(t, "forfeiture") => s = t
<1>1. PICK d, e : d = [amount |-> 1, cap |-> None, source |-> s]
                  /\ e = [amount |-> 1, cap |-> None, source |-> t]
    OBVIOUS
<1>2. Postable(d) /\ Postable(e) /\ d.source = s /\ e.source = t
    BY <1>1 DEF Postable, IsKey
<1> QED
    BY <1>2, LossHasItsKey

Own(entries, account, date) == EntriesOf({x \in entries : x.effective <= date}, account)

(* A ledger that grows moves a balance by what is new of it. *)
LEMMA BalanceMoves ==
    ASSUME NEW entries, NEW after, Sound(after), entries \subseteq after, NEW account, NEW date
    PROVE  /\ HasAmounts(Own(after \ entries, account, date))
           /\ BalanceAsOf(entries, account, date) \in Int
           /\ BalanceAsOf(after, account, date) =
                  BalanceAsOf(entries, account, date) + SumAmounts(Own(after \ entries, account, date))
<1>1. PICK new : new = after \ entries
    OBVIOUS
<1>2. HasAmounts(entries) /\ HasAmounts(new)
    BY <1>1, FS_Subset DEF Sound, HasAmounts
<1>3. PICK old, more, all : /\ old = Own(entries, account, date) /\ more = Own(new, account, date)
                            /\ all = Own(after, account, date)
    OBVIOUS
<1>4. HasAmounts(old) /\ HasAmounts(more)
    BY <1>2, <1>3, BalanceType DEF Own
<1>5. all = old \cup more /\ old \cap more = {}
    BY <1>1, <1>3 DEF Own, EntriesOf
<1>6. SumAmounts(all) = SumAmounts(old) + SumAmounts(more) /\ SumAmounts(old) \in Int
    BY <1>4, <1>5, SumUnion, SumType
<1> QED
    BY <1>1, <1>3, <1>4, <1>6 DEF BalanceAsOf, Balance, Own

(* What posting a due does: dates before it and other accounts keep their  *)
(* balances; a due posted before can only lower them; and a new one leaves *)
(* no more than its cap on its own date.                                   *)
PostsOne(entries, due, after) ==
    /\ Grown(entries, due, after) /\ Keyed(after)
    /\ \A account : \A date \in Int :
          account # due.account \/ date < due.effective =>
              BalanceAsOf(after, account, date) = BalanceAsOf(entries, account, date)
    /\ IsPosted(entries, due.source) =>
          /\ \A y \in after \ entries : ~ IsAccrual(y)
          /\ \A account : \A date \in Int :
                BalanceAsOf(after, account, date) <= BalanceAsOf(entries, account, date)
    /\ ~ IsPosted(entries, due.source) /\ due.cap # None =>
          BalanceAsOf(after, due.account, due.effective) <= due.cap

LEMMA OnePost ==
    ASSUME NEW entries, Sound(entries), Keyed(entries), NEW due, Postable(due),
           due.effective \in Int, NEW after, after = PostAccrual(entries, due)
    PROVE  PostsOne(entries, due, after)
<1>1. PICK lost \in Nat :
         /\ lost = Lost(BalanceAsOf(entries, due.account, due.effective), due.amount, due.cap)
         /\ lost # 0 => due.cap # None
         /\ \A y : y \in after <=>
               \/ y \in entries
               \/ y = Credit(due) /\ ~ IsPosted(entries, y.source)
               \/ y = Loss(due, lost) /\ lost # 0 /\ ~ IsPosted(entries, y.source)
    BY PostingIs
<1>2. Grown(entries, due, after)
    BY PostingKeeps
<1>3. entries \subseteq after /\ Sound(after)
    BY <1>2 DEF Grown
<1>4. PICK credit, loss :
         /\ credit = Credit(due) /\ loss = Loss(due, lost)
         /\ credit.account = due.account /\ credit.effective = due.effective
         /\ credit.amount = due.amount /\ credit.source = due.source /\ credit.type = "ACCRUAL"
         /\ loss.account = due.account /\ loss.effective = due.effective
         /\ loss.amount = -lost /\ loss.type = "FORFEITURE"
         /\ loss.source = Append(due.source, "forfeiture")
  <2>1. PICK credit, loss : credit = Credit(due) /\ loss = Loss(due, lost)
      OBVIOUS
  <2>2. /\ credit.account = due.account /\ credit.effective = due.effective
        /\ credit.amount = due.amount /\ credit.source = due.source /\ credit.type = "ACCRUAL"
      BY <2>1 DEF Credit, Entry
  <2>3. /\ loss.account = due.account /\ loss.effective = due.effective
        /\ loss.amount = -lost /\ loss.type = "FORFEITURE"
        /\ loss.source = Append(due.source, "forfeiture")
      BY <2>1 DEF Loss, Entry
  <2> QED
      BY <2>1, <2>2, <2>3
<1>5. IsKey(due.source) /\ due.amount \in Int /\ due.cap \in Int \cup {None}
    BY DEF Postable, IsKey
<1>6. \A y : y \in after \ entries =>
         \/ y = credit /\ ~ IsPosted(entries, due.source)
         \/ y = loss /\ lost # 0 /\ ~ IsPosted(entries, loss.source)
    BY <1>1, <1>4
<1>7. Keyed(after)
  <2>1. SUFFICES ASSUME NEW y \in after, NEW s, IsKey(s), y.source = Append(s, "forfeiture")
                 PROVE  IsPosted(after, s)
      BY DEF Keyed
  <2>2. CASE y \in entries
    <3>1. IsPosted(entries, s)
        BY <2>1, <2>2 DEF Keyed
    <3> QED
        BY <1>3, <3>1 DEF IsPosted
  <2>3. CASE y = credit
    <3>1. Append(s, "forfeiture") # due.source
        BY <1>5, <2>1, KeysAreTold
    <3> QED
        BY <1>4, <2>1, <2>3, <3>1
  <2>4. CASE y = loss
    <3>1. s = due.source
        BY <1>4, <1>5, <2>1, <2>4, KeysAreTold
    <3> QED
        BY <1>2, <3>1 DEF Grown
  <2> QED
      BY <1>6, <2>2, <2>3, <2>4
<1>8. \A account : \A date : /\ HasAmounts(Own(after \ entries, account, date))
                             /\ BalanceAsOf(entries, account, date) \in Int
                             /\ BalanceAsOf(after, account, date) =
                                    BalanceAsOf(entries, account, date)
                                      + SumAmounts(Own(after \ entries, account, date))
    BY <1>3, BalanceMoves
<1>9. ASSUME NEW account, NEW date \in Int, account # due.account \/ date < due.effective
      PROVE  BalanceAsOf(after, account, date) = BalanceAsOf(entries, account, date)
  <2>1. ~ (due.effective <= date) \/ account # due.account
      BY <1>9
  <2>2. Own(after \ entries, account, date) = {}
      BY <1>4, <1>6, <2>1 DEF Own, EntriesOf
  <2>3. SumAmounts(Own(after \ entries, account, date)) = 0
      BY <2>2, SumEmpty
  <2> QED
      BY <1>8, <2>3
<1>10. loss.amount \in Int /\ SumAmounts({loss}) = -lost /\ HasAmounts({loss})
  <2>1. loss.amount \in Int
      BY <1>4
  <2> QED
      BY <1>4, <2>1, SumSingleton, FS_Singleton DEF HasAmounts
<1>11. ASSUME IsPosted(entries, due.source)
       PROVE  /\ \A y \in after \ entries : ~ IsAccrual(y)
              /\ \A account : \A date \in Int :
                    BalanceAsOf(after, account, date) <= BalanceAsOf(entries, account, date)
  <2>1. \A y \in after \ entries : y = loss
      BY <1>6, <1>11
  <2>2. \A y \in after \ entries : ~ IsAccrual(y)
      BY <1>4, <2>1 DEF IsAccrual
  <2>3. ASSUME NEW account, NEW date \in Int
        PROVE  BalanceAsOf(after, account, date) <= BalanceAsOf(entries, account, date)
    <3>1. Own(after \ entries, account, date) = {} \/ Own(after \ entries, account, date) = {loss}
        BY <2>1 DEF Own, EntriesOf
    <3>2. PICK n \in Int : n = SumAmounts(Own(after \ entries, account, date)) /\ n <= 0
      <4>1. -lost \in Int /\ -lost <= 0
          OBVIOUS
      <4> QED
          BY <1>10, <3>1, <4>1, SumEmpty
    <3>3. PICK b \in Int : b = BalanceAsOf(entries, account, date)
        BY <1>8
    <3>4. BalanceAsOf(after, account, date) = b + n
        BY <1>8, <3>2, <3>3
    <3> QED
        BY <3>2, <3>3, <3>4
  <2> QED
      BY <2>2, <2>3
<1>12. ASSUME ~ IsPosted(entries, due.source), due.cap # None
       PROVE  BalanceAsOf(after, due.account, due.effective) <= due.cap
  <2>1. ~ IsPosted(entries, loss.source)
      BY <1>4, <1>5, <1>12 DEF Keyed, IsPosted
  <2>2. after \ entries = IF lost = 0 THEN {credit} ELSE {credit, loss}
    <3>1. credit \in after \ entries
        BY <1>1, <1>4, <1>12 DEF IsPosted
    <3>2. lost # 0 => loss \in after \ entries
        BY <1>1, <1>4, <2>1 DEF IsPosted
    <3> QED
        BY <1>6, <3>1, <3>2
  <2>3. PICK own : own = Own(after \ entries, due.account, due.effective)
      OBVIOUS
  <2>4. own = IF lost = 0 THEN {credit} ELSE {credit, loss}
    <3>1. due.effective <= due.effective
        OBVIOUS
    <3> QED
        BY <1>4, <2>2, <2>3, <3>1 DEF Own, EntriesOf
  <2>5. credit.amount \in Int /\ SumAmounts({credit}) = due.amount /\ HasAmounts({credit})
    <3>1. credit.amount \in Int
        BY <1>4, <1>5
    <3> QED
        BY <1>4, <3>1, SumSingleton, FS_Singleton DEF HasAmounts
  <2>6. SumAmounts(own) = due.amount - lost
    <3>1. CASE lost = 0
        BY <1>5, <2>4, <2>5, <3>1
    <3>2. CASE lost # 0
      <4>1. own = {credit} \cup {loss} /\ {credit} \cap {loss} = {}
          BY <1>4, <2>4, <3>2
      <4>2. SumAmounts(own) = SumAmounts({credit}) + SumAmounts({loss})
          BY <1>10, <2>5, <4>1, SumUnion
      <4>3. PICK a \in Int : a = due.amount
          BY <1>5
      <4>4. SumAmounts(own) = a + (-lost)
          BY <1>10, <2>5, <4>2, <4>3
      <4> QED
          BY <4>3, <4>4
    <3> QED
        BY <3>1, <3>2
  <2>7. PICK b \in Int : b = BalanceAsOf(entries, due.account, due.effective)
      BY <1>8
  <2>8. PICK a \in Int, cap \in Int : a = due.amount /\ cap = due.cap
      BY <1>5, <1>12
  <2>9. b + a - cap <= lost
    <3>1. PICK x \in Int, z \in Int : x = b + a - cap /\ z = 0
        OBVIOUS
    <3>2. lost = Max({x, z})
        BY <1>1, <1>12, <2>7, <2>8, <3>1 DEF Lost
    <3> QED
        BY <3>1, <3>2, MaxOfTwo
  <2>10. BalanceAsOf(after, due.account, due.effective) = b + (a - lost)
      BY <1>8, <2>3, <2>6, <2>7, <2>8
  <2> QED
      BY <2>8, <2>9, <2>10
<1> QED
    BY <1>2, <1>7, <1>9, <1>11, <1>12 DEF PostsOne


-----------------------------------------------------------------------------
(* Credits posted in the order of their dates keep to their caps. *)

CreditsOf(entries, account) == {x \in entries : x.account = account /\ IsAccrual(x)}

(* What the new credits of an account leave on their dates. *)
KeepsCaps(entries, after, account) ==
    InDateOrder(CreditsOf(after \ entries, account)) =>
        \A x \in CreditsOf(after \ entries, account) :
            VersionOf(x).terms.cap # None =>
                BalanceAsOf(after, account, x.effective) <= VersionOf(x).terms.cap

(* A new credit is that of a due and comes under its cap. *)
LEMMA CreditIsDue ==
    ASSUME ReadInv, NEW due, DueFits(due), NEW x, Yields(due, x), IsAccrual(x)
    PROVE  /\ x = Credit(due) /\ x.account = due.account /\ x.effective = due.effective
           /\ x.version = due.version /\ x.source = due.source
           /\ VersionOf(x).terms.cap = due.cap
           /\ IsEffectiveOn(VersionOf(x), versions[x.account[2]], x.effective)
           /\ x.account[2] \in Policies
<1>1. x = Credit(due)
    BY YieldIs
<1>2. /\ x.account = due.account /\ x.effective = due.effective
      /\ x.version = due.version /\ x.source = due.source
    BY <1>1 DEF Credit, Entry
<1>3. PICK v \in versions[x.account[2]] :
         /\ v.no = x.version /\ v.terms.cap = due.cap
         /\ IsEffectiveOn(v, versions[x.account[2]], x.effective)
    BY <1>2 DEF DueFits
<1>4. x.account[2] \in Policies
    BY <1>2 DEF DueFits
<1>5. VersionOf(x) = v
    BY <1>3, <1>4, VersionIs
<1> QED
    BY <1>1, <1>2, <1>3, <1>4, <1>5

(* One more due. *)
LEMMA OneMoreCap ==
    ASSUME ReadInv, NEW entries, NEW mid, entries \subseteq mid, Sound(mid), Keyed(mid),
           NEW due, DueFits(due), NEW after, after = PostAccrual(mid, due),
           NEW earlier, \A d \in earlier : DueFits(d),
           \A y \in mid \ entries : \E d \in earlier : Yields(d, y),
           \A d \in earlier : d.account = due.account /\ SameTrack(d, due) =>
                                  d.effective <= due.effective,
           NEW account, KeepsCaps(entries, mid, account)
    PROVE  KeepsCaps(entries, after, account)
<1>1. Postable(due) /\ due.effective \in Int
    BY DateTypes DEF DueFits
<1>2. PostsOne(mid, due, after)
    BY <1>1, OnePost
<1>3. mid \subseteq after /\ \A y \in after \ mid : Yields(due, y)
    BY <1>2 DEF PostsOne, Grown
<1>4. SUFFICES ASSUME InDateOrder(CreditsOf(after \ entries, account)),
                      NEW x \in CreditsOf(after \ entries, account),
                      VersionOf(x).terms.cap # None
               PROVE  BalanceAsOf(after, account, x.effective) <= VersionOf(x).terms.cap
    BY DEF KeepsCaps
<1>5. x \in after \ entries /\ x.account = account /\ IsAccrual(x)
    BY <1>4 DEF CreditsOf
<1>6. CreditsOf(mid \ entries, account) \subseteq CreditsOf(after \ entries, account)
    BY <1>3 DEF CreditsOf
<1>7. InDateOrder(CreditsOf(mid \ entries, account))
    BY <1>4, <1>6 DEF InDateOrder
<1>8. ASSUME x \in mid
      PROVE  BalanceAsOf(mid, account, x.effective) <= VersionOf(x).terms.cap
    BY <1>4, <1>5, <1>7, <1>8 DEF KeepsCaps, CreditsOf
<1>9. \A date : BalanceAsOf(mid, account, date) \in Int /\ BalanceAsOf(after, account, date) \in Int
    BY <1>2, BalanceType DEF PostsOne, Grown, Sound
<1>10. PICK d : d \in earlier \cup {due} /\ DueFits(d) /\ Yields(d, x) /\ (x \in mid => d \in earlier)
    BY <1>3, <1>5
<1>11. /\ x.account = d.account /\ x.effective = d.effective /\ x.version = d.version
       /\ x.source = d.source /\ VersionOf(x).terms.cap = d.cap /\ x.account[2] \in Policies
       /\ IsEffectiveOn(VersionOf(x), versions[x.account[2]], x.effective)
    BY <1>5, <1>10, CreditIsDue
<1>12. x.effective \in Int /\ VersionOf(x).terms.cap \in Int
    BY <1>4, <1>10, <1>11, DateTypes DEF DueFits, Postable
<1>13. PICK b \in Int, c \in Int, cap \in Int :
         /\ b = BalanceAsOf(mid, account, x.effective) /\ c = BalanceAsOf(after, account, x.effective)
         /\ cap = VersionOf(x).terms.cap
    BY <1>9, <1>12
<1>14. CASE IsPosted(mid, due.source)
  <2>1. x \in mid
      BY <1>2, <1>5, <1>14 DEF PostsOne
  <2>2. c <= b
      BY <1>2, <1>12, <1>13, <1>14 DEF PostsOne
  <2> QED
      BY <1>8, <1>13, <2>1, <2>2
<1>15. CASE ~ IsPosted(mid, due.source)
  <2>1. CASE x \notin mid
    <3>1. Yields(due, x)
        BY <1>3, <1>5, <2>1
    <3>2. x.account = due.account /\ x.effective = due.effective /\ VersionOf(x).terms.cap = due.cap
        BY <1>5, <3>1, CreditIsDue
    <3> QED
        BY <1>2, <1>4, <1>5, <1>15, <3>2 DEF PostsOne
  <2>2. CASE x \in mid /\ due.account # account
    <3>1. c = b
        BY <1>2, <1>12, <1>13, <2>2 DEF PostsOne
    <3> QED
        BY <1>8, <1>13, <2>2, <3>1
  <2>3. CASE x \in mid /\ due.account = account
    <3>1. d \in earlier
        BY <1>10, <2>3
    <3>2. PICK y \in after : y.source = due.source
        BY <1>2 DEF PostsOne, Grown, IsPosted
    <3>3. y \notin mid
        BY <1>15, <3>2 DEF IsPosted
    <3>4. Yields(due, y)
        BY <1>3, <3>2, <3>3
    <3>5. y = Credit(due)
      <4>1. ASSUME NEW lost \in Nat, y = Loss(due, lost) PROVE FALSE
        <5>1. y.source = Append(due.source, "forfeiture")
            BY <4>1 DEF Loss, Entry
        <5> QED
            BY <1>1, <3>2, <5>1, LossHasItsKey
      <4> QED
          BY <3>4, <4>1 DEF Yields
    <3>6. IsAccrual(y)
        BY <3>5 DEF Credit, Entry, IsAccrual
    <3>7. /\ y.account = due.account /\ y.effective = due.effective /\ y.version = due.version
          /\ VersionOf(y).terms.cap = due.cap
          /\ IsEffectiveOn(VersionOf(y), versions[y.account[2]], y.effective)
        BY <3>4, <3>6, CreditIsDue
    <3>8. y \in CreditsOf(after \ entries, account)
        BY <2>3, <3>2, <3>3, <3>6, <3>7 DEF CreditsOf
    <3>9. SameTrack(d, due)
      <4>1. /\ x.source[1] = y.source[1] /\ x.source[2] = y.source[2]
            /\ x.source[1] = "SCHEDULED_ACCRUAL" /\ x.version = y.version =>
                  x.source[3] = y.source[3]
        <5>1. PICK C : C = CreditsOf(after \ entries, account)
            OBVIOUS
        <5>2. x \in C /\ y \in C /\ InDateOrder(C)
            BY <1>4, <3>8, <5>1
        <5> QED
            BY <5>2 DEF InDateOrder, IsScheduled
      <4>2. d.source = x.source /\ d.version = x.version
            /\ due.source = y.source /\ due.version = y.version
          BY <1>11, <3>2, <3>7
      <4> QED
          BY <4>1, <4>2 DEF SameTrack
    <3>10. d.effective <= due.effective
        BY <1>5, <1>11, <2>3, <3>1, <3>9
    <3>11. CASE d.effective < due.effective
      <4>1. c = b
          BY <1>2, <1>11, <1>12, <1>13, <3>11 DEF PostsOne
      <4> QED
          BY <1>8, <1>13, <2>3, <4>1
    <3>12. CASE d.effective = due.effective
      <4>1. x.effective = y.effective /\ x.account = y.account
          BY <1>5, <1>11, <2>3, <3>7, <3>12
      <4>2. VersionOf(x) = VersionOf(y)
          BY <1>11, <3>7, <4>1, OneInForce
      <4>3. VersionOf(x).terms.cap = due.cap
          BY <3>7, <4>2
      <4> QED
          BY <1>2, <1>4, <1>15, <2>3, <3>7, <4>1, <4>3 DEF PostsOne
    <3> QED
        BY <1>1, <1>11, <1>12, <3>10, <3>11, <3>12
  <2> QED
      BY <2>1, <2>2, <2>3
<1> QED
    BY <1>14, <1>15


(* All the dues of a job. *)
LEMMA AllKeepCaps ==
    ASSUME ReadInv, NEW entries, Sound(entries), Keyed(entries), NEW dues, IsFiniteSet(dues),
           \A due \in dues : DueFits(due), NEW before, Ordered(dues, before),
           Chained(dues, before), NEW after, after = PostAll(entries, dues, before)
    PROVE  Keyed(after) /\ \A account : KeepsCaps(entries, after, account)
<1>1. PICK f : PostsInTurn(f, entries, dues, before)
    BY PostAllIs
<1>2. \A due \in dues : Postable(due) /\ due.effective \in Int
    BY DateTypes DEF DueFits
<1> DEFINE Good == {D \in SUBSET dues : /\ entries \subseteq f[D] /\ Sound(f[D]) /\ Keyed(f[D])
                                        /\ \A y \in f[D] \ entries : \E d \in D : Yields(d, y)
                                        /\ \A account : KeepsCaps(entries, f[D], account)}
<1>3. ASSUME NEW D \in SUBSET dues, \A x \in D : D \ {x} \in Good
      PROVE  D \in Good
  <2>1. CASE D = {}
    <3>1. f[D] = entries
        BY <1>1, <2>1 DEF PostsInTurn
    <3>2. \A account : KeepsCaps(entries, entries, account)
        BY DEF KeepsCaps, CreditsOf
    <3> QED
        BY <3>1, <3>2
  <2>2. CASE D # {}
    <3>1. PICK last \in D : /\ f[D] = PostAccrual(f[D \ {last}], last)
                            /\ \A y \in D \ {last} : <<y, last>> \in before
        BY <1>1, <2>2 DEF PostsInTurn
    <3>2. PICK E, mid : /\ E = D \ {last} /\ mid = f[E]
                        /\ entries \subseteq mid /\ Sound(mid) /\ Keyed(mid)
                        /\ \A y \in mid \ entries : \E d \in E : Yields(d, y)
                        /\ \A account : KeepsCaps(entries, mid, account)
        BY <1>3
    <3>3. last \in dues /\ DueFits(last) /\ \A d \in E : d \in dues /\ DueFits(d)
        BY <3>2
    <3>4. PICK next : next = PostAccrual(mid, last)
        OBVIOUS
    <3>5. next = f[D]
        BY <3>1, <3>2, <3>4
    <3>6. \A d \in E : d.account = last.account /\ SameTrack(d, last) =>
                           d.effective <= last.effective
        BY <3>1, <3>2, <3>3 DEF Chained
    <3>7. PostsOne(mid, last, next)
        BY <1>2, <3>2, <3>3, <3>4, OnePost
    <3>8. \A account : KeepsCaps(entries, next, account)
        BY <3>2, <3>3, <3>4, <3>6, OneMoreCap
    <3>9. \A y \in next \ entries : \E d \in D : Yields(d, y)
        BY <3>2, <3>7 DEF PostsOne, Grown
    <3>10. entries \subseteq next /\ Sound(next) /\ Keyed(next)
        BY <3>2, <3>7 DEF PostsOne, Grown
    <3> QED
        BY <3>5, <3>8, <3>9, <3>10
  <2> QED
      BY <2>1, <2>2
<1> HIDE DEF Good
<1>4. dues \in Good
    BY <1>3, RemovalInduction
<1> QED
    BY <1>1, <1>4 DEF Good, PostsInTurn


LEMMA ScheduledIsChained ==
    ASSUME ReadInv, NEW asOf \in Dates, NEW dues, dues = ScheduledDues(asOf),
           NEW rows \in RowRankings(dues), NEW rules \in RuleRankings(dues)
    PROVE  Chained(dues, {pair \in dues \X dues : Precedes(pair[1], pair[2], rows, rules)})
<1>1. PICK R, Q : R = {d.source[2] : d \in dues} /\ Q = {d.source[3] : d \in dues}
    OBVIOUS
<1>2. rows \in [R -> 1 .. Cardinality(R)] /\ rules \in [Q -> 1 .. Cardinality(Q)]
    BY <1>1 DEF RowRankings, RuleRankings, Rankings, Injection
<1>3. \A n, i : i \in 1 .. n => i \in Int
    OBVIOUS
<1>4. ASSUME NEW d \in dues PROVE rows[d.source[2]] \in Int /\ rules[d.source[3]] \in Int
  <2>1. d.source[2] \in R /\ d.source[3] \in Q
      BY <1>1
  <2>2. rows[d.source[2]] \in 1 .. Cardinality(R) /\ rules[d.source[3]] \in 1 .. Cardinality(Q)
      BY <1>2, <2>1
  <2> QED
      BY <1>3, <2>2
<1>5. ASSUME NEW d \in dues, NEW e \in dues, SameTrack(d, e), Precedes(d, e, rows, rules)
      PROVE  d.effective <= e.effective
  <2>1. LexLess(PlaceOf(d, rows, rules), PlaceOf(e, rows, rules))
      BY <1>5, PrecedesIs
  <2> QED
      BY <1>4, <1>5, <2>1, ScheduledChained
<1> QED
    BY <1>5 DEF Chained

(* The keys of the other entries are no keys of losses. *)
LEMMA LossKeyIs ==
    ASSUME NEW s, IsKey(s)
    PROVE  Len(Append(s, "forfeiture")) = 5 /\ Append(s, "forfeiture")[5] = "forfeiture"
<1>1. PICK i, j, k, l : s = <<i, j, k, l>>
    BY DEF IsKey
<1>2. \E S : S = {i, j, k, l, "forfeiture"}
    OBVIOUS
<1>3. PICK S : i \in S /\ j \in S /\ k \in S /\ l \in S /\ "forfeiture" \in S
    BY <1>2
<1>4. PICK t \in Seq(S), x \in S : t = s /\ Len(t) = 4 /\ x = "forfeiture"
  <2>1. <<i, j, k, l>> \in Seq(S) /\ Len(<<i, j, k, l>>) = 4
      BY <1>3
  <2> QED
      BY <1>1, <1>3, <2>1
<1>5. Len(Append(t, x)) = Len(t) + 1
    OBVIOUS
<1>6. Append(t, x)[Len(t) + 1] = x
    OBVIOUS
<1> QED
    BY <1>4, <1>5, <1>6

LEMMA RolloverKeys ==
    ASSUME NEW s, IsKey(s), NEW a, NEW b, NEW c, NEW d, NEW e, e # "forfeiture"
    PROVE  <<a, b, c, d, e>> # Append(s, "forfeiture")
<1>1. <<a, b, c, d, e>>[5] = e
    OBVIOUS
<1> QED
    BY <1>1, LossKeyIs

LEMMA RequestKeys ==
    ASSUME NEW s, IsKey(s), NEW a, NEW b
    PROVE  <<a, b>> # Append(s, "forfeiture")
<1>1. Len(<<a, b>>) = 2
    OBVIOUS
<1> QED
    BY <1>1, LossKeyIs

CapInv == JobsInv /\ Keyed(ledger)

CapsKept == Keyed(ledger') /\ \A account : KeepsCaps(ledger, ledger', account)

LEMMA ScheduledCaps ==
    ASSUME CapInv, NEW asOf \in RunDates, RunScheduled(asOf)
    PROVE  CapsKept
<1>1. PICK dues : dues = ScheduledDues(asOf)
    OBVIOUS
<1>2. PICK rows \in RowRankings(dues), rules \in RuleRankings(dues) :
         Posted(AfterScheduled(ledger, asOf, rows, rules))
    BY <1>1 DEF RunScheduled
<1>3. PICK before : before = {pair \in dues \X dues : Precedes(pair[1], pair[2], rows, rules)}
    OBVIOUS
<1>4. PICK entries : entries = PostAll(ledger, dues, before)
    OBVIOUS
<1>5. ledger' = entries
    BY <1>1, <1>2, <1>3, <1>4 DEF AfterScheduled, Posted
<1>6. asOf \in Dates /\ ReadInv /\ Sound(ledger) /\ Keyed(ledger)
    BY AccrualAssumption DEF CapInv, JobsInv, EntriesOK
<1>7. Ordered(dues, before)
    BY <1>1, <1>3, <1>6, ScheduledInOrder
<1>8. Chained(dues, before)
    BY <1>1, <1>3, <1>6, ScheduledIsChained
<1>9. IsFiniteSet(dues) /\ \A due \in dues : DueFits(due)
    BY <1>1, <1>6, DuesFinite, ScheduledFits
<1>10. Keyed(entries) /\ \A account : KeepsCaps(ledger, entries, account)
    BY <1>4, <1>6, <1>7, <1>8, <1>9, AllKeepCaps
<1> QED
    BY <1>5, <1>10 DEF CapsKept

LEMMA PayrollCaps ==
    ASSUME CapInv, NEW run \in DOMAIN PayrollEnd, NEW E \in SUBSET Employees,
           NEW worked \in [E -> WorkedMinutes], PayrollProcessed(run, worked)
    PROVE  CapsKept
<1>1. PICK dues : dues = PayrollDues(run, worked)
    OBVIOUS
<1>2. PICK before : before = dues \X dues
    OBVIOUS
<1>3. PICK entries : entries = PostAll(ledger, dues, before)
    OBVIOUS
<1>4. ledger' = entries
    BY <1>1, <1>2, <1>3 DEF PayrollProcessed, Posted
<1>5. ReadInv /\ Sound(ledger) /\ Keyed(ledger)
    BY DEF CapInv, JobsInv, EntriesOK
<1>6. Ordered(dues, before)
    BY <1>2 DEF Ordered
<1>7. IsFiniteSet(dues) /\ \A due \in dues : DueFits(due)
    BY <1>1, <1>5, PayDuesFinite, PayrollFits
<1>8. \A due \in dues : due.effective = PayrollEnd[run]
    BY <1>1, PayDuesAre DEF PayDue
<1>9. Chained(dues, before)
  <2>1. PayrollEnd[run] \in Int
      BY AccrualAssumption, DateTypes
  <2>2. PayrollEnd[run] <= PayrollEnd[run]
      BY <2>1
  <2> QED
      BY <1>8, <2>2 DEF Chained
<1>10. Keyed(entries) /\ \A account : KeepsCaps(ledger, entries, account)
    BY <1>3, <1>5, <1>6, <1>7, <1>9, AllKeepCaps
<1> QED
    BY <1>4, <1>10 DEF CapsKept

(* Steps that add no credit and no loss. *)
LEMMA OtherCaps ==
    ASSUME CapInv, ledger \subseteq ledger', \A y \in ledger' \ ledger : ~ IsAccrual(y),
           \A y \in ledger' \ ledger : \A s : IsKey(s) => y.source # Append(s, "forfeiture")
    PROVE  CapsKept
<1>1. PICK entries : entries = ledger'
    OBVIOUS
<1>2. Keyed(entries)
    BY <1>1 DEF CapInv, Keyed, IsPosted
<1>3. \A account : KeepsCaps(ledger, entries, account)
    BY <1>1 DEF KeepsCaps, CreditsOf
<1> QED
    BY <1>1, <1>2, <1>3 DEF CapsKept

LEMMA CapsStep ==
    ASSUME CapInv, [AccrualNext]_accrualVars
    PROVE  CapsKept
<1>1. CASE UNCHANGED ledger
    BY <1>1, OtherCaps
<1>2. ASSUME NEW asOf \in RunDates, RunScheduled(asOf) PROVE CapsKept
    BY <1>2, ScheduledCaps
<1>3. ASSUME NEW run \in DOMAIN PayrollEnd, NEW E \in SUBSET Employees,
             NEW worked \in [E -> WorkedMinutes], PayrollProcessed(run, worked)
      PROVE  CapsKept
    BY <1>3, PayrollCaps
<1>4. ASSUME NEW asOf \in RolloverDates, Rollover(asOf) PROVE CapsKept
  <2>1. PICK periodEnd \in Int : ledger' = Post(ledger, RolloverLegs(periodEnd))
      BY <1>4, RolloverAdds DEF CapInv
  <2>2. ledger \subseteq ledger' /\ \A y \in ledger' \ ledger : y \in RolloverLegs(periodEnd)
      BY <2>1 DEF Post
  <2>3. ASSUME NEW y \in ledger' \ ledger
        PROVE  ~ IsAccrual(y) /\ \A s : IsKey(s) => y.source # Append(s, "forfeiture")
    <3>1. PICK row, v, balance : LegFrom(y, row, v, periodEnd, balance)
        BY <2>2, LegIs DEF CapInv, JobsInv, EntriesOK, Sound
    <3>2. /\ y.type \in {"EXPIRATION", "CARRYOVER"}
          /\ y.source = <<"PERIOD_ROLLOVER", row.policy, row.employee, periodEnd, y.type>>
        BY <3>1 DEF LegFrom
    <3>3. y.type # "forfeiture" /\ ~ IsAccrual(y)
        BY <3>2 DEF IsAccrual
    <3> QED
        BY <3>2, <3>3, RolloverKeys
  <2> QED
      BY <2>2, <2>3, OtherCaps
<1>5. ASSUME NEW r \in Requests, NEW row \in assignments, NEW date \in LeaveDates,
             NEW minutes \in LeaveMinutes, TakeLeave(r, row, date, minutes)
      PROVE  CapsKept
  <2>1. ledger \subseteq ledger'
        /\ \A y \in ledger' \ ledger : y.type = "DEBIT" /\ y.source = <<"REQUEST", r>>
      BY <1>5 DEF TakeLeave, Posted, Post
  <2>2. \A y \in ledger' \ ledger : ~ IsAccrual(y)
      BY <2>1 DEF IsAccrual
  <2>3. \A s : IsKey(s) => <<"REQUEST", r>> # Append(s, "forfeiture")
      BY RequestKeys
  <2> QED
      BY <2>1, <2>2, <2>3, OtherCaps
<1> QED
    BY <1>1, <1>2, <1>3, <1>4, <1>5 DEF AccrualNext, Administer, accrualVars

LEMMA CapInvariant == AccrualSpec => []CapInv
<1>1. AccrualInit => Keyed(ledger)
    BY DEF AccrualInit, Keyed
<1>2. CapInv /\ [AccrualNext]_accrualVars => CapInv'
  <2>1. SUFFICES ASSUME CapInv, [AccrualNext]_accrualVars PROVE CapInv'
      OBVIOUS
  <2>2. CapsKept
      BY <2>1, CapsStep
  <2>3. JobsInv'
      BY <2>1, JobsStep DEF CapInv
  <2>4. Keyed(ledger)'
      BY <2>2 DEF CapsKept, Keyed, IsPosted
  <2> QED
      BY <2>3, <2>4 DEF CapInv
<1>3. AccrualInit => CapInv
    BY <1>1, JobsInitInv DEF CapInv
<1> QED
    BY <1>2, <1>3, PTL DEF AccrualSpec

(* Credits that a job posts in the order of their dates never leave a      *)
(* balance above the cap of their version on the date they take effect,    *)
(* however many periods a run catches up with, in whatever order it takes  *)
(* assignments and rules, and whatever other jobs posted.                  *)
THEOREM CapAlwaysHolds == AccrualSpec => CapHolds
<1> DEFINE Step == \A account \in Employees \X Policies : KeepsCaps(ledger, ledger', account)
<1>1. CapInv /\ [AccrualNext]_accrualVars => [Step]_accrualVars
    BY CapsStep DEF CapsKept
<1>2. CapHolds <=> [][Step]_accrualVars
    BY DEF CapHolds, KeepsCaps, CreditsOf
<1> QED
    BY <1>1, <1>2, CapInvariant, PTL DEF AccrualSpec

=============================================================================
