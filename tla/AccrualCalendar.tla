---------------------------- MODULE AccrualCalendar ----------------------------
(***************************************************************************)
(* The calendar the accrual jobs plan on: which period of a schedule a     *)
(* date falls in, and how many months an employee has completed.  Months   *)
(* are given by the dates they start on, so that their lengths may differ. *)
(***************************************************************************)
EXTENDS LeaveAccounting, FiniteSetsExt

CONSTANTS
    MonthStarts,   \* the first date of each month of the horizon
    HalfMonth,     \* the days of the first half of a month (15 in the code)
    WeekLength,    \* the days of a week (7 in the code)
    PayAnchor      \* a date on which a pay period of the company starts

ASSUME MonthAssumption ==
    /\ MonthStarts \subseteq Dates
    /\ \A d \in Dates : d % DaysPerYear = 0 => d \in MonthStarts
    /\ (LastDate + 1) % DaysPerYear = 0
    /\ HalfMonth \in Nat \ {0} /\ WeekLength \in Nat \ {0}
    /\ \A m \in MonthStarts : MonthStarts \cap (m + 1 .. m + HalfMonth) = {}
    /\ PayAnchor \in Int

Schedules == {"DAILY", "WEEKLY", "BIWEEKLY", "SEMIMONTHLY", "MONTHLY", "YEARLY"}

MonthStart(date) == Max({m \in MonthStarts : m <= date})

MonthEnd(date) == Min({m \in MonthStarts : m > date} \cup {LastDate + 1}) - 1

DayOfMonth(date) == date - MonthStart(date) + 1

(* The pay period of some days that holds the date, counted from the       *)
(* anchor in both directions.                                              *)
PayPeriod(date, stride) ==
    LET start == PayAnchor + ((date - PayAnchor) \div stride) * stride
    IN  [start |-> start, end |-> start + stride - 1]

MutContaining_WholeMonths(date, schedule) ==
    IF schedule = "SEMIMONTHLY" /\ DayOfMonth(date) <= HalfMonth
    THEN [start |-> MonthStart(date), end |-> MonthStart(date) + HalfMonth - 1]
    ELSE [start |-> MonthStart(date), end |-> MonthEnd(date)]

Containing(date, schedule) ==
    CASE schedule = "DAILY" -> [start |-> date, end |-> date]
      [] schedule = "WEEKLY" -> PayPeriod(date, WeekLength)
      [] schedule = "BIWEEKLY" -> PayPeriod(date, 2 * WeekLength)
      [] schedule = "SEMIMONTHLY" /\ DayOfMonth(date) <= HalfMonth ->
            [start |-> MonthStart(date), end |-> MonthStart(date) + HalfMonth - 1]
      [] schedule = "SEMIMONTHLY" /\ DayOfMonth(date) > HalfMonth ->
            [start |-> MonthStart(date) + HalfMonth, end |-> MonthEnd(date)]
      [] schedule = "MONTHLY" -> [start |-> MonthStart(date), end |-> MonthEnd(date)]
      [] schedule = "YEARLY" ->
            [start |-> YearOf(date) * DaysPerYear, end |-> (YearOf(date) + 1) * DaysPerYear - 1]

MutIterPeriods_CurrentOnly(first, through, schedule) == {Containing(through, schedule)}

(* iter_periods steps from the end of one period to the next.  Since the   *)
(* periods of a schedule tile the calendar, it visits those of the dates   *)
(* from the first one to the last one.                                     *)
IterPeriods(first, through, schedule) ==
    {p \in {Containing(d, schedule) : d \in {first} \cup (first .. through)} : p.start <= through}

(* Month-end hires complete a month on the last day of a shorter one. *)
MutCompletedTenureMonths_NoClamp(hired, date) ==
    LET months == Cardinality({m \in MonthStarts : hired < m /\ m <= date})
    IN  Max({0, IF DayOfMonth(date) < DayOfMonth(hired) THEN months - 1 ELSE months})

CompletedTenureMonths(hired, date) ==
    LET months == Cardinality({m \in MonthStarts : hired < m /\ m <= date})
        anniversary == Min({DayOfMonth(hired), MonthEnd(date) - MonthStart(date) + 1})
    IN  Max({0, IF DayOfMonth(date) < anniversary THEN months - 1 ELSE months})

=============================================================================
