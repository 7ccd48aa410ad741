---------------------------- MODULE LeaveAccounting ----------------------------
(***************************************************************************)
(* The arithmetic every request transaction rests on, with no state of its *)
(* own: which dates a request charges, how its minutes split by year, what *)
(* a ledger sums to, and what an idempotent ledger write leaves behind.    *)
(*                                                                         *)
(* A date is a day number, a year is a run of DaysPerYear of them, and an  *)
(* account is a pair <<employee, policy>>.  The unit of DayMinutes is not  *)
(* important; the model checker uses small ones.                           *)
(***************************************************************************)
EXTENDS MinuteSums

CONSTANTS
    LastDate,      \* the last date of the horizon; the first one is 0
    DaysPerYear,   \* the length of a calendar year
    WorkDates,     \* the dates that fall on an employee's work days
    DayMinutes     \* the minutes of an employee's full work day

ASSUME CalendarAssumption ==
    /\ LastDate \in Nat
    /\ DaysPerYear \in Nat \ {0}
    /\ WorkDates \subseteq 0 .. LastDate
    /\ DayMinutes \in Nat \ {0}

Dates == 0 .. LastDate

YearOf(date) == date \div DaysPerYear

-----------------------------------------------------------------------------
(* What a request costs.  All charged dates of one request cost the same:  *)
(* its partial minutes, or the employee's full day.                        *)

WholeDay == 0

ValidPartial(start, end, partial) ==
    partial # WholeDay => start = end /\ partial \in 1 .. DayMinutes

ChargedDates(start, end, holidays) == ((start .. end) \cap WorkDates) \ holidays

MutMinutesPerDate_NoDefault(partial) == partial

MinutesPerDate(partial) == IF partial = WholeDay THEN DayMinutes ELSE partial

Total(request) == Cardinality(request.dates) * request.rate

DatesIn(request, year) == {d \in request.dates : YearOf(d) = year}

YearMinutes(request, year) == Cardinality(DatesIn(request, year)) * request.rate

(* The first charged date of each year the request touches. *)
FirstDates(request) ==
    {d \in request.dates : \A e \in DatesIn(request, YearOf(d)) : d <= e}

Overlaps(request, start, end) == request.start <= end /\ request.end >= start

-----------------------------------------------------------------------------
(* The ledger is a finite set of entries, at most one per source.          *)

EntriesOf(ledger, account) == {x \in ledger : x.account = account}

Balance(ledger, account) == SumAmounts(EntriesOf(ledger, account))

(* ON CONFLICT (source_type, source_id) DO NOTHING. *)
IsPosted(ledger, source) == \E x \in ledger : x.source = source

MutPost_NoConflictCheck(ledger, entries) == ledger \cup entries

Post(ledger, entries) ==
    ledger \cup {x \in entries : ~ IsPosted(ledger, x.source)}

(* One leg per year, effective on the first date the request charges in it. *)
Legs(type, id, request, sign) ==
    {[account |-> request.account, amount |-> sign * YearMinutes(request, YearOf(d)),
      effective |-> d, source |-> <<type, id, YearOf(d)>>] : d \in FirstDates(request)}

MutDebitLegs_WholeTotal(id, request) ==
    {[x EXCEPT !.amount = -Total(request)] : x \in Legs("REQUEST", id, request, -1)}

DebitLegs(id, request) == Legs("REQUEST", id, request, -1)

MutReversalLegs_DebitSource(id, request) == Legs("REQUEST", id, request, 1)

ReversalLegs(id, request) == Legs("REQUEST_CANCELLATION", id, request, 1)

-----------------------------------------------------------------------------
(* Policy versions. *)

Unlimited(version) == version.kind = "UNLIMITED"

EffectiveVersions(versions, date) == {v \in versions : v.from <= date}

(* The version with the latest effective date not after the given one. *)
IsEffectiveOn(version, versions, date) ==
    /\ version \in EffectiveVersions(versions, date)
    /\ \A w \in EffectiveVersions(versions, date) : w.from <= version.from

IsLatest(version, versions) == \A w \in versions : w.no <= version.no

=============================================================================
