------------------------------- MODULE Accruals -------------------------------
(***************************************************************************)
(* The jobs that write the ledger from policies and assignments: the       *)
(* scheduled accrual, the payroll event and the yearly rollover, each a    *)
(* whole call.  They run among the administrators' calls of PolicyAudience *)
(* and read the rows those leave, however old the ones are they read.      *)
(*                                                                         *)
(* The identifiers of rows are part of the keys the jobs post under.  That *)
(* of an assignment is its employee, policy and first date, and how often  *)
(* such a row was deleted before; that of a rule its version and its tier. *)
(***************************************************************************)
EXTENDS PolicyAudience

CONSTANTS
    Hired,            \* per employee: the date of hire
    PayrollEnd,       \* per payroll run: the last date it pays for
    WorkedMinutes,    \* bound: the minutes a payroll run reports
    RunDates,         \* bound: the dates the scheduled job runs for
    RolloverDates,    \* bound: the dates the rollover runs for
    Requests,         \* requests that may be approved
    LeaveDates,       \* bound: the dates they ask for
    LeaveMinutes,     \* bound: the minutes they cost
    MaxRemakes,       \* bound: how often an assignment row is deleted
    MaxEntries        \* bound: entries of the ledger

ASSUME AccrualAssumption ==
    /\ IsFiniteSet(Employees) /\ Hired \in [Employees -> Dates]
    /\ PayrollEnd \in [DOMAIN PayrollEnd -> Dates]
    /\ WorkedMinutes \subseteq Nat /\ LeaveMinutes \subseteq Nat \ {0}
    /\ RunDates \cup RolloverDates \cup LeaveDates \subseteq Dates
    /\ MaxRemakes \in Nat /\ MaxEntries \in Nat

VARIABLES
    ledger,    \* ledger_entries
    remade     \* per row key: how many such rows of policy_assignments are gone

accrualVars == <<audienceVars, ledger, remade>>

AccrualInit ==
    /\ AudienceInit
    /\ ledger = {}
    /\ remade = [k \in Employees \X Policies \X Dates |-> 0]

EntryTypes ==
    {"ACCRUAL", "FORFEITURE", "EXPIRATION", "CARRYOVER", "DEBIT"}

Account(row) == <<row.employee, row.policy>>

RowKey(row) == <<row.employee, row.policy, row.from>>

RowId(row) == Append(RowKey(row), remade[RowKey(row)])

RuleId(p, v, i) == <<p, v.no, v.terms.rules[i].tier>>

BalanceAsOf(entries, account, date) ==
    Balance({x \in entries : x.effective <= date}, account)

-----------------------------------------------------------------------------
(* Posting one credit.  What it earns is due whether or not it was posted  *)
(* before: a record [account, amount, effective, version, cap, source].    *)

MutLost_AfterTheCredit(before, amount, cap) ==
    IF cap = None THEN 0 ELSE Max({before - cap, 0})

(* What exceeds the cap is given up. *)
Lost(before, amount, cap) ==
    IF cap = None THEN 0 ELSE Max({before + amount - cap, 0})

Entry(due, type, amount, source) ==
    [account |-> due.account, type |-> type, amount |-> amount,
     effective |-> due.effective, version |-> due.version, source |-> source]

(* The balance is read before the credit is posted and the loss computed   *)
(* from it, even when the credit turns out to be there already.            *)
PostAccrual(entries, due) ==
    LET lost == Lost(BalanceAsOf(entries, due.account, due.effective), due.amount, due.cap)
    IN  Post(entries,
             {Entry(due, "ACCRUAL", due.amount, due.source)} \cup
             {Entry(due, "FORFEITURE", -x, Append(due.source, "forfeiture")) : x \in {lost} \ {0}})

(* Posting one after the other, in the order that before relates them. *)
PostAll(entries, dues, before) ==
    MapThenFoldSet(LAMBDA due, posted : PostAccrual(posted, due), entries, LAMBDA due : due,
                   LAMBDA D : CHOOSE x \in D : \A y \in D \ {x} : <<y, x>> \in before, dues)

-----------------------------------------------------------------------------
(* The scheduled job. *)

EligibleFrom(row) == Max({Hired[row.employee], row.from})

MutThrough_IgnoresEnd(row, asOf) == asOf

Through(row, asOf) == Min({asOf, row.to})

(* The date a period's credit takes effect: never before the employee is   *)
(* eligible under the version.                                             *)
EffectiveDate(period, rule, first) ==
    Max({first, IF rule.accruesAt = "START_OF_PERIOD" THEN period.start ELSE period.end})

MutTierDate_RunDate(period, asOf) == asOf

(* Seniority is taken at the start of the period. *)
TierDate(period, asOf) == period.start

MutEarns_Anything(amount) == TRUE

Earns(amount) == amount # 0

(* What one rule of one version earns a row, up to the date of the run. *)
RuleDues(row, v, i, asOf) ==
    LET rules == v.terms.rules
        first == Max({EligibleFrom(row), v.from})
        Worth(period) ==
            ScheduledAmount(rules[i], period, EligibleFrom(row), v.terms.proration)
        Earned(period) ==
            /\ EffectiveDate(period, rules[i], first) <= Through(row, asOf)
            /\ IsEffectiveOn(v, versions[row.policy], EffectiveDate(period, rules[i], first))
            /\ IsSelected(i, rules, "TIME",
                          CompletedTenureMonths(Hired[row.employee], TierDate(period, asOf)))
            /\ Earns(Worth(period))
    IN  {[account |-> Account(row), amount |-> Worth(period),
          effective |-> EffectiveDate(period, rules[i], first), version |-> v.no,
          cap |-> v.terms.cap,
          source |-> <<"SCHEDULED_ACCRUAL", RowId(row), RuleId(row.policy, v, i), period.start>>] :
            period \in {p \in IterPeriods(first, Through(row, asOf), rules[i].frequency) : Earned(p)}}

TimeRules(v) == {i \in DOMAIN v.terms.rules : v.terms.rules[i].method = "TIME"}

RowDues(row, asOf) ==
    UNION {UNION {RuleDues(row, v, i, asOf) : i \in TimeRules(v)} : v \in versions[row.policy]}

StartedRows(asOf) == {row \in assignments : row.from <= asOf}

ScheduledDues(asOf) == UNION {RowDues(row, asOf) : row \in StartedRows(asOf)}

(* Rows and the rules of a version come in an order nothing determines,    *)
(* versions by number and periods by date.                                 *)
Rankings(S) == Injection(S, 1 .. Cardinality(S))

RowRankings(dues) == Rankings({d.source[2] : d \in dues})

RuleRankings(dues) == Rankings({d.source[3] : d \in dues})

Precedes(x, y, rows, rules) ==
    LET Place(d) == <<rows[d.source[2]], d.version, rules[d.source[3]], d.source[4]>>
    IN  \E i \in 1 .. 4 : /\ Place(x)[i] < Place(y)[i]
                          /\ \A j \in 1 .. i - 1 : Place(x)[j] = Place(y)[j]

AfterScheduled(entries, asOf, rows, rules) ==
    LET dues == ScheduledDues(asOf)
    IN  PostAll(entries, dues, {pair \in dues \X dues : Precedes(pair[1], pair[2], rows, rules)})

Posted(entries) ==
    /\ ledger' = entries
    /\ Cardinality(ledger') <= MaxEntries
    /\ UNCHANGED <<audienceVars, remade>>

RunScheduled(asOf) ==
    LET dues == ScheduledDues(asOf)
    IN  \E rows \in RowRankings(dues), rules \in RuleRankings(dues) :
            Posted(AfterScheduled(ledger, asOf, rows, rules))

-----------------------------------------------------------------------------
(* The payroll event: worked per employee, for those it reports.           *)

PayrollDues(run, worked) ==
    LET date == PayrollEnd[run]
        Pays(row, v, i) ==
            /\ row.employee \in DOMAIN worked /\ Covers(row, date)
            /\ IsEffectiveOn(v, versions[row.policy], date)
            /\ IsSelected(i, v.terms.rules, "HOURS_WORKED",
                          CompletedTenureMonths(Hired[row.employee], date))
            /\ Earns(PayrollAmount(worked[row.employee], v.terms.rules[i]))
        Paid(row, v) ==
            {[account |-> Account(row),
              amount |-> PayrollAmount(worked[row.employee], v.terms.rules[i]),
              effective |-> date, version |-> v.no, cap |-> v.terms.cap,
              source |-> <<"PAYROLL_ACCRUAL", run, row.employee, RuleId(row.policy, v, i)>>] :
                i \in {j \in DOMAIN v.terms.rules : Pays(row, v, j)}}
    IN  UNION {UNION {Paid(row, v) : v \in versions[row.policy]} : row \in assignments}

(* One due per account, so that their order makes no difference. *)
PayrollProcessed(run, worked) ==
    LET dues == PayrollDues(run, worked)
    IN  Posted(PostAll(ledger, dues, dues \X dues))

-----------------------------------------------------------------------------
(* The rollover of the year before the given date. *)

LegsOf(row, v, periodEnd) ==
    {[account |-> Account(row), type |-> leg.type, amount |-> leg.amount,
      effective |-> leg.effective, version |-> v.no,
      source |-> <<"PERIOD_ROLLOVER", row.policy, row.employee, periodEnd, leg.type>>] :
        leg \in Plan(BalanceAsOf(ledger, Account(row), periodEnd), periodEnd, v.terms)}

RolloverLegs(periodEnd) ==
    UNION {UNION {LegsOf(row, v, periodEnd) :
                    v \in {w \in versions[row.policy] :
                             /\ IsEffectiveOn(w, versions[row.policy], periodEnd)
                             /\ ~ Unlimited(w.terms)}} :
             row \in {x \in assignments : Covers(x, periodEnd)}}

Rollover(asOf) == Posted(Post(ledger, RolloverLegs(YearOf(asOf) * DaysPerYear - 1)))

-----------------------------------------------------------------------------
(* What else happens: an approved request takes minutes, and               *)
(* administrators make the calls of PolicyAudience.                        *)

TakeLeave(r, row, date, minutes) ==
    /\ row \in assignments /\ Covers(row, date)
    /\ ~ IsPosted(ledger, <<"REQUEST", r>>)
    /\ \E v \in versions[row.policy] :
        /\ IsEffectiveOn(v, versions[row.policy], date)
        /\ ~ Unlimited(v.terms)
        /\ Balance(ledger, Account(row)) - minutes >=
              (IF v.terms.allowNegative THEN v.terms.floor ELSE 0)
        /\ Posted(Post(ledger, {[account |-> Account(row), type |-> "DEBIT", amount |-> -minutes,
                                 effective |-> date, version |-> v.no,
                                 source |-> <<"REQUEST", r>>]}))

(* A deleted row's identifier is never used again. *)
Remade ==
    LET Gone == {RowKey(x) : x \in assignments} \ {RowKey(x) : x \in assignments'}
    IN  /\ remade' = [k \in DOMAIN remade |-> IF k \in Gone THEN remade[k] + 1 ELSE remade[k]]
        /\ \A k \in DOMAIN remade : remade'[k] <= MaxRemakes

Administer == AudienceNext /\ Remade /\ UNCHANGED ledger

AccrualNext ==
    \/ Administer
    \/ \E asOf \in RunDates : RunScheduled(asOf)
    \/ \E run \in DOMAIN PayrollEnd, E \in SUBSET Employees :
          \E worked \in [E -> WorkedMinutes] : PayrollProcessed(run, worked)
    \/ \E asOf \in RolloverDates : Rollover(asOf)
    \/ \E r \in Requests, row \in assignments, date \in LeaveDates, minutes \in LeaveMinutes :
          TakeLeave(r, row, date, minutes)

AccrualSpec == AccrualInit /\ [][AccrualNext]_accrualVars

-----------------------------------------------------------------------------
(* Properties. *)

IsAccrual(x) == x.type = "ACCRUAL"

IsScheduled(x) == x.source[1] = "SCHEDULED_ACCRUAL"

Uncapped(p) == \A v \in versions[p] : v.terms.cap = None

VersionOf(x) == CHOOSE v \in versions[x.account[2]] : v.no = x.version

(* Entries have their shapes and an amount, refer to versions that exist,  *)
(* and no source has two of them.                                          *)
AccrualTypeOK ==
    /\ \A x \in ledger :
        /\ x.account \in Employees \X Policies
        /\ x.type \in EntryTypes
        /\ x.amount \in Int \ {0}
        /\ x.effective \in Dates
        /\ \E v \in versions[x.account[2]] : v.no = x.version
    /\ \A x, y \in ledger : x.source = y.source => x = y
    /\ remade \in [Employees \X Policies \X Dates -> 0 .. MaxRemakes]

(* What a credit is earned for: a period of a row, or a payroll run. *)
Slice(x) ==
    IF IsScheduled(x)
    THEN <<x.source[2], x.source[4]>>
    ELSE <<x.source[2], x.account>>

(* Under one version a period of a row, or a payroll run, is credited      *)
(* once, whatever the employee's seniority was when the jobs ran: a tier   *)
(* reached inside a period does not earn it a second time.                 *)
OneCreditPerSlice ==
    \A x, y \in {z \in ledger : IsAccrual(z)} :
        x.source[1] = y.source[1] /\ Slice(x) = Slice(y) /\ x.version = y.version => x = y

(* A late run of the scheduled job catches up: having run before makes no  *)
(* difference to what it leaves, where no cap applies.                     *)
RunsCatchUp ==
    \A early, late \in RunDates :
        LET rows(d) == CHOOSE r \in RowRankings(ScheduledDues(d)) : TRUE
            rules(d) == CHOOSE r \in RuleRankings(ScheduledDues(d)) : TRUE
            After(entries, d) == AfterScheduled(entries, d, rows(d), rules(d))
            Free(entries) == {x \in entries : Uncapped(x.account[2])}
        IN  early <= late => Free(After(After(ledger, early), late)) = Free(After(ledger, late))

(* Running the scheduled job again for the same date posts nothing, caps   *)
(* included: the replay rule of the services' design.                      *)
ReplayIsNoOp ==
    \A asOf \in RunDates :
        LET dues == ScheduledDues(asOf)
        IN  \A rows \in RowRankings(dues), rules \in RuleRankings(dues) :
                LET once == AfterScheduled(ledger, asOf, rows, rules)
                IN  AfterScheduled(once, asOf, rows, rules) = once

Days(row) == row.from .. Min({row.to, LastDate})

(* Every day of an assignment is in exactly one of the periods the job     *)
(* visits for it, whatever the schedule, across months of different        *)
(* lengths, pay periods counted from the anchor and the end of a year.     *)
PeriodsTile ==
    \A row \in assignments, schedule \in Schedules :
        LET visited == IterPeriods(row.from, Min({row.to, LastDate}), schedule)
        IN  \A date \in Days(row) : \E p \in visited :
                {q \in visited : date \in q.start .. q.end} = {p}

(* The date of a later month an employee completes a month on. *)
Anniversary(hired, month) == Min({month + DayOfMonth(hired) - 1, MonthEnd(month)})

(* On every day of an assignment the months its employee has completed are *)
(* the anniversaries passed, also when the day of hire is one that a       *)
(* shorter month does not have.                                            *)
TenureCountsMonths ==
    \A row \in assignments : LET hired == Hired[row.employee] IN
        \A date \in Days(row) :
            CompletedTenureMonths(hired, date) =
                Cardinality({m \in MonthStarts : m > hired /\ Anniversary(hired, m) <= date})

(* A new scheduled credit falls on a date its employee is eligible for     *)
(* under an assignment of the moment, and comes from the version in force  *)
(* on that very date.                                                      *)
CreditsFallWhereEarned ==
    [][\A x \in ledger' \ ledger :
          IsAccrual(x) /\ IsScheduled(x) =>
              /\ Hired[x.account[1]] <= x.effective
              /\ x.account[1] \in EligibleOn(assignments, x.account[2], x.effective)
              /\ IsEffectiveOn(VersionOf(x), versions[x.account[2]], x.effective)]_accrualVars

(* The credits a step added to an account come in the order of their       *)
(* dates: from one row, and from one rule of each version.                 *)
InDateOrder(credits) ==
    \A x, y \in credits :
        /\ x.source[1] = y.source[1] /\ x.source[2] = y.source[2]
        /\ IsScheduled(x) /\ x.version = y.version => x.source[3] = y.source[3]

(* Credits posted in the order of their dates never leave a balance above  *)
(* the cap of their version on the date they take effect, however many     *)
(* periods a run catches up with and whatever other jobs posted.           *)
CapHolds ==
    [][\A account \in Employees \X Policies :
          LET credits == {x \in ledger' \ ledger : x.account = account /\ IsAccrual(x)}
          IN  InDateOrder(credits) =>
                  \A x \in credits :
                      VersionOf(x).terms.cap # None =>
                          BalanceAsOf(ledger', account, x.effective) <= VersionOf(x).terms.cap
      ]_accrualVars

(* A rollover that closes an account's year leaves nothing on its last     *)
(* day, and carries into the next one no more than it took and no more     *)
(* than the version then in force allows.                                  *)
RolloverSettles ==
    [][\A x \in ledger' \ ledger :
          x.type = "EXPIRATION" =>
              LET carried == SumAmounts({y \in ledger' \ ledger :
                                           y.type = "CARRYOVER" /\ y.account = x.account})
              IN  /\ BalanceAsOf(ledger', x.account, x.effective) = 0
                  /\ carried <= -x.amount
                  /\ carried <= (IF VersionOf(x).terms.expires
                                 THEN 0 ELSE VersionOf(x).terms.carryover)]_accrualVars

=============================================================================
