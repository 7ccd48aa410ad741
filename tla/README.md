# Warp time-off tracking: TLA+ project

This directory specifies the backend under `src/backend/app`: what its request
workflow, ledger and cached balances do, one HTTP call at a time and in
concurrent database transactions; how audiences become assignments; what the
accrual jobs and the rollover post from them; and what all of this promises.
TLC checks small instances, TLAPS proves theorems for every value of the
constants.

## The system

A FastAPI server over PostgreSQL.  A route opens one session per call
(`db.py`), calls a service and commits; whatever raises is rolled back when the
session closes.  State lives in tables only; there are no background threads,
queues or caches in memory.  Concurrency is that of the server's threads, each
with a transaction of its own under READ COMMITTED.

| Part | State | Operations | Correct when |
| --- | --- | --- | --- |
| Request workflow (`request_service`, `api/requests`, `domain/requests`) | `time_off_requests`, `request_days`, `request_events` | preview, submit, approve, deny, cancel | one decision per request; no overlapping live leave; debits, reversals and holds follow the status; floors are respected |
| Ledger and snapshots (`ledger_service`) | `ledger_entries`, `balance_snapshots` | post, refresh, sum | a source is posted once; the cached balance is the ledger's sum |
| Accrual jobs (`accrual_service`, `domain/accrual`, `domain/periods`) | posts to the ledger, `job_runs` | scheduled run, payroll event | each period of an assignment is credited once, on a day it covers; a late run catches up; the cap holds; a replay changes nothing |
| Rollover (`rollover_service`, `domain/rollover`) | posts to the ledger, `job_runs` | yearly run | a year closes at zero and carries at most the cap |
| Policies (`policy_service`, `api/policies`) | `policies`, `policy_versions`, `accrual_rules` | create, publish a version | versions are ordered by number and date alike; history is not rewritten |
| Assignments and audiences (`assignment_service`, `group_service`) | `policy_assignments`, `employee_groups`, members, targets | assign, end, replace members, move an employee, set an audience, remove a group | one group per employee; one policy per category and date; assignments match the audience; the past is kept |
| Holidays (`holiday_service`, `api/holidays`) | `holidays` | add, import a year | frozen request days do not change |
| Clock (`clock`) | `demo_state` | set the demo date | started leave is not cancelled |
| Providers (`integrations`), balances, permissions, client | none of their own | read only | - |

They interact through the tables: a submission reads assignments, versions and
holidays, and freezes what it read into its own row; requests and jobs meet in
the ledger and in the one snapshot row of an account (employee and policy).
Changes of groups, targets and policies write assignments through one function,
`reconcile_policy`; the jobs read assignments and versions whenever they happen to
run, for dates that may be long past.  The hard behaviours are therefore in the snapshot row (who locks it when, who
overwrites it with what), in rows read before a lock and believed after it, in
deterministic keys that make replays harmless, in the two counters `balance`
and `hold` that four handlers and three jobs move, and in inclusive date ranges
that several calls cut, delete and begin in an order nobody foresaw.  `PROJECT.json` lists these
hazards with the lines where they bite.

## Modules

    MinuteSums            sums of amounts over finite sets
      LeaveAccounting     dates, prices, legs, idempotent posts, version choice
        TimeOffRequests   the handlers, each one atomic       --implements--> LeaveBudget
          RequestTransactions  their statements, interleaved  --implements--> TimeOffRequests
        AccrualCalendar   periods of a schedule, months of seniority
          PolicyRules     validation, what a rule is worth, the year-end plan
            PolicyAudience  groups, targets, versions and assignments
              Accruals    the jobs among those calls, on one ledger
    MC*                   the instances TLC checks
    *Proofs               theorems

`LeaveAccounting` has no state.  A date is a day number, a year a run of
`DaysPerYear` of them.  A ledger entry is `[account, amount, effective, source]`
with `source` the pair of `source_type` and `source_id`, the unique key that
`ON CONFLICT DO NOTHING` consults (`Post`).  A request keeps its charged dates
and one rate, since `request_days` charges every date alike; `Total` and
`YearMinutes` are the sums the code takes over its `request_days` rows.

`TimeOffRequests` has one variable per table, and an action per handler:

| Variable | Table | Action | Code |
| --- | --- | --- | --- |
| `today` | `demo_state` | `SetClock` | `clock.set_today` |
| `versions` | `policy_versions` | `PublishVersion` | `policy_service.update` |
| `holidays` | `holidays` | `AddHoliday`, `SyncHolidays` | `api/holidays`, `holiday_service` |
| `ledger`, `snapshots` | `ledger_entries`, `balance_snapshots` | `JobPost` | `ledger_service.post`, called by a job |
| `requests` | `time_off_requests`, `request_days` | `Submit`, `Approve`, `Deny`, `Cancel` | `request_service` |
| `events` | `request_events` | the same | the same |

A call that is refused rolls back and is no action.  The version of a request is
frozen in its row by value, as `policy_version_id` names a row that is never
updated.  `floor` is `negative_floor_minutes`, or 0 where the version allows no
negative balance.

`RequestTransactions` extends it with `tx`, what each open transaction has read,
locked and written; the variables of `TimeOffRequests` become the committed
rows.  Each action is a statement or a run of statements between which no other
transaction can be observed: the reads before the first lock (`BeginSubmit`,
`BeginDecide`, `BeginCancel`), the lock of the request (`LockRequest`, where the
row is read again), the lock of the snapshot or its insertion (`LockSnapshot`,
`MissSnapshot`, `InsertSnapshot`), the checks, holds and posts made while it is
locked (`CheckSubmit`, `CheckApprove`, `CheckDeny`, `CheckCancel`), the two
halves of a job's post (`JobInsert`, `JobUpsert`), the late write of a cancellation (`Flush`) and the commits.  `Crash` ends a
transaction at any statement and leaves no trace of it.  What PostgreSQL does
(`RequestFree`, `SnapshotFree`, `SourceFree`, `Blockers`, `Deadlocked`,
`AbortDeadlocked`) is external and modelled from how the code uses it: locks are
held to the end of the transaction, an upsert and an insert of a key wait for an
uncommitted one, a cycle of waits is broken by aborting one of its members.

`AccrualCalendar` and `PolicyRules` have no state either.  Months are given by the
dates they start on, so that an instance has long and short ones; `Containing`
gives the period of a date in each of the six schedules, `IterPeriods` those a
job visits.  The amounts are decimals with a fixed number of places, as the
columns are.

`PolicyAudience` has a variable per table of the administration, and an action
per call, whole with its reconciliation:

| Variable | Table | Action | Code |
| --- | --- | --- | --- |
| `groups`, `members` | `employee_groups`, `employee_group_members` | `CreateGroup`, `ReplaceMembers`, `RemoveGroup`, `SetEmployeeGroup` | `group_service`, `api/groups` |
| `versions` | `policies`, `policy_versions`, `accrual_rules` | `CreatePolicy`, `UpdatePolicy`, `UpdatePolicyAndAudience` | `policy_service`, `api/policies` |
| `everyone`, `targets` | `policies.all_employees`, `policy_group_targets` | `SetPolicyAudience` and the calls above | `group_service.set_policy_audience` |
| `assignments` | `policy_assignments` | `Assign`, `EndAssignment` and every call that reconciles | `assignment_service` |

`Reconciled` is `reconcile_policy`: rows that cover the date and are unwanted end the
day before or, if they begin on it, are deleted; whoever is missing gets a row
without an end.  `Collides` is the exclusion constraint; a collision raises, and
the whole call is no action.  Where a call reconciles several policies it takes
them in the order of their random identifiers, so that every order is possible
(`SetToSeqs`), except that a move reconciles what the employee leaves first
(`MoveOrders`).

`Accruals` lets the jobs run among those calls.  `ledger` is `ledger_entries`, and
`remade` counts how often a row of `policy_assignments` was deleted, because the
identifier of the row is part of the key a credit is posted under: a row is
`<<employee, policy, from, times remade>>`.  `ScheduledDues` is what a scheduled run
finds earned, posted before or not; `PostAccrual` posts one due with the loss its
cap asks for, `PostAll` all of them in sequence.  The run orders versions by number
and periods by date; assignments and rules come in whatever order the queries
return them (`RowRankings`, `RuleRankings`).  `PayrollProcessed`, `Rollover` and
`TakeLeave` (the approved requests of `TimeOffRequests`, seen from the ledger) are
the other writers, `Administer` the calls of `PolicyAudience`.

`LeaveBudget` is what the workflow promises, with neither ledger nor snapshot nor
hold: minutes granted, claims against them, and a floor that a claim must leave
when it is made and when it is confirmed.  `TimeOffRequests` maps to it through
the ledger's job entries and the status of the requests (`Budget`), so that the
refinement says the counters the code decides on are never wrong.

## Runs

| Run | Instance | Shows |
| --- | --- | --- |
| `mixed` | one employee, a metered and an unlimited policy in two categories (the second assignment ends early), two requests, three dates over two years, jobs of +3 and -1, two clock values, one possible holiday, versions that change floor or kind | the state invariants and two step properties of the workflow, down to what every balance is made of |
| `metered` | three requests on two metered accounts, the clock before every leave, otherwise the same | `TimeOffRequests` implements `LeaveBudget` |
| `decide` | three submissions (a floor that allows the first or the other two), four decisions, in seven transactions | concurrent submissions and decisions are serializable; one decision per request |
| `cancel` | decisions and two cancellations of one request, another submission | what holds in spite of stale cancellations; deadlocks are resolved |
| `jobs` | a job beside its replay or beside a job with another key, over two accounts in either order; submissions and decisions that post nothing | a key is posted once, a balance misses the post of at most one of the two keys, holds stay as they are, every call ends |
| `audience` | two employees, an administrator, two groups, two policies of one category, two dates that calls may use in any order, rows written and ended by hand, three drafts of which two are invalid | groups, versions and assignments agree whatever calls came before |
| `accruals` | one employee hired inside a month, one policy with two versions out of three drafts (two tiers from the start of a month, an uncapped carryover of 1; capped, at the end of the month, all expires; per minute worked, capped), runs early and late, a payroll, a rollover, one leave, an assignment that may end, be deleted and begin again | what the jobs credit, forfeit and carry |
| `overlap`, `cancel_race`, `job_race`, `unlimited`, `replay` | two or three calls each (`replay`: `accruals` with the capped draft alone) | the divergences below |

Bounds.  Three dates and `DaysPerYear = 2` give a request that crosses a year, one
that does not, one that is partly on holiday and one with no work day at all.
Two requests suffice for overlap and for a shared balance, the third one in
`metered` for a hold between two others.  `DayMinutes = 2` separates partial from
full days; the job amounts make balances that cover one request and not two, and
that fall after a submission.  In the `TimeOffRequests` runs `JobSources` has one key,
so that a second post of it is always a replay.  Approved requests under a
metered version that cross a year are rare in `mixed`; that their legs fall in the
right years and are reversed there rests on `LedgerTellsTheStatus`,
`LegsSumToTheTotal` and `BalancesAreExplained`, which hold for any dates.
In the transactions there are two keys, and `jobs` gives them different minutes (2 and
3), so that a balance tells which posts it counts.  Every call is made at most once,
a call may be refused, and two transactions may serve the same decision.  The
versions, the holidays and the clock stand still there: `mixed` shows that
what a request froze does not depend on them.

In `audience` two dates give every relation of a row to a date (before, on,
after), three rows one employee who moves and one who is assigned meanwhile, and
employees, groups and policies are interchangeable (`SYMMETRY`; the two
step properties of that run are safety properties, for which it is sound).  In
`accruals` ten dates are two years of two months, three and two days long: the
employee is hired on the last day of a long month, which the short ones do not have,
so that anniversaries fall back; the second version begins on the second day of a
short month, so that it splits a period; the scheduled job runs inside the
first month of employment and at the end of the horizon, so that the second run catches up
or repeats; nine entries let both runs, the payroll, the rollover and the leave
meet.  A credit that comes in after the rollover has expired its year, a
period credited by two versions, a forfeiture from either job and a
carryover all happen.

Fairness.  `TxFairness` is weak fairness of a transaction's own statements, which a
thread takes as soon as it is not blocked, and of the deadlock detector, which
PostgreSQL runs after `deadlock_timeout`.  No call has to be made and no crash has
to happen, and `AllServed` lets the server stand still only when nobody is
calling.  `EveryCallEnds` needs no strong fairness: a waiting statement becomes
and stays enabled once the calls ahead of it have ended, since no new ones come
in.  With an unlimited supply of calls PostgreSQL's queues would have to be
modelled.  In `jobs` and `cancel` transactions do wait in cycles (`AbortDeadlocked`
fires), and the property would fail without the detector.

### Divergences the runs exhibit

Five runs expect a violation; `PROJECT.json` quotes the texts they contradict.

* `overlap`: the overlap check reads before any lock, so that two submissions at
  once both pass it.  Run one after the other they never do (`NeverAwayTwice`).
* `cancel_race`: a cancellation believes the status it read before waiting.  An
  approval that commits in between keeps its debit, and the hold is released twice.
* `job_race`: `refresh_snapshot` sums before its upsert waits, so that a job can
  write back a balance older than a concurrent approval.  Two jobs with different
  keys (a payroll event or the rollover beside a scheduled run) do the same to
  each other: both insert and sum, and the second upsert writes a balance without the
  first one's post.
* `unlimited`: a cancellation under an unlimited policy credits minutes that were
  never debited, or releases a hold that was never taken.
* `replay`: a scheduled run that is repeated posts a forfeiture the first one did
  not, since it computes the cap's loss from a balance that already holds the
  credit it is about to find posted.

The passing runs are chosen to say what remains true: submissions and decisions
among themselves are serializable (`ImplementsSerial`), there is never more than
one decision, and jobs leave the holds alone.  `SnapshotIsLedgerSum` is
violated under the calls of `jobs` as well, because of its two keys.  That run checks
what is left of it: a key is posted once, and every balance is the sum of some
committed entries of its account, one at least (`BalancesCountPosts`).  Where all jobs
that overlap post one key, a job and its replay, there is one entry an account
and the balance is the ledger's sum.  `HoldIsPendingCost`, `LedgerFollowsStatus` and `LegsSumToTotal`
exclude requests made under unlimited versions because of `unlimited`, and
`RunsCatchUp` compares uncapped policies because of `replay`.

### Behaviour worth knowing

The model shows these too.  They are no findings, since no text of the repository
clearly says otherwise, and the properties are worded to hold beside them.

* A row that is deleted and written again has another identifier, and the
  scheduled job credits its periods a second time.  `OneCreditPerSlice` is per row.
* A version that begins inside a period credits that period on its first day
  when accruals fall on the start of a period, although the version before has.
  `OneCreditPerSlice` is per version.  `docs/edge-cases.md:10` has a new version
  be "future-effective", and the name of the test it cites says that only future periods
  change; that test publishes a version for the first day of a period and does
  not reach this case.
* Where credits are not posted in the order of their dates, because an account has
  several rows or a version was published for a date already run over, a later
  credit is not cut by an earlier one posted after it.  `CapHolds` says for
  which credits the cap is kept (`InDateOrder`), and does not detect this.
* When a new version lowers the cap, the next credit forfeits everything above
  the new cap, which may be more than the credit.
* Each leg of a rollover has its own key.  A rerun after a version was published for
  the year before may post the carryover for an expiration that was posted under
  another rule.  `RolloverSettles` is about the run that closes the year.
* Reconciling a policy for one employee assigns everybody else who is missing.  If
  one of them was given a policy of the same category by hand, the move of
  the first is refused.  `MovesSucceed` leaves that out (`PlainMove`), and does not
  detect it.

## Proofs

What is proved holds for any sets of employees, policies, categories, groups and
transactions, any calendar, any published versions, any calls and any order of
steps.  Requests, policies, employees and job keys are finitely many.  The constants are
assumed to satisfy the `ASSUME`s of their modules, which TLC evaluates on every
instance: a calendar of days and years (`CalendarAssumption`, `MonthAssumption`),
assignments that satisfy the exclusion constraint (`AssignmentAssumption`),
parameters in range (`ParameterAssumption`, `AudienceAssumption`,
`AccrualAssumption`), and calls that are well formed and submissions with an
identifier of their own, as `uuid4` gives them (`CallAssumption`).

| Module | Theorems | Inductive invariant |
| --- | --- | --- |
| `TimeOffRequestsProofs` | `TypeCorrect`, `SnapshotsAreSums`, `NeverAwayTwice` | each with `TypeOK` alone |
| `TimeOffHoldProofs` | `HoldsArePendingCosts` | `HoldIsPendingCost`, with `TypeOK` |
| `TimeOffLedgerProofs` | `LedgerTellsTheStatus`, `LegsSumToTheTotal`, `BalancesAreExplained` | `LedgerInv` |
| `TimeOffBudgetProofs` | `ApprovalsAreCovered`, `RequestsKeepTheFloor`, `MeteredRunsImplementBudget`, `BudgetIsImplemented` | `BudgetInv`, all of the above |
| `RequestTransactionsProofs` | `TransactionsAreTyped`, `DecidedOnce`, `DebitsAndApprovalsAreOne`, `DecisionsStandAlone`, `ServedOneByOne`, `ApartCallsAreSerial`, `HoldsSurviveJobs`, `LegsFollowInTransactions`, `BalancesStayWithoutJobs`, `BalancesAlwaysCountPosts` | `TxInv`, `SerialInv`, `FreeInv`; for overlapping jobs `KeysInv`, `CountInv` |
| `PolicyAudienceProofs` | `NeverInTwoGroups`, `AudienceIsTyped`, `NeverTwiceInACategory`, `VersionsStayInOrder`, `TheHistoryIsKept`, `TheAudienceTakesEffect`, `JobsAlwaysFindATier`, `MovesAlwaysSucceed` | `AudienceInv` |
| `AccrualsProofs` | `PeriodsAlwaysTile`, `TenureAlwaysCountsMonths`, `JobsWriteTypedEntries`, `OneCreditAlways`, `CreditsAlwaysFallWhereEarned`, `RolloverAlwaysSettles`, `RunsAlwaysCatchUp`, `CapAlwaysHolds` | `JobsInv`; for the cap `CapInv` |

`MinuteSumsProofs` holds what all of them need.  A sum is defined by counting minutes
rather than by recursion: `SumUnion` and `SumSingleton` then follow from the
library's facts about cardinality.  Two lemmas of first order stand in for
induction over data: every set of numbers has a least one (`LeastNumber`), and a
set of subsets that contains the empty one and is closed under adding an element
contains every finite one (`SubsetInduction`).

**Calls one by one.**  `PostingKeepsSums` is the heart of `SnapshotsAreSums`: entries
of one account do not touch another one's sum (`PostElsewhere`), legs of a request
have a source per year (`LegsOnePerSource`), and a post keeps sources apart
(`PostKeepsSources`), so that a handler has only to store the sum it leads to.
For the holds, a step moves the rows of one request and of its account
(`OnlyMoves`); other accounts keep their requests and rows (`HoldElsewhere`), and
on its own account a request is added to the pending ones, leaves them, or was not
among them, with the hold moved by its frozen total accordingly (`HoldHere`).
`LedgerFollowsStatus` is not inductive: a decision posts legs for the years
its dates fall in, which must be the ones a later reversal finds.
`LedgerInv` adds that a charged request has work dates (`ChargesDates`) and that legs
are on their request's account (`LegsOnAccount`).  From it the sum of the legs
and the balance as grants less approved minutes follow.  `BudgetInv` then
says that what the counters leave (`balance - hold`) is what the abstract
budget has left, so that the floor a handler reads is the floor promised, and
every handler is a step of `LeaveBudget` or a stutter.  Unlimited policies have
no budget to keep; `MeteredRunsImplementBudget` is about the runs in which no
request is made under one, and `BudgetIsImplemented` about companies without any
(`OnlyMetered`).

**Statements interleaved.**  `TxInv` is what holds whatever runs beside whatever.  It
types the sessions (`TypeInv`), says who holds which row and that a session that
locked a row has read its committed value (`LockInv`), what a session is about to
write in terms of the committed rows (`WriteInv`), and what the histories say of
decisions and debits (`DecisionInv`).  `DecidedOnce` and `DebitsAndApprovalsAreOne`
follow, and so does `DecisionsStandAlone`: an approval or a denial that commits is
the whole handler of `TimeOffRequests`, beside any stale cancellation, job or
overlapping submission.

The other two handlers are not, and the runs `cancel_race`, `overlap` and `job_race`
show why.  The refinement is therefore proved under hypotheses that say no more than that
those histories do not happen: nobody commits a decision or a cancellation of a
request while a transaction is cancelling it (`CancelsUnrivalled`), nobody commits
an overlapping submission of the same employee while one is in progress
(`SubmissionsApart`), and no job runs (`NoJobs`).  These are predicates of states,
so that `ServedOneByOne` is about every behaviour that never meets one of the races, whatever
calls the server could have been given; `ApartCallsAreSerial` derives them from the
calls alone, and `decide`, whose submissions ask for different dates, is an
instance of it.  Where jobs run too, the holds and the legs are still right
(`HoldsSurviveJobs`, `LegsFollowInTransactions`); without jobs the cached
balances are right in spite of the other two races (`BalancesStayWithoutJobs`).
What a balance is worth beside any jobs, and beside all the races, is
`BalancesAlwaysCountPosts`, which has no hypotheses.  `KeysInv` says that no key would be
posted twice even if every open transaction committed.  `CountInv` says of every
balance, committed or about to be, that it is the sum of one or more entries of the
account, committed or the writer's own; other commits only add entries, so that this
stays true of a sum grown old (`CountsGrow`).
`SerialInv` adds to `TxInv` that a submission's row is one its assignment and version still give
(`Placed`), that a job keeps the holds it found (`HoldsKept`) and that a
cancellation's row is the stored one (`Fresh`); `FreeInv` that a submission still
finds its dates free.

**Audiences.**  `AudienceInv` says that the tables refer to what exists (`TablesOK`),
that versions were validated and are in order by number and date alike
(`VersionsOK`), and that rows are in range and apart (`RowsOK`).  A call reconciles policies one after the other,
in an order nothing determines.  `SubsetInduction` over the policies that are
done carries the three facts that matter through it: rows stay apart, days before the date keep
the rows they had, and on the date each policy done has its audience.
`MovesAlwaysSucceed` needs one more invariant, that a policy for everybody targets no groups
(`EveryoneUntargeted`).

**Jobs.**  The calendar comes first: for any months and any anchor, the periods of a
schedule partition the dates (`PeriodsPartition`), those a job visits tile a row
(`RowIsTiled`), and seniority counts the anniversaries passed (`TenureIs`).

`PostAll` folds over the dues in an order that a `CHOOSE` picks them by.  Such a fold
is unfolded without induction over data: a function on the subsets of the dues
with the fold's recursion exists (`SequenceExists`, from `LeastNumber`), so that there
is a last due and a ledger it was posted to (`PostsInTurn`), and what removing
any one element leads to holds of every subset (`RemovalInduction`).  Both need
the order to leave no doubt which due is last.  It does: two dues of a scheduled
run with one place in its order are the same due (`SourceTellsDue`), because a row
is known by its identifier, a version by its number, a rule by its tier and a
period by its first day.

`JobsInv` adds to `AudienceInv` that versions are finitely many and known by their
numbers (`VersionsKnown`), that no source has two entries, and that every
credit carries the key of what it was earned for (`OriginOK`): the row or run, the
rule, and the date on which that rule was the one selected.  `OneCreditPerSlice` is
not inductive without it, since nothing else relates an old credit to the
tier a later run would select; with it, two credits of one slice name the same
date, on which the same rule was selected for both.  `OriginOK` survives the calls
of the administrators because versions are only added.

`RunsAlwaysCatchUp` rests on `DuesGrow`: what an early run finds due, a late one finds under
the same keys and worth the same.  Without a cap the order then makes
no difference (`UncappedPosting`).  For `CapAlwaysHolds` order is everything.  A run
posts the dues of one row, and of one rule under each version, by their dates
(`ScheduledChained`); a new credit leaves no more than its cap on its date and moves
no balance before it (`OnePost`); and credits of one date come from one version and one
cap (`OneInForce`).  `CapInv` adds that a forfeiture is never in the ledger without its
credit (`Keyed`): if it could be, `ON CONFLICT DO NOTHING` would drop the
loss of a credit that is still to be posted.  It also shows where `replay` gets
its way: a credit posted before lowers balances, and only lowers them.

Only model-checked: liveness (`EveryCallEnds`), which the provers cannot treat.

## Not modelled

* Concurrent administrators and jobs: the calls of `PolicyAudience` and `Accruals` are
  whole.  Two accruals that both read the balance before either posts, and
  two reconciliations without sight of each other's rows, are listed as
  hazards without a property.  (In `RequestTransactions` jobs are concurrent, with
  posts of some amount under a key.)
* In the request modules, the writes to `policy_assignments`: assignments are
  constants there, and the amounts of the jobs arbitrary.
* `job_runs`: written once per run and read by nobody who decides anything.
* One work calendar and one length of a work day serve all employees, where the
  code has one per employee.
* Names, reasons, colours and categories as data; a policy's category is a constant.
* The provider's holidays as such: `SyncHolidays` adds the ones of a constant set.
* Refused calls (no effect), previews, the balance page and other reads that
  change nothing.  (A preview inserts a missing snapshot, but its session is
  not committed.)
* Identity and permissions, providers, migrations, logging, the web client.

## Plan

1. A `refresh_snapshot` that locks the row before it sums, as a variant beside the
   code's, with a proof that `SnapshotIsLedgerSum` then holds beside any jobs.
2. Transactions for the calls of `PolicyAudience`, whose locks are those of the group
   and of the exclusion constraint, and for two jobs that accrue to one capped account.
3. Composition: jobs in `RequestTransactions` whose posts are those of `Accruals`.
