---------------------------- MODULE TimeOffRequests ----------------------------
(***************************************************************************)
(* The request workflow with every HTTP request run to its end before the  *)
(* next one starts: each action is a whole handler, from its first read to *)
(* its commit.  RequestTransactions runs the same handlers statement by    *)
(* statement.                                                              *)
(*                                                                         *)
(* A handler that raises rolls its session back, so that a refused call    *)
(* changes nothing and is not an action.  Around the workflow move the     *)
(* clock, the published policy versions, the holiday calendar and the jobs *)
(* that post to the ledger.                                                *)
(***************************************************************************)
EXTENDS LeaveAccounting, Sequences

CONSTANTS
    Employees, Policies, Categories, Requests,
    Assignments,    \* rows [employee, category, policy, from, to]
    FirstVersion,   \* per policy: the version it was created with
    Floors,         \* the balance floors of policy versions
    Partials,       \* WholeDay, and the partial minutes employees ask for
    JobSources,     \* the deterministic keys the jobs post under
    JobAmounts,     \* the amounts the jobs post
    JobDates,       \* bound: the dates their entries take effect
    HolidayDates,   \* bound: the dates that may become holidays
    StatutoryDates, \* the holidays the external calendar knows
    ClockDates,     \* bound: the dates the clock shows
    NewVersions,    \* bound: [from, kind, floor] of the versions published later
    MaxVersions,    \* bound: published versions per policy
    None            \* no row

Kinds == {"ACCRUAL", "UNLIMITED"}

Statuses == {"PENDING", "APPROVED", "DENIED", "CANCELLED"}

Live == {"PENDING", "APPROVED"}

Accounts == Employees \X Policies

AssignedAccounts == {<<a.employee, a.policy>> : a \in Assignments}

(* The rows of the tables. *)

EntryType ==
    [account : Accounts, amount : Int, effective : Dates,
     source : ({"JOB"} \X JobSources \X Accounts)
                 \cup ({"REQUEST", "REQUEST_CANCELLATION"} \X Requests \X Int)]

VersionType == [no : Nat, from : Dates, kind : Kinds, floor : Floors]

RequestType ==
    [employee : Employees, account : Accounts, version : VersionType, start : Dates,
     end : Dates, dates : SUBSET Dates, rate : 1 .. DayMinutes, status : Statuses]

SnapshotType == [balance : Int, hold : Int]

EventType == [from : Statuses \cup {None}, to : Statuses]

(* The exclusion constraint of policy_assignments: one row per employee    *)
(* and category covers a date.  A row without an end has to = LastDate.    *)
ASSUME AssignmentAssumption ==
    /\ Assignments \subseteq [employee : Employees, category : Categories,
                              policy : Policies, from : Dates, to : Dates]
    /\ \A a, b \in Assignments :
          a.employee = b.employee /\ a.category = b.category /\ a # b =>
             a.to < b.from \/ b.to < a.from

ASSUME ParameterAssumption ==
    /\ Floors \subseteq Int /\ 0 \in Floors
    /\ \A f \in Floors : f <= 0
    /\ FirstVersion \in [Policies -> [no : {1}, from : Dates, kind : Kinds, floor : Floors]]
    /\ NewVersions \subseteq [from : Dates, kind : Kinds, floor : Floors]
    /\ Partials \subseteq 0 .. DayMinutes
    /\ JobAmounts \subseteq Int
    /\ JobDates \cup HolidayDates \cup StatutoryDates \cup ClockDates \subseteq Dates
    /\ MaxVersions \in Nat \ {0}
    /\ None \notin RequestType \cup SnapshotType
    /\ IsFiniteSet(Requests) /\ IsFiniteSet(JobSources)

VARIABLES
    today,       \* the clock, which the demo control may set to any date
    versions,    \* per policy: its published versions
    holidays,    \* the company's holiday dates
    ledger,      \* the ledger entries
    snapshots,   \* per account: [balance, hold], or None
    requests,    \* per request id: its row with its frozen days, or None
    events       \* per request id: its request_events, oldest first

vars == <<today, versions, holidays, ledger, snapshots, requests, events>>

Init ==
    /\ today \in ClockDates
    /\ versions = [p \in Policies |-> {FirstVersion[p]}]
    /\ holidays = {}
    /\ ledger = {}
    /\ snapshots = [a \in Accounts |-> None]
    /\ requests = [r \in Requests |-> None]
    /\ events = [r \in Requests |-> <<>>]

-----------------------------------------------------------------------------
(* Reading and refreshing the snapshot of an account. *)

(* The row, or the one first use inserts. *)
Snapshot(a) ==
    IF snapshots[a] = None
    THEN [balance |-> Balance(ledger, a), hold |-> 0]
    ELSE snapshots[a]

(* The row after entries of one account were posted: refreshed when one of *)
(* them was new, as it was when all of them were there already.            *)
Refreshed(row, a, entries) ==
    IF Post(ledger, entries) = ledger
    THEN row
    ELSE [row EXCEPT !.balance = Balance(Post(ledger, entries), a)]

-----------------------------------------------------------------------------
(* The request handlers. *)

LiveRequests(e) ==
    {r \in Requests : requests[r] # None /\ requests[r].employee = e /\ requests[r].status \in Live}

MutFree_PendingOnly(e, start, end) ==
    \A r \in LiveRequests(e) :
        requests[r].status = "PENDING" => ~ Overlaps(requests[r], start, end)

FreeOfOverlap(e, start, end) ==
    \A r \in LiveRequests(e) : ~ Overlaps(requests[r], start, end)

(* The assignment that covers the whole range; the code looks it up by its *)
(* first date and then compares its end.                                   *)
Covers(a, e, c, start, end) ==
    a.employee = e /\ a.category = c /\ a.from <= start /\ start <= a.to /\ end <= a.to

(* The row a submission inserts, priced on the calendar of the moment. *)
NewRequest(e, p, version, start, end, partial) ==
    [employee |-> e, account |-> <<e, p>>, version |-> version, start |-> start,
     end |-> end, dates |-> ChargedDates(start, end, holidays),
     rate |-> MinutesPerDate(partial), status |-> "PENDING"]

MutAffordable_IgnoresHolds(row, request) ==
    ~ Unlimited(request.version) => row.balance - Total(request) >= request.version.floor

Affordable(row, request) ==
    ~ Unlimited(request.version) =>
        row.balance - row.hold - Total(request) >= request.version.floor

Submit(r, e, c, start, end, partial) ==
    /\ requests[r] = None
    /\ start <= end /\ ValidPartial(start, end, partial)
    /\ \E a \in Assignments : \E version \in versions[a.policy] :
        LET request == NewRequest(e, a.policy, version, start, end, partial)
            account == request.account
            row == Snapshot(account)
        IN  /\ Covers(a, e, c, start, end)
            /\ IsEffectiveOn(version, versions[a.policy], start)
            /\ request.dates # {}
            /\ FreeOfOverlap(e, start, end)
            /\ Affordable(row, request)
            /\ requests' = [requests EXCEPT ![r] = request]
            /\ snapshots' = [snapshots EXCEPT ![account] =
                  IF Unlimited(version) THEN row ELSE [row EXCEPT !.hold = @ + Total(request)]]
    /\ events' = [events EXCEPT ![r] = <<[from |-> None, to |-> "PENDING"]>>]
    /\ UNCHANGED <<today, versions, holidays, ledger>>

Move(r, status) ==
    /\ requests' = [requests EXCEPT ![r].status = status]
    /\ events' = [events EXCEPT ![r] = Append(@, [from |-> requests[r].status, to |-> status])]

IsPending(r) == requests[r] # None /\ requests[r].status = "PENDING"

MutStillCovered_Unchecked(row, request) == TRUE

(* An approval checks the balance again: the hold already counts this      *)
(* request.  The version is the frozen one, whatever was published since.  *)
StillCovered(row, request) ==
    ~ Unlimited(request.version) => row.balance - row.hold >= request.version.floor

Approve(r) ==
    /\ IsPending(r)
    /\ LET request == requests[r]
           row == Snapshot(request.account)
           debits == DebitLegs(r, request)
       IN  /\ StillCovered(row, request)
           /\ IF Unlimited(request.version)
              THEN /\ snapshots' = [snapshots EXCEPT ![request.account] = row]
                   /\ UNCHANGED ledger
              ELSE /\ ledger' = Post(ledger, debits)
                   /\ snapshots' = [snapshots EXCEPT ![request.account] =
                        [Refreshed(row, request.account, debits) EXCEPT
                            !.hold = @ - Total(request)]]
    /\ Move(r, "APPROVED")
    /\ UNCHANGED <<today, versions, holidays>>

MutDeny_KeepsHold(r) ==
    /\ IsPending(r)
    /\ Move(r, "DENIED")
    /\ UNCHANGED <<today, versions, holidays, ledger, snapshots>>

Deny(r) ==
    /\ IsPending(r)
    /\ LET request == requests[r]
           row == Snapshot(request.account)
       IN  snapshots' = [snapshots EXCEPT ![request.account] =
               IF Unlimited(request.version) THEN row ELSE [row EXCEPT !.hold = @ - Total(request)]]
    /\ Move(r, "DENIED")
    /\ UNCHANGED <<today, versions, holidays, ledger>>

(* Neither branch of a cancellation asks whether the policy is unlimited. *)
Cancel(r) ==
    /\ requests[r] # None
    /\ requests[r].status \in Live
    /\ today < requests[r].start
    /\ LET request == requests[r]
           row == Snapshot(request.account)
           reversals == ReversalLegs(r, request)
       IN  IF request.status = "PENDING"
           THEN /\ snapshots' = [snapshots EXCEPT ![request.account] =
                     [row EXCEPT !.hold = @ - Total(request)]]
                /\ UNCHANGED ledger
           ELSE /\ ledger' = Post(ledger, reversals)
                /\ snapshots' = [snapshots EXCEPT ![request.account] =
                     Refreshed(row, request.account, reversals)]
    /\ Move(r, "CANCELLED")
    /\ UNCHANGED <<today, versions, holidays>>

-----------------------------------------------------------------------------
(* What moves around the workflow. *)

JobEntry(source, a, minutes, date) ==
    [account |-> a, amount |-> minutes, effective |-> date, source |-> <<"JOB", source, a>>]

(* One ledger_service.post of an accrual or rollover job.  Its key says    *)
(* which accrual it is; a second post under it inserts nothing.            *)
JobPost(source, a, minutes, date) ==
    LET entries == {JobEntry(source, a, minutes, date)}
        row == IF snapshots[a] = None THEN [balance |-> 0, hold |-> 0] ELSE snapshots[a]
    IN  /\ ledger' = Post(ledger, entries)
        /\ snapshots' = IF ledger' = ledger
                        THEN snapshots
                        ELSE [snapshots EXCEPT ![a] = Refreshed(row, a, entries)]
        /\ UNCHANGED <<today, versions, holidays, requests, events>>

(* A new version must start after the newest one. *)
PublishVersion(p, from, kind, floor) ==
    /\ Cardinality(versions[p]) < MaxVersions
    /\ \E latest \in versions[p] :
        /\ IsLatest(latest, versions[p])
        /\ from > latest.from
        /\ versions' = [versions EXCEPT ![p] = @ \cup
              {[no |-> latest.no + 1, from |-> from, kind |-> kind, floor |-> floor]}]
    /\ UNCHANGED <<today, holidays, ledger, snapshots, requests, events>>

AddHoliday(date) ==
    /\ holidays' = holidays \cup {date}
    /\ UNCHANGED <<today, versions, ledger, snapshots, requests, events>>

(* The external calendar's holidays of a year join those there are. *)
SyncHolidays(year) ==
    /\ holidays' = holidays \cup {d \in StatutoryDates : YearOf(d) = year}
    /\ UNCHANGED <<today, versions, ledger, snapshots, requests, events>>

SetClock(date) ==
    /\ today' = date
    /\ UNCHANGED <<versions, holidays, ledger, snapshots, requests, events>>

Next ==
    \/ \E r \in Requests, e \in Employees, c \in Categories, start, end \in Dates,
          partial \in Partials : Submit(r, e, c, start, end, partial)
    \/ \E r \in Requests : Approve(r) \/ Deny(r) \/ Cancel(r)
    \/ \E source \in JobSources, a \in AssignedAccounts, minutes \in JobAmounts,
          date \in JobDates : JobPost(source, a, minutes, date)
    \/ \E p \in Policies, v \in NewVersions : PublishVersion(p, v.from, v.kind, v.floor)
    \/ \E date \in HolidayDates : AddHoliday(date)
    \/ \E year \in {YearOf(d) : d \in StatutoryDates} : SyncHolidays(year)
    \/ \E date \in ClockDates : SetClock(date)

Spec == Init /\ [][Next]_vars

-----------------------------------------------------------------------------
(* Properties. *)

(* The variables have the shapes of the tables they stand for. *)
TypeOK ==
    /\ today \in Dates
    /\ versions \in [Policies -> SUBSET VersionType]
    /\ holidays \subseteq Dates
    /\ ledger \subseteq EntryType /\ IsFiniteSet(ledger)
    /\ snapshots \in [Accounts -> SnapshotType \cup {None}]
    /\ requests \in [Requests -> RequestType \cup {None}]
    /\ events \in [Requests -> Seq(EventType)]

(* Every ledger entry has a source of its own, and an account without a    *)
(* snapshot has none: the cached balance is the sum of the ledger after    *)
(* every request and job, the promise of ledger_service.                   *)
SnapshotIsLedgerSum ==
    /\ \A x, y \in ledger : x.source = y.source => x = y
    /\ \A a \in Accounts :
          IF snapshots[a] = None
          THEN EntriesOf(ledger, a) = {}
          ELSE snapshots[a].balance = Balance(ledger, a)

RequestsOn(a) == {r \in Requests : requests[r] # None /\ requests[r].account = a}

(* No request of the account was made under an unlimited version. *)
Metered(a) == \A r \in RequestsOn(a) : ~ Unlimited(requests[r].version)

CostOf(R) == SumAmounts({[request |-> r, amount |-> Total(requests[r])] : r \in R})

PendingOn(a) == {r \in RequestsOn(a) : requests[r].status = "PENDING"}

(* The hold of a metered account is what its pending requests cost, each   *)
(* counted once, at the price frozen when it was submitted: no path leaves *)
(* a hold behind, releases it twice or releases another amount.            *)
HoldIsPendingCost ==
    \A a \in Accounts : Metered(a) =>
        CostOf(PendingOn(a)) = IF snapshots[a] = None THEN 0 ELSE snapshots[a].hold

LegsOf(r, type) == {x \in ledger : x.source[1] = type /\ x.source[2] = r}

(* The ledger tells the same story as the status: a metered request has    *)
(* its debit in every year it touches exactly when it was approved, and    *)
(* an opposite leg for each of them exactly when it was then cancelled.    *)
LedgerFollowsStatus ==
    \A r \in Requests :
        LET debits == LegsOf(r, "REQUEST")
            reversals == LegsOf(r, "REQUEST_CANCELLATION")
        IN  IF requests[r] = None
            THEN debits \cup reversals = {}
            ELSE ~ Unlimited(requests[r].version) =>
                   /\ debits \in {{}, DebitLegs(r, requests[r])}
                   /\ requests[r].status \in {"PENDING", "DENIED"} => debits = {}
                   /\ requests[r].status = "APPROVED" => debits # {}
                   /\ reversals = IF requests[r].status = "CANCELLED" /\ debits # {}
                                  THEN ReversalLegs(r, requests[r])
                                  ELSE {}

(* A reversal gives back what a debit of the same year took, and nothing   *)
(* is given back that was not taken, under any kind of policy.             *)
ReversalsAnswerDebits ==
    \A r \in Requests : \A x \in LegsOf(r, "REQUEST_CANCELLATION") :
        \E y \in LegsOf(r, "REQUEST") :
            y.source[3] = x.source[3] /\ y.account = x.account /\ y.amount = -x.amount

(* A finished or pending request costs its account exactly its total, also *)
(* when the total is split over two years: what its legs sum to is minus   *)
(* the total while it is approved and nothing otherwise.                   *)
LegsSumToTotal ==
    \A r \in Requests :
        requests[r] # None /\ ~ Unlimited(requests[r].version) =>
            SumAmounts(LegsOf(r, "REQUEST") \cup LegsOf(r, "REQUEST_CANCELLATION")) =
                IF requests[r].status = "APPROVED" THEN -Total(requests[r]) ELSE 0

JobEntriesOf(a) == {x \in EntriesOf(ledger, a) : x.source[1] = "JOB"}

ApprovedOn(a) == {r \in RequestsOn(a) : requests[r].status = "APPROVED"}

(* What a metered account's ledger sums to is what the jobs posted to it   *)
(* less what its approved requests cost: debits split over years, requests *)
(* cancelled after their approval and entries posted twice leave no trace. *)
BalanceIsGrantsLessApproved ==
    \A a \in Accounts : Metered(a) =>
        Balance(ledger, a) = SumAmounts(JobEntriesOf(a)) - CostOf(ApprovedOn(a))

(* An employee is never away twice on a date: no two live requests of one  *)
(* employee overlap, in whatever categories they were made.                *)
NoLiveOverlap ==
    \A e \in Employees : \A q, r \in LiveRequests(e) :
        q # r => ~ Overlaps(requests[q], requests[r].start, requests[r].end)

AvailableIn(row) == IF row = None THEN 0 ELSE row.balance - row.hold

(* Requests alone never push what an account has left below the floor of   *)
(* the version they were made under: a step that lowers it is a job's post *)
(* or a submission that still leaves the floor.                            *)
RequestsStopAtFloor ==
    [][\A a \in Accounts :
         Metered(a)' /\ requests' # requests /\
         AvailableIn(snapshots'[a]) < AvailableIn(snapshots[a]) =>
            \E r \in Requests :
                /\ requests[r] = None /\ requests'[r] # None
                /\ AvailableIn(snapshots'[a]) >= requests'[r].version.floor]_vars

(* What is approved was affordable at that moment, whatever was posted,    *)
(* approved or published since it was submitted: the minutes it takes are  *)
(* above the floor it was submitted under, holds of others included.       *)
ApprovalIsCovered ==
    [][\A r \in Requests :
         requests[r] # None /\ ~ Unlimited(requests[r].version) /\ Metered(requests[r].account)
         /\ requests[r].status = "PENDING" /\ requests'[r].status = "APPROVED" =>
            AvailableIn(snapshots'[requests[r].account]) >= requests[r].version.floor]_vars

-----------------------------------------------------------------------------
(* The budget an employee is promised, read off the ledger and the         *)
(* requests; snapshots and holds have no part in the mapping.              *)

ClaimOf(q) ==
    [phase |-> CASE q.status = "PENDING" -> "held"
                 [] q.status = "APPROVED" -> "spent"
                 [] OTHER -> "released",
     account |-> q.account, minutes |-> Total(q), floor |-> q.version.floor]

Budget == INSTANCE LeaveBudget WITH
    Grants <- JobAmounts,
    Costs <- 1 .. Cardinality(WorkDates) * DayMinutes,
    granted <- [a \in Accounts |-> SumAmounts(JobEntriesOf(a))],
    claims <- [r \in Requests |->
                 IF requests[r] = None THEN [phase |-> "none"] ELSE ClaimOf(requests[r])]

(* With metered policies only, the handlers implement the budget: holds,   *)
(* debits, reversals and the cached balance together decide exactly as if  *)
(* the minutes granted less the claims of the live requests were counted.  *)
ImplementsBudget == Budget!Spec

=============================================================================
