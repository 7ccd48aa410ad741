-------------------------- MODULE TimeOffBudgetProofs --------------------------
(* TimeOffRequests implements LeaveBudget for every value of its           *)
(* constants.  What a metered account has left is read off its snapshot by *)
(* the handlers and off the jobs' entries and the live requests by the     *)
(* budget; the two agree in every reachable state, and from that follow    *)
(* the two action properties and the refinement.                           *)
EXTENDS TimeOffLedgerProofs

BudgetInv == TypeOK /\ SnapshotIsLedgerSum /\ HoldIsPendingCost /\ LedgerInv

LEMMA BudgetAlways == Spec => []BudgetInv
BY TypeCorrect, SnapshotsAreSums, HoldsArePendingCosts, LedgerAlways, PTL DEF BudgetInv

-----------------------------------------------------------------------------
(* What is left of an account. *)

LiveOn(a) == {r \in RequestsOn(a) : requests[r].status \in Live}

Left(a) == SumAmounts(JobEntriesOf(a)) - CostAt(requests, LiveOn(a))

(* Two sets of requests cost what each of them costs. *)
LEMMA CostOfUnion ==
    ASSUME NEW rows, NEW R, NEW T, Priced(rows, R), Priced(rows, T), R \cap T = {}
    PROVE  /\ CostAt(rows, R) \in Int /\ CostAt(rows, T) \in Int
           /\ CostAt(rows, R \cup T) = CostAt(rows, R) + CostAt(rows, T)
<1> DEFINE S(X) == {[request |-> r, amount |-> Total(rows[r])] : r \in X}
<1>1. HasAmounts(S(R)) /\ HasAmounts(S(T))
    BY CostsHaveAmounts
<1>2. S(R) \cap S(T) = {} /\ S(R \cup T) = S(R) \cup S(T)
    OBVIOUS
<1>3. CostAt(rows, R) = SumAmounts(S(R)) /\ CostAt(rows, T) = SumAmounts(S(T))
      /\ CostAt(rows, R \cup T) = SumAmounts(S(R \cup T))
    BY DEF CostAt
<1> HIDE DEF S
<1> QED
    BY <1>1, <1>2, <1>3, SumUnion, SumType

LEMMA LeftType ==
    ASSUME TypeOK, NEW a
    PROVE  SumAmounts(JobEntriesOf(a)) \in Int /\ CostAt(requests, LiveOn(a)) \in Int
<1>1. JobEntriesOf(a) \in SUBSET ledger
    BY DEF JobEntriesOf, EntriesOf
<1>2. HasAmounts(JobEntriesOf(a))
    BY <1>1, FS_Subset DEF HasAmounts, TypeOK, EntryType
<1>3. LiveOn(a) \in SUBSET Requests /\ \A r \in LiveOn(a) : requests[r] # None
    BY DEF LiveOn, RequestsOn
<1>4. Priced(requests, LiveOn(a))
    BY <1>3, PendingPriced
<1> QED
    BY <1>2, <1>4, SumType, CostsHaveAmounts DEF CostAt

LEMMA LeftTypeNext == ASSUME NEW a PROVE (TypeOK => Left(a) \in Int)'
<1>1. TypeOK => Left(a) \in Int
    BY LeftType DEF Left
<1> QED
    BY <1>1, PTL

(* The snapshot of a metered account shows what is left.  Here the sum of  *)
(* the ledger, the holds and the legs of every request meet.               *)
LEMMA SnapshotShowsLeft ==
    ASSUME BudgetInv, NEW a \in Accounts, Metered(a)
    PROVE  AvailableIn(snapshots[a]) = Left(a)
<1> DEFINE P == PendingOn(a)
           A == ApprovedIn(RequestsOn(a))
<1>1. /\ P \in SUBSET Requests /\ A \in SUBSET Requests
      /\ \A r \in P : requests[r] # None
      /\ \A r \in A : requests[r] # None
      /\ P \cap A = {} /\ LiveOn(a) = P \cup A
    BY DEF PendingOn, ApprovedIn, RequestsOn, LiveOn, Live
<1>2. Priced(requests, P) /\ Priced(requests, A)
    BY <1>1, PendingPriced DEF BudgetInv
<1>3. /\ CostAt(requests, P) \in Int /\ CostAt(requests, A) \in Int
      /\ CostAt(requests, LiveOn(a)) = CostAt(requests, P) + CostAt(requests, A)
  <2> HIDE DEF P, A
  <2> QED
      BY <1>1, <1>2, CostOfUnion
<1>4. Balance(ledger, a) = SumAmounts(JobEntriesOf(a)) - CostAt(requests, A)
    BY BalanceSplits DEF BudgetInv
<1>5. CostAt(requests, P) = HoldOf(snapshots[a])
    BY HoldsByAccount DEF BudgetInv, HoldRight
<1>6. AvailableIn(snapshots[a]) = Balance(ledger, a) - HoldOf(snapshots[a])
  <2>1. CASE snapshots[a] = None
    <3>1. EntriesOf(ledger, a) = {}
        BY <2>1 DEF BudgetInv, SnapshotIsLedgerSum
    <3>2. Balance(ledger, a) = 0
        BY <3>1, SumEmpty DEF Balance
    <3> QED
        BY <2>1, <3>2 DEF AvailableIn, HoldOf
  <2>2. CASE snapshots[a] # None
      BY <2>2 DEF BudgetInv, SnapshotIsLedgerSum, AvailableIn, HoldOf
  <2> QED
      BY <2>1, <2>2
<1>7. SumAmounts(JobEntriesOf(a)) \in Int
    BY LeftType DEF BudgetInv
<1> HIDE DEF P, A
<1> QED
    BY <1>3, <1>4, <1>5, <1>6, <1>7 DEF Left

(* So does the row the handlers read, which is inserted when missing.      *)
LEMMA RowShowsLeft ==
    ASSUME BudgetInv, NEW a \in Accounts
    PROVE  Snapshot(a).balance - Snapshot(a).hold = AvailableIn(snapshots[a])
<1>1. CASE snapshots[a] = None
  <2>1. EntriesOf(ledger, a) = {}
      BY <1>1 DEF BudgetInv, SnapshotIsLedgerSum
  <2>2. Balance(ledger, a) = 0
      BY <2>1, SumEmpty DEF Balance
  <2> QED
      BY <1>1, <2>2 DEF AvailableIn, Snapshot
<1>2. CASE snapshots[a] # None
    BY <1>2 DEF AvailableIn, Snapshot
<1> QED
    BY <1>1, <1>2

(* The same after a step. *)
LEMMA SnapshotShowsLeftNext ==
    (BudgetInv => \A a \in Accounts : Metered(a) => AvailableIn(snapshots[a]) = Left(a))'
<1>1. BudgetInv => \A a \in Accounts : Metered(a) => AvailableIn(snapshots[a]) = Left(a)
    BY SnapshotShowsLeft
<1> QED
    BY <1>1, PTL

-----------------------------------------------------------------------------
(* What a step is, in the words of the budget. *)

SameJobs == \A a \in Accounts : JobEntriesOf(a)' = JobEntriesOf(a)

Submitted(r, q) ==
    /\ requests[r] = None
    /\ q \in RequestType /\ q.status = "PENDING" /\ q.dates # {} /\ q.dates \subseteq WorkDates
    /\ requests' = [requests EXCEPT ![r] = q]
    /\ Affordable(Snapshot(q.account), q)
    /\ SameJobs

Moved(r, status) ==
    /\ requests[r] # None
    /\ requests' = [requests EXCEPT ![r].status = status]
    /\ SameJobs

Approved(r) ==
    /\ Moved(r, "APPROVED")
    /\ requests[r].status = "PENDING"
    /\ StillCovered(Snapshot(requests[r].account), requests[r])

Ended(r) ==
    /\ Moved(r, "DENIED") \/ Moved(r, "CANCELLED")
    /\ requests[r].status \in Live

Granted(a, minutes) ==
    /\ requests' = requests
    /\ SumAmounts(JobEntriesOf(a))' = SumAmounts(JobEntriesOf(a)) + minutes
    /\ \A b \in Accounts \ {a} : JobEntriesOf(b)' = JobEntriesOf(b)

(* Legs are not the jobs' entries. *)
LEMMA LegsAreNoJobs ==
    ASSUME NEW r, NEW E, NEW type \in {"REQUEST", "REQUEST_CANCELLATION"},
           AreLegs(E, r, type), ledger' = Post(ledger, E)
    PROVE  SameJobs
BY DEF SameJobs, JobEntriesOf, EntriesOf, Post, AreLegs

(* A post of a job adds its minutes to one account, or is there already.   *)
LEMMA JobsGrant ==
    ASSUME TypeOK, NEW source \in JobSources, NEW a \in AssignedAccounts,
           NEW minutes \in JobAmounts, NEW date \in JobDates,
           JobPost(source, a, minutes, date)
    PROVE  Granted(a, minutes) \/ (requests' = requests /\ SameJobs)
<1> DEFINE x == JobEntry(source, a, minutes, date)
<1>1. x \in EntryType /\ IsFiniteSet({x}) /\ a \in Accounts
    BY JobEntryType
<1>2. /\ x.account = a /\ x.source[1] = "JOB" /\ x.amount = minutes
      /\ x.amount \in Int
    BY <1>1 DEF JobEntry, EntryType
<1>3. ledger' = Post(ledger, {x}) /\ requests' = requests
    BY DEF JobPost
<1> HIDE DEF x
<1>4. CASE IsPosted(ledger, x.source)
  <2>1. ledger' = ledger
      BY <1>3, <1>4 DEF Post
  <2> QED
      BY <1>3, <2>1 DEF SameJobs, JobEntriesOf, EntriesOf
<1>5. CASE ~ IsPosted(ledger, x.source)
  <2>1. ledger' = ledger \cup {x} /\ x \notin ledger
      BY <1>3, <1>5 DEF Post, IsPosted
  <2>2. JobEntriesOf(a)' = JobEntriesOf(a) \cup {x} /\ JobEntriesOf(a) \cap {x} = {}
      BY <1>2, <2>1 DEF JobEntriesOf, EntriesOf
  <2>3. \A b \in Accounts \ {a} : JobEntriesOf(b)' = JobEntriesOf(b)
      BY <1>2, <2>1 DEF JobEntriesOf, EntriesOf
  <2>4. HasAmounts(JobEntriesOf(a)) /\ HasAmounts({x})
    <3>1. JobEntriesOf(a) \in SUBSET ledger
        BY DEF JobEntriesOf, EntriesOf
    <3> QED
        BY <1>1, <1>2, <3>1, FS_Subset DEF HasAmounts, TypeOK, EntryType
  <2>5. SumAmounts(JobEntriesOf(a) \cup {x}) = SumAmounts(JobEntriesOf(a)) + SumAmounts({x})
      BY <2>2, <2>4, SumUnion
  <2>6. SumAmounts({x}) = minutes
      BY <1>2, SumSingleton
  <2>7. SumAmounts(JobEntriesOf(a))' = SumAmounts(JobEntriesOf(a)')
      OBVIOUS
  <2> QED
      BY <1>3, <2>2, <2>3, <2>5, <2>6, <2>7 DEF Granted
<1> QED
    BY <1>4, <1>5

(* Every step is one of the budget's, or none of its business. *)
LEMMA StepKinds ==
    ASSUME BudgetInv, [Next]_vars
    PROVE  \/ \E r \in Requests : \E q \in RequestType : Submitted(r, q)
           \/ \E r \in Requests : Approved(r) \/ Ended(r)
           \/ \E a \in Accounts, minutes \in JobAmounts : Granted(a, minutes)
           \/ requests' = requests /\ SameJobs
<1>0. TypeOK /\ Post(ledger, {}) = ledger
    BY PostNothing DEF BudgetInv
<1>1. ASSUME NEW r \in Requests, NEW e \in Employees, NEW c \in Categories,
             NEW start \in Dates, NEW end \in Dates, NEW partial \in Partials,
             Submit(r, e, c, start, end, partial)
      PROVE  \E q \in RequestType : Submitted(r, q)
  <2>1. PICK a \in Assignments : \E version \in versions[a.policy] :
           LET request == NewRequest(e, a.policy, version, start, end, partial)
           IN  /\ request.dates # {} /\ requests' = [requests EXCEPT ![r] = request]
               /\ Affordable(Snapshot(request.account), request)
      BY <1>1 DEF Submit
  <2>2. PICK version \in versions[a.policy] :
           LET request == NewRequest(e, a.policy, version, start, end, partial)
           IN  /\ request.dates # {} /\ requests' = [requests EXCEPT ![r] = request]
               /\ Affordable(Snapshot(request.account), request)
      BY <2>1
  <2> DEFINE request == NewRequest(e, a.policy, version, start, end, partial)
  <2>3. request \in RequestType
      BY <1>0, NewRequestType
  <2>4. request.dates \subseteq WorkDates /\ request.status = "PENDING"
      BY DEF NewRequest, ChargedDates
  <2>5. ledger' = ledger /\ requests[r] = None
      BY <1>1 DEF Submit
  <2>6. SameJobs
      BY <2>5 DEF SameJobs, JobEntriesOf, EntriesOf
  <2>7. Submitted(r, request)
      BY <2>2, <2>3, <2>4, <2>5, <2>6 DEF Submitted
  <2> QED
      BY <2>3, <2>7
<1>2. ASSUME NEW r \in Requests, Approve(r)
      PROVE  Approved(r)
  <2> DEFINE q == requests[r]
             posted == IF Unlimited(q.version) THEN {} ELSE DebitLegs(r, q)
  <2>1. /\ q # None /\ q.status = "PENDING" /\ StillCovered(Snapshot(q.account), q)
        /\ requests' = [requests EXCEPT ![r].status = "APPROVED"]
      BY <1>2 DEF Approve, IsPending, Move
  <2>2. ledger' = Post(ledger, posted)
      BY <1>0, <1>2 DEF Approve
  <2>3. AreLegs(posted, r, "REQUEST")
      BY LegsAreLegs DEF AreLegs, DebitLegs
  <2>4. SameJobs
      BY <2>2, <2>3, LegsAreNoJobs
  <2> QED
      BY <2>1, <2>4 DEF Approved, Moved
<1>3. ASSUME NEW r \in Requests, Deny(r)
      PROVE  Ended(r)
  <2>1. ledger' = ledger
      BY <1>3 DEF Deny
  <2>2. SameJobs
      BY <2>1 DEF SameJobs, JobEntriesOf, EntriesOf
  <2> QED
      BY <1>3, <2>2 DEF Deny, IsPending, Move, Ended, Moved, Live
<1>4. ASSUME NEW r \in Requests, Cancel(r)
      PROVE  Ended(r)
  <2> DEFINE q == requests[r]
             posted == IF q.status = "PENDING" THEN {} ELSE ReversalLegs(r, q)
  <2>1. ledger' = Post(ledger, posted)
      BY <1>0, <1>4 DEF Cancel
  <2>2. AreLegs(posted, r, "REQUEST_CANCELLATION")
      BY LegsAreLegs DEF AreLegs, ReversalLegs
  <2>3. SameJobs
      BY <2>1, <2>2, LegsAreNoJobs
  <2> QED
      BY <1>4, <2>3 DEF Cancel, Move, Ended, Moved
<1>5. ASSUME NEW source \in JobSources, NEW a \in AssignedAccounts,
             NEW minutes \in JobAmounts, NEW date \in JobDates,
             JobPost(source, a, minutes, date)
      PROVE  \/ Granted(a, minutes) /\ a \in Accounts
             \/ requests' = requests /\ SameJobs
    BY <1>0, <1>5, JobsGrant, JobEntryType
<1>6. CASE UNCHANGED <<ledger, requests>>
    BY <1>6 DEF SameJobs, JobEntriesOf, EntriesOf
<1> QED
    BY <1>1, <1>2, <1>3, <1>4, <1>5, <1>6
    DEF Next, vars, PublishVersion, AddHoliday, SyncHolidays, SetClock

-----------------------------------------------------------------------------
(* What each kind of step does to the live requests and to what is left.   *)

(* A submission joins the live requests of its account. *)
LEMMA SubmittedLive ==
    ASSUME TypeOK, NEW r \in Requests, NEW q \in RequestType, Submitted(r, q),
           NEW a \in Accounts
    PROVE  /\ requests'[r] = q /\ requests'[r] # None
           /\ \A p \in Requests \ {r} : requests'[p] = requests[p]
           /\ r \notin LiveOn(a)
           /\ LiveOn(a)' = IF q.account = a THEN LiveOn(a) \cup {r} ELSE LiveOn(a)
           /\ Metered(a)' => Metered(a)
           /\ Metered(a)' /\ q.account = a => ~ Unlimited(q.version)
<1>1. requests'[r] = q /\ q # None /\ \A p \in Requests \ {r} : requests'[p] = requests[p]
    BY ParameterAssumption DEF Submitted, TypeOK
<1>2. requests[r] = None /\ q.status \in Live
    BY DEF Submitted, Live
<1>3. RequestsOn(a)' = (IF q.account = a THEN RequestsOn(a) \cup {r} ELSE RequestsOn(a))
      /\ r \notin RequestsOn(a)
    BY <1>1, <1>2 DEF RequestsOn
<1>4. \A p \in RequestsOn(a) : requests'[p] = requests[p]
    BY <1>1, <1>3 DEF RequestsOn
<1>5. r \notin LiveOn(a)
    BY <1>3 DEF LiveOn
<1>6. LiveOn(a)' = IF q.account = a THEN LiveOn(a) \cup {r} ELSE LiveOn(a)
    BY <1>1, <1>2, <1>3, <1>4 DEF LiveOn
<1>7. Metered(a)' => Metered(a)
    BY <1>3, <1>4 DEF Metered
<1>8. Metered(a)' /\ q.account = a => ~ Unlimited(q.version)
    BY <1>1, <1>3 DEF Metered
<1> QED
    BY <1>1, <1>5, <1>6, <1>7, <1>8

LEMMA SubmittedLeft ==
    ASSUME TypeOK, NEW r \in Requests, NEW q \in RequestType, Submitted(r, q),
           NEW a \in Accounts
    PROVE  Left(a)' = IF q.account = a THEN Left(a) - Total(q) ELSE Left(a)
<1>1. /\ requests'[r] = q /\ \A p \in Requests \ {r} : requests'[p] = requests[p]
      /\ r \notin LiveOn(a)
      /\ LiveOn(a)' = IF q.account = a THEN LiveOn(a) \cup {r} ELSE LiveOn(a)
    BY SubmittedLive
<1>2. Left(a)' = SumAmounts(JobEntriesOf(a)) - CostAt(requests', LiveOn(a)')
    BY DEF Left, Submitted, SameJobs, CostAt
<1>3. LiveOn(a) \in SUBSET Requests /\ \A p \in LiveOn(a) : requests[p] # None
    BY DEF LiveOn, RequestsOn
<1>4. CostAt(requests', LiveOn(a)) = CostAt(requests, LiveOn(a))
    BY <1>1, <1>3, CostIsLocal
<1>5. CASE q.account # a
    BY <1>1, <1>2, <1>4, <1>5 DEF Left
<1>6. CASE q.account = a
  <2>1. Priced(requests', LiveOn(a) \cup {r})
    <3>1. Priced(requests, LiveOn(a))
        BY <1>3, PendingPriced
    <3>2. IsFiniteSet(LiveOn(a) \cup {r})
        BY <3>1, FS_AddElement DEF Priced
    <3> QED
        BY <1>1, <1>3, <3>1, <3>2, CostType DEF Priced
  <2>2. CostAt(requests', LiveOn(a) \cup {r}) = CostAt(requests', LiveOn(a)) + Total(q)
      BY <1>1, <2>1, CostOfOneMore
  <2>3. SumAmounts(JobEntriesOf(a)) \in Int /\ CostAt(requests, LiveOn(a)) \in Int
        /\ Total(q) \in Int
      BY LeftType, CostType
  <2> QED
      BY <1>1, <1>2, <1>4, <1>6, <2>2, <2>3 DEF Left
<1> QED
    BY <1>5, <1>6

(* A decision or cancellation changes the status of one row, no price.     *)
LEMMA MovedRows ==
    ASSUME TypeOK, NEW r \in Requests, NEW status \in Statuses, Moved(r, status)
    PROVE  /\ requests[r] \in RequestType
           /\ requests'[r] = [requests[r] EXCEPT !.status = status]
           /\ requests'[r].status = status
           /\ \A p \in Requests \ {r} : requests'[p] = requests[p]
           /\ \A p \in Requests :
                 /\ requests'[p] = None <=> requests[p] = None
                 /\ requests[p] # None =>
                       /\ requests'[p].account = requests[p].account
                       /\ requests'[p].version = requests[p].version
                       /\ Total(requests'[p]) = Total(requests[p])
           /\ \A a \in Accounts : RequestsOn(a)' = RequestsOn(a) /\ (Metered(a)' <=> Metered(a))
<1>1. /\ requests[r] \in RequestType
      /\ requests'[r] = [requests[r] EXCEPT !.status = status]
      /\ \A p \in Requests \ {r} : requests'[p] = requests[p]
    BY DEF Moved, TypeOK
<1>2. /\ requests'[r] \in RequestType /\ requests'[r].status = status
      /\ requests'[r].account = requests[r].account
      /\ requests'[r].version = requests[r].version
      /\ requests'[r].dates = requests[r].dates /\ requests'[r].rate = requests[r].rate
    BY <1>1 DEF RequestType
<1>3. requests[r] # None /\ requests'[r] # None
    BY <1>2, ParameterAssumption DEF Moved
<1>4. Total(requests'[r]) = Total(requests[r])
    BY <1>2 DEF Total
<1>5. \A p \in Requests :
         /\ requests'[p] = None <=> requests[p] = None
         /\ requests[p] # None =>
               /\ requests'[p].account = requests[p].account
               /\ requests'[p].version = requests[p].version
               /\ Total(requests'[p]) = Total(requests[p])
    BY <1>1, <1>2, <1>3, <1>4
<1>6. \A a \in Accounts : RequestsOn(a)' = RequestsOn(a)
    BY <1>5 DEF RequestsOn
<1>7. \A a \in Accounts : Metered(a)' <=> Metered(a)
    BY <1>5, <1>6 DEF Metered, RequestsOn
<1> QED
    BY <1>1, <1>2, <1>5, <1>6, <1>7

(* An approval leaves every account what it had: the hold becomes a debit. *)
LEMMA ApprovedLeft ==
    ASSUME TypeOK, NEW r \in Requests, Approved(r), NEW a \in Accounts
    PROVE  LiveOn(a)' = LiveOn(a) /\ Left(a)' = Left(a)
<1>1. Moved(r, "APPROVED") /\ "APPROVED" \in Statuses /\ requests[r].status = "PENDING"
    BY DEF Approved, Statuses
<1>2. requests'[r].status = "APPROVED"
    BY <1>1, MovedRows
<1>3. LiveOn(a)' = LiveOn(a)
    BY <1>1, <1>2, MovedRows DEF LiveOn, Live, RequestsOn
<1>4. \A p \in LiveOn(a) : Total(requests'[p]) = Total(requests[p])
    BY <1>1, MovedRows DEF LiveOn, RequestsOn
<1>5. CostAt(requests', LiveOn(a)) = CostAt(requests, LiveOn(a))
    BY <1>4, CostIsLocal
<1>6. Left(a)' = SumAmounts(JobEntriesOf(a)) - CostAt(requests', LiveOn(a)')
    BY <1>1 DEF Left, Moved, SameJobs, CostAt
<1> QED
    BY <1>3, <1>5, <1>6 DEF Left

(* A denial or cancellation gives back what the request cost. *)
LEMMA EndedLeft ==
    ASSUME TypeOK, NEW r \in Requests, Ended(r), NEW a \in Accounts
    PROVE  LiveOn(a)' = LiveOn(a) \ {r} /\ Left(a)' >= Left(a)
<1>1. PICK status \in {"DENIED", "CANCELLED"} : Moved(r, status)
    BY DEF Ended
<1>2. status \in Statuses /\ status \notin Live
    BY DEF Statuses, Live
<1>3. requests'[r].status = status
    BY <1>1, <1>2, MovedRows
<1>4. LiveOn(a)' = LiveOn(a) \ {r}
    BY <1>1, <1>2, <1>3, MovedRows DEF LiveOn, RequestsOn
<1>5. \A p \in LiveOn(a) : Total(requests'[p]) = Total(requests[p])
    BY <1>1, <1>2, MovedRows DEF LiveOn, RequestsOn
<1>6. CostAt(requests', LiveOn(a)') = CostAt(requests, LiveOn(a) \ {r})
    BY <1>4, <1>5, CostIsLocal
<1>7. Left(a)' = SumAmounts(JobEntriesOf(a)) - CostAt(requests', LiveOn(a)')
    BY <1>1 DEF Left, Moved, SameJobs, CostAt
<1>8. SumAmounts(JobEntriesOf(a)) \in Int /\ CostAt(requests, LiveOn(a)) \in Int
    BY LeftType
<1>9. CASE r \notin LiveOn(a)
  <2>1. LiveOn(a) \ {r} = LiveOn(a)
      BY <1>9
  <2> QED
      BY <1>4, <1>6, <1>7, <1>8, <2>1 DEF Left
<1>10. CASE r \in LiveOn(a)
  <2>1. (LiveOn(a) \ {r}) \cup {r} = LiveOn(a) /\ r \notin LiveOn(a) \ {r}
      BY <1>10
  <2>2. LiveOn(a) \in SUBSET Requests /\ \A p \in LiveOn(a) : requests[p] # None
      BY DEF LiveOn, RequestsOn
  <2>3. Priced(requests, LiveOn(a))
      BY <2>2, PendingPriced
  <2>4. /\ CostAt(requests, LiveOn(a) \ {r}) \in Int
        /\ CostAt(requests, LiveOn(a)) = CostAt(requests, LiveOn(a) \ {r}) + Total(requests[r])
      BY <2>1, <2>3, CostOfOneMore
  <2>5. Total(requests[r]) \in Nat
      BY <1>10, <2>3 DEF Priced
  <2> QED
      BY <1>4, <1>6, <1>7, <1>8, <2>4, <2>5 DEF Left
<1> QED
    BY <1>9, <1>10

-----------------------------------------------------------------------------
(* The action properties. *)

(* What the API shows of a metered account, before and after a step. *)
LEMMA ShownAndLeft ==
    ASSUME BudgetInv, BudgetInv', NEW a \in Accounts
    PROVE  /\ Metered(a) => AvailableIn(snapshots[a]) = Left(a)
           /\ Metered(a)' => AvailableIn(snapshots'[a]) = Left(a)'
           /\ Left(a) \in Int
<1>1. Metered(a) => AvailableIn(snapshots[a]) = Left(a)
    BY SnapshotShowsLeft
<1>2. Metered(a)' => AvailableIn(snapshots[a])' = Left(a)'
    BY SnapshotShowsLeftNext
<1>3. Left(a) \in Int
    BY LeftType DEF Left, BudgetInv
<1> QED
    BY <1>1, <1>2, <1>3 DEF AvailableIn

LEMMA ApprovalStep ==
    BudgetInv /\ BudgetInv' /\ [Next]_vars =>
        \A r \in Requests :
            requests[r] # None /\ ~ Unlimited(requests[r].version) /\ Metered(requests[r].account)
            /\ requests[r].status = "PENDING" /\ requests'[r].status = "APPROVED" =>
               AvailableIn(snapshots'[requests[r].account]) >= requests[r].version.floor
<1> SUFFICES ASSUME BudgetInv, BudgetInv', [Next]_vars, NEW r \in Requests,
                    requests[r] # None, ~ Unlimited(requests[r].version),
                    Metered(requests[r].account),
                    requests[r].status = "PENDING", requests'[r].status = "APPROVED"
             PROVE  AvailableIn(snapshots'[requests[r].account]) >= requests[r].version.floor
    OBVIOUS
<1> DEFINE q == requests[r]
<1>0. TypeOK /\ q \in RequestType /\ q.account \in Accounts /\ requests'[r] # requests[r]
    BY DEF BudgetInv, TypeOK, RequestType
<1>01. PICK a \in Accounts : a = q.account
    BY <1>0
<1>1. Approved(r)
  <2>1. ASSUME NEW p \in Requests, NEW new \in RequestType, Submitted(p, new)
        PROVE  requests'[r] = requests[r]
      BY <1>0, <2>1, SubmittedLive DEF Submitted, TypeOK
  <2>2. ASSUME NEW p \in Requests, Approved(p)
        PROVE  p = r
      BY <1>0, <2>2 DEF Approved, Moved, TypeOK
  <2>3. ASSUME NEW p \in Requests, Ended(p)
        PROVE  FALSE
      BY <1>0, <2>3 DEF Ended, Moved, TypeOK, RequestType
  <2> QED
      BY <1>0, <2>1, <2>2, <2>3, StepKinds DEF Granted
<1>2. Left(a)' = Left(a)
    BY <1>0, <1>1, ApprovedLeft
<1>3. Metered(a)'
    BY <1>0, <1>1, <1>01, MovedRows DEF Approved, Statuses
<1>4. AvailableIn(snapshots'[a]) = AvailableIn(snapshots[a])
    BY <1>2, <1>3, <1>01, ShownAndLeft
<1>5. Snapshot(a).balance - Snapshot(a).hold = AvailableIn(snapshots[a])
    BY <1>0, RowShowsLeft
<1>6. Snapshot(a).balance - Snapshot(a).hold >= q.version.floor
    BY <1>1, <1>01 DEF Approved, StillCovered
<1> QED
    BY <1>4, <1>5, <1>6, <1>01

(* Nothing that was posted, approved or published between the submission   *)
(* and the approval lets a decider spend minutes below the floor.          *)
THEOREM ApprovalsAreCovered == Spec => ApprovalIsCovered
BY ApprovalStep, BudgetAlways, PTL DEF Spec, ApprovalIsCovered

LEMMA FloorStep ==
    BudgetInv /\ BudgetInv' /\ [Next]_vars =>
        \A a \in Accounts :
            Metered(a)' /\ requests' # requests /\
            AvailableIn(snapshots'[a]) < AvailableIn(snapshots[a]) =>
               \E r \in Requests :
                   /\ requests[r] = None /\ requests'[r] # None
                   /\ AvailableIn(snapshots'[a]) >= requests'[r].version.floor
<1> SUFFICES ASSUME BudgetInv, BudgetInv', [Next]_vars, NEW a \in Accounts,
                    Metered(a)', requests' # requests,
                    AvailableIn(snapshots'[a]) < AvailableIn(snapshots[a])
             PROVE  \E r \in Requests :
                       /\ requests[r] = None /\ requests'[r] # None
                       /\ AvailableIn(snapshots'[a]) >= requests'[r].version.floor
    OBVIOUS
<1>0. TypeOK /\ TypeOK' /\ Left(a) \in Int /\ Left(a)' \in Int
      /\ AvailableIn(snapshots'[a]) = Left(a)'
    BY LeftTypeNext, ShownAndLeft DEF BudgetInv
<1>1. ASSUME NEW r \in Requests, NEW q \in RequestType, Submitted(r, q)
      PROVE  \E p \in Requests :
                /\ requests[p] = None /\ requests'[p] # None
                /\ AvailableIn(snapshots'[a]) >= requests'[p].version.floor
  <2>1. /\ requests[r] = None /\ requests'[r] = q /\ requests'[r] # None
        /\ Metered(a) /\ (q.account = a => ~ Unlimited(q.version))
        /\ Left(a)' = IF q.account = a THEN Left(a) - Total(q) ELSE Left(a)
    <3>1. requests[r] = None
        BY <1>1 DEF Submitted
    <3>2. /\ requests'[r] = q /\ requests'[r] # None
          /\ Metered(a) /\ (q.account = a => ~ Unlimited(q.version))
        BY <1>0, <1>1, SubmittedLive
    <3>3. Left(a)' = IF q.account = a THEN Left(a) - Total(q) ELSE Left(a)
        BY <1>0, <1>1, SubmittedLeft
    <3> QED
        BY <3>1, <3>2, <3>3
  <2>2. AvailableIn(snapshots[a]) = Left(a)
      BY <2>1, ShownAndLeft
  <2>3. q.account = a
      BY <1>0, <2>1, <2>2
  <2>4. Snapshot(a).balance - Snapshot(a).hold - Total(q) >= q.version.floor
      BY <1>1, <2>1, <2>3 DEF Submitted, Affordable
  <2>5. Left(a) - Total(q) >= q.version.floor
      BY <2>2, <2>4, RowShowsLeft
  <2> QED
      BY <1>0, <2>1, <2>3, <2>5
<1>2. ASSUME NEW r \in Requests, Approved(r) \/ Ended(r)
      PROVE  FALSE
  <2>1. Metered(a)
      BY <1>0, <1>2, MovedRows DEF Approved, Ended, Statuses
  <2>2. AvailableIn(snapshots[a]) = Left(a)
      BY <2>1, ShownAndLeft
  <2>3. Left(a)' >= Left(a)
      BY <1>0, <1>2, ApprovedLeft, EndedLeft
  <2> QED
      BY <1>0, <2>2, <2>3
<1> QED
    BY <1>1, <1>2, StepKinds DEF Granted

(* Submissions and decisions never push what a metered account has left    *)
(* below the floor a request was made under; only the jobs can.            *)
THEOREM RequestsKeepTheFloor == Spec => RequestsStopAtFloor
BY FloorStep, BudgetAlways, PTL DEF Spec, RequestsStopAtFloor

-----------------------------------------------------------------------------
(* The refinement of LeaveBudget. *)

Claims ==
    [r \in Requests |->
        IF requests[r] = None THEN [phase |-> "none"] ELSE ClaimOf(requests[r])]

Grants == [a \in Accounts |-> SumAmounts(JobEntriesOf(a))]

LEMMA ClaimPhase ==
    ASSUME NEW q, q.status \in Statuses
    PROVE  /\ q.status = "PENDING" => ClaimOf(q) =
                [phase |-> "held", account |-> q.account, minutes |-> Total(q),
                 floor |-> q.version.floor]
           /\ q.status = "APPROVED" => ClaimOf(q) =
                [phase |-> "spent", account |-> q.account, minutes |-> Total(q),
                 floor |-> q.version.floor]
           /\ q.status \notin Live => ClaimOf(q) =
                [phase |-> "released", account |-> q.account, minutes |-> Total(q),
                 floor |-> q.version.floor]
BY DEF ClaimOf, Statuses, Live

(* The budget sums as the ledger does. *)
LEMMA SameSums == \A S : Budget!SumAmounts(S) = SumAmounts(S)
<1>1. \A S : Budget!Cardinality(S) = Cardinality(S)
    BY DEF Budget!Cardinality, Cardinality
<1> QED
    BY <1>1 DEF Budget!SumAmounts, Budget!CreditMinutes, Budget!DebitMinutes,
           SumAmounts, CreditMinutes, DebitMinutes

(* The claims on an account are its live requests, at what they cost. *)
LEMMA ClaimsAreLive ==
    ASSUME TypeOK, NEW a \in Accounts
    PROVE  Budget!ClaimsOn(a) = LiveOn(a) /\ Budget!Available(a) = Left(a)
<1>1. \A r \in Requests : requests[r] # None =>
         /\ requests[r].status \in Statuses
         /\ Claims[r] = ClaimOf(requests[r])
         /\ Claims[r].account = requests[r].account /\ Claims[r].minutes = Total(requests[r])
         /\ Claims[r].phase \in {"held", "spent"} <=> requests[r].status \in Live
    BY ClaimPhase DEF Claims, TypeOK, RequestType, Live, Statuses
<1>2. \A r \in Requests : requests[r] = None => Claims[r].phase = "none"
    BY DEF Claims
<1>3. {r \in Requests : Claims[r].phase \in {"held", "spent"} /\ Claims[r].account = a}
          = LiveOn(a)
    BY <1>1, <1>2 DEF LiveOn, RequestsOn
<1>4. Budget!ClaimsOn(a) = LiveOn(a)
    BY <1>3 DEF Budget!ClaimsOn, Budget!LivePhases, Claims
<1>5. {[request |-> r, amount |-> Claims[r].minutes] : r \in LiveOn(a)}
          = {[request |-> r, amount |-> Total(requests[r])] : r \in LiveOn(a)}
    BY <1>1 DEF LiveOn, RequestsOn
<1>6. Budget!Claimed(a) = CostAt(requests, LiveOn(a))
  <2>1. Budget!Claimed(a) =
            Budget!SumAmounts({[request |-> r, amount |-> Claims[r].minutes] : r \in LiveOn(a)})
      BY <1>4 DEF Budget!Claimed, Claims
  <2> QED
      BY <1>5, <2>1, SameSums DEF CostAt
<1> QED
    BY <1>4, <1>6 DEF Budget!Available, Left

LEMMA ProductBound ==
    ASSUME NEW m \in Int, NEW n \in Int, NEW M \in Int, NEW N \in Int,
           1 <= m, m <= M, 1 <= n, n <= N
    PROVE  1 <= m * n /\ m * n <= M * N
<1>1. (m - 1) * n >= 0 /\ (M - m) * n >= 0 /\ M * (N - n) >= 0
    OBVIOUS
<1>2. (m - 1) * n = m * n - n /\ (M - m) * n = M * n - m * n /\ M * (N - n) = M * N - M * n
      /\ m * n \in Int /\ M * n \in Int /\ M * N \in Int
    OBVIOUS
<1> QED
    BY <1>1, <1>2

(* A request costs some minutes, and at most every work day of the horizon. *)
LEMMA CostBound ==
    ASSUME NEW q \in RequestType, q.dates # {}, q.dates \subseteq WorkDates
    PROVE  Total(q) \in 1 .. Cardinality(WorkDates) * DayMinutes
<1>1. WorkDates \in SUBSET Dates /\ q.dates \in SUBSET WorkDates /\ q.dates \in SUBSET Dates
    BY CalendarAssumption DEF Dates
<1>2. /\ IsFiniteSet(WorkDates) /\ Cardinality(WorkDates) \in Nat
      /\ IsFiniteSet(q.dates) /\ Cardinality(q.dates) \in Nat
    BY <1>1, DatesFinite
<1>3. Cardinality(q.dates) <= Cardinality(WorkDates)
    BY <1>1, <1>2, FS_Subset
<1>4. Cardinality(q.dates) # 0
    BY <1>2, FS_EmptySet
<1>5. q.rate \in Int /\ 1 <= q.rate /\ q.rate <= DayMinutes /\ DayMinutes \in Int
    BY CalendarAssumption DEF RequestType
<1>6. /\ 1 <= Cardinality(q.dates) * q.rate
      /\ Cardinality(q.dates) * q.rate <= Cardinality(WorkDates) * DayMinutes
  <2>1. 1 <= Cardinality(q.dates) /\ Cardinality(q.dates) \in Int /\ Cardinality(WorkDates) \in Int
      BY <1>2, <1>4
  <2> QED
      BY <1>3, <1>5, <2>1, ProductBound
<1> QED
    BY <1>2, <1>5, <1>6 DEF Total

AllMetered == \A a \in Accounts : Metered(a)

LEMMA BudgetInit == Init => Budget!Init
<1> SUFFICES ASSUME Init PROVE Budget!Init
    OBVIOUS
<1>1. \A a \in Accounts : SumAmounts(JobEntriesOf(a)) = 0
  <2>1. \A a \in Accounts : JobEntriesOf(a) = {}
      BY DEF Init, JobEntriesOf, EntriesOf
  <2> QED
      BY <2>1, SumEmpty
<1>2. \A r \in Requests : requests[r] = None
    BY DEF Init
<1> QED
    BY <1>1, <1>2 DEF Budget!Init, Budget!Unclaimed

(* The floor a submission or an approval is checked against is checked     *)
(* against the budget. *)
LEMMA SubmittedClaims ==
    ASSUME BudgetInv, AllMetered', NEW r \in Requests, NEW q \in RequestType, Submitted(r, q)
    PROVE  Budget!Claim(r, q.account, Total(q), q.version.floor)
<1> DEFINE a == q.account
<1>0. TypeOK /\ a \in Accounts /\ requests[r] = None /\ q.status = "PENDING"
    BY DEF BudgetInv, RequestType, Submitted
<1>1. /\ requests'[r] = q /\ requests'[r] # None
      /\ \A p \in Requests \ {r} : requests'[p] = requests[p]
      /\ Metered(a) /\ ~ Unlimited(q.version)
    BY <1>0, SubmittedLive DEF AllMetered
<1>2. Budget!Available(a) - Total(q) >= q.version.floor
  <2>1. Budget!Available(a) = AvailableIn(snapshots[a])
      BY <1>0, <1>1, ClaimsAreLive, SnapshotShowsLeft
  <2>2. Snapshot(a).balance - Snapshot(a).hold - Total(q) >= q.version.floor
      BY <1>1 DEF Submitted, Affordable
  <2> HIDE DEF a
  <2> QED
      BY <1>0, <2>1, <2>2, RowShowsLeft
<1>3. Claims[r] = Budget!Unclaimed
    BY <1>0 DEF Claims, Budget!Unclaimed
<1>4. Claims' = [Claims EXCEPT ![r] =
         [phase |-> "held", account |-> a, minutes |-> Total(q), floor |-> q.version.floor]]
  <2>1. ClaimOf(q) =
           [phase |-> "held", account |-> a, minutes |-> Total(q), floor |-> q.version.floor]
      BY <1>0, ClaimPhase DEF Statuses
  <2> HIDE DEF a
  <2> QED
      BY <1>1, <2>1 DEF Claims
<1>5. Grants' = Grants
    BY DEF Submitted, SameJobs, Grants
<1> QED
    BY <1>2, <1>3, <1>4, <1>5 DEF Budget!Claim, Claims, Grants

LEMMA ApprovedConfirms ==
    ASSUME BudgetInv, AllMetered, NEW r \in Requests, Approved(r)
    PROVE  Budget!Confirm(r)
<1> DEFINE q == requests[r]
           p == [q EXCEPT !.status = "APPROVED"]
<1>0. /\ TypeOK /\ q \in RequestType /\ q # None /\ q.account \in Accounts
      /\ q.status = "PENDING" /\ "APPROVED" \in Statuses
      /\ Moved(r, "APPROVED")
    BY DEF BudgetInv, Approved, Moved, TypeOK, RequestType, Statuses
<1>1. Metered(q.account) /\ ~ Unlimited(q.version)
    BY <1>0 DEF AllMetered, Metered, RequestsOn
<1>2. Budget!Available(q.account) >= q.version.floor
  <2>1. Budget!Available(q.account) = AvailableIn(snapshots[q.account])
      BY <1>0, <1>1, ClaimsAreLive, SnapshotShowsLeft
  <2>2. Snapshot(q.account).balance - Snapshot(q.account).hold >= q.version.floor
      BY <1>1 DEF Approved, StillCovered
  <2> QED
      BY <1>0, <2>1, <2>2, RowShowsLeft
<1>3. Claims[r] = [phase |-> "held", account |-> q.account, minutes |-> Total(q),
                   floor |-> q.version.floor]
    BY <1>0, ClaimPhase DEF Claims, Statuses
<1>4. /\ requests'[r] = p /\ requests'[r] # None
      /\ \A o \in Requests \ {r} : requests'[o] = requests[o]
      /\ Total(p) = Total(q)
    BY <1>0, MovedRows
<1>5. ClaimOf(p) = [phase |-> "spent", account |-> q.account, minutes |-> Total(q),
                    floor |-> q.version.floor]
  <2>1. p.status = "APPROVED" /\ p.account = q.account /\ p.version = q.version
      BY <1>0 DEF RequestType
  <2> HIDE DEF p, q
  <2> QED
      BY <1>0, <1>4, <2>1, ClaimPhase
<1>6. Claims' = [Claims EXCEPT ![r].phase = "spent"]
  <2>1. Claims' = [Claims EXCEPT ![r] = ClaimOf(p)]
    <3> HIDE DEF p
    <3> QED
        BY <1>4 DEF Claims
  <2>2. [Claims[r] EXCEPT !.phase = "spent"] = ClaimOf(p)
    <3> HIDE DEF p, q
    <3> QED
        BY <1>3, <1>5
  <2> HIDE DEF p
  <2> QED
      BY <2>1, <2>2
<1>7. Grants' = Grants
    BY <1>0 DEF Moved, SameJobs, Grants
<1> QED
    BY <1>2, <1>3, <1>6, <1>7 DEF Budget!Confirm, Claims, Grants

LEMMA EndedReleases ==
    ASSUME BudgetInv, NEW r \in Requests, Ended(r)
    PROVE  Budget!Release(r)
<1>1. PICK status \in {"DENIED", "CANCELLED"} : Moved(r, status)
    BY DEF Ended
<1> DEFINE q == requests[r]
           p == [q EXCEPT !.status = status]
<1>0. /\ TypeOK /\ q \in RequestType /\ q # None
      /\ q.status \in Live /\ status \in Statuses /\ status \notin Live
    BY <1>1 DEF BudgetInv, Ended, Moved, TypeOK, Statuses, Live
<1>2. PICK phase \in {"held", "spent"} :
         Claims[r] = [phase |-> phase, account |-> q.account, minutes |-> Total(q),
                      floor |-> q.version.floor]
    BY <1>0, ClaimPhase DEF Claims, Statuses, Live
<1>3. /\ requests'[r] = p /\ requests'[r] # None
      /\ \A o \in Requests \ {r} : requests'[o] = requests[o]
      /\ Total(p) = Total(q)
    BY <1>0, <1>1, MovedRows
<1>4. ClaimOf(p) = [phase |-> "released", account |-> q.account, minutes |-> Total(q),
                    floor |-> q.version.floor]
  <2>1. p.status = status /\ p.account = q.account /\ p.version = q.version
      BY <1>0 DEF RequestType
  <2> HIDE DEF p, q
  <2> QED
      BY <1>0, <1>3, <2>1, ClaimPhase
<1>5. Claims' = [Claims EXCEPT ![r].phase = "released"]
  <2>1. Claims' = [Claims EXCEPT ![r] = ClaimOf(p)]
    <3> HIDE DEF p
    <3> QED
        BY <1>3 DEF Claims
  <2>2. [Claims[r] EXCEPT !.phase = "released"] = ClaimOf(p)
    <3> HIDE DEF p, q
    <3> QED
        BY <1>2, <1>4
  <2> HIDE DEF p
  <2> QED
      BY <2>1, <2>2
<1>6. Grants' = Grants
    BY <1>1 DEF Moved, SameJobs, Grants
<1> QED
    BY <1>2, <1>5, <1>6 DEF Budget!Release, Budget!LivePhases, Claims, Grants

LEMMA GrantedGrants ==
    ASSUME NEW a \in Accounts, NEW minutes \in JobAmounts, Granted(a, minutes)
    PROVE  Budget!Grant(a, minutes)
<1>1. /\ SumAmounts(JobEntriesOf(a)') = SumAmounts(JobEntriesOf(a)) + minutes
      /\ \A b \in Accounts \ {a} : SumAmounts(JobEntriesOf(b)') = SumAmounts(JobEntriesOf(b))
    BY DEF Granted
<1>2. Grants' = [Grants EXCEPT ![a] = @ + minutes]
    BY <1>1 DEF Grants
<1>3. Claims' = Claims
    BY DEF Granted, Claims
<1> QED
    BY <1>2, <1>3 DEF Budget!Grant, Grants, Claims

LEMMA BudgetStep ==
    BudgetInv /\ AllMetered /\ AllMetered' /\ [Next]_vars => [Budget!Next]_(Budget!budgetVars)
<1> SUFFICES ASSUME BudgetInv, AllMetered, AllMetered', [Next]_vars
             PROVE  [Budget!Next]_(Budget!budgetVars)
    OBVIOUS
<1>1. ASSUME NEW r \in Requests, NEW q \in RequestType, Submitted(r, q)
      PROVE  Budget!Next
  <2>1. Budget!Claim(r, q.account, Total(q), q.version.floor)
      BY <1>1, SubmittedClaims
  <2>2. /\ q.account \in Accounts /\ q.version.floor \in Floors
        /\ Total(q) \in 1 .. Cardinality(WorkDates) * DayMinutes
      BY <1>1, CostBound DEF Submitted, RequestType, VersionType
  <2> QED
      BY <2>1, <2>2 DEF Budget!Next
<1>2. ASSUME NEW r \in Requests, Approved(r) \/ Ended(r)
      PROVE  Budget!Next
  <2>1. Budget!Confirm(r) \/ Budget!Release(r)
      BY <1>2, ApprovedConfirms, EndedReleases
  <2> QED
      BY <2>1 DEF Budget!Next
<1>3. ASSUME NEW a \in Accounts, NEW minutes \in JobAmounts, Granted(a, minutes)
      PROVE  Budget!Next
  <2>1. Budget!Grant(a, minutes)
      BY <1>3, GrantedGrants
  <2> QED
      BY <2>1 DEF Budget!Next
<1>4. CASE requests' = requests /\ SameJobs
  <2>1. Claims' = Claims /\ Grants' = Grants
      BY <1>4 DEF Claims, Grants, SameJobs
  <2> QED
      BY <2>1 DEF Budget!budgetVars, Claims, Grants
<1> QED
    BY <1>1, <1>2, <1>3, <1>4, StepKinds

(* As long as no request is made under an unlimited version, the handlers  *)
(* do what the budget does: whatever the ledger, the snapshots and the     *)
(* holds go through, a request is taken, confirmed and given back exactly  *)
(* when the minutes granted less the live claims allow it.                 *)
THEOREM MeteredRunsImplementBudget == Spec /\ []AllMetered => ImplementsBudget
BY BudgetInit, BudgetStep, BudgetAlways, PTL DEF Spec, ImplementsBudget, Budget!Spec

-----------------------------------------------------------------------------
(* A company whose policies are all metered. *)

OnlyMetered ==
    /\ \A p \in Policies : ~ Unlimited(FirstVersion[p])
    /\ \A v \in NewVersions : ~ Unlimited(v)

MeteredVersions ==
    /\ \A p \in Policies : \A v \in versions[p] : ~ Unlimited(v)
    /\ \A r \in Requests : requests[r] # None => ~ Unlimited(requests[r].version)

LEMMA MeteredStep ==
    ASSUME OnlyMetered, TypeOK, MeteredVersions, [Next]_vars
    PROVE  MeteredVersions'
<1>1. ASSUME NEW r \in Requests, NEW e \in Employees, NEW c \in Categories,
             NEW start \in Dates, NEW end \in Dates, NEW partial \in Partials,
             Submit(r, e, c, start, end, partial)
      PROVE  MeteredVersions'
  <2>1. PICK a \in Assignments : \E version \in versions[a.policy] :
           requests' = [requests EXCEPT ![r] =
               NewRequest(e, a.policy, version, start, end, partial)]
      BY <1>1 DEF Submit
  <2>2. PICK version \in versions[a.policy] :
           requests' = [requests EXCEPT ![r] =
               NewRequest(e, a.policy, version, start, end, partial)]
      BY <2>1
  <2>3. a.policy \in Policies
      BY AssignmentAssumption
  <2>4. requests'[r].version = version /\ \A p \in Requests \ {r} : requests'[p] = requests[p]
      BY <2>2 DEF NewRequest, TypeOK
  <2>5. versions' = versions
      BY <1>1 DEF Submit
  <2> QED
      BY <2>3, <2>4, <2>5 DEF MeteredVersions
<1>2. ASSUME NEW r \in Requests, Approve(r) \/ Deny(r) \/ Cancel(r)
      PROVE  MeteredVersions'
  <2>1. PICK status \in Statuses : Move(r, status)
      BY <1>2 DEF Approve, Deny, Cancel, Statuses
  <2>2. requests[r] # None /\ versions' = versions
      BY <1>2 DEF Approve, Deny, Cancel, IsPending
  <2>3. requests[r] \in RequestType /\ requests'[r] = [requests[r] EXCEPT !.status = status]
        /\ \A p \in Requests \ {r} : requests'[p] = requests[p]
      BY <2>1, <2>2 DEF Move, TypeOK
  <2>4. requests'[r].version = requests[r].version
      BY <2>3 DEF RequestType
  <2> QED
      BY <2>2, <2>3, <2>4 DEF MeteredVersions
<1>3. ASSUME NEW p \in Policies, NEW v \in NewVersions,
             PublishVersion(p, v.from, v.kind, v.floor)
      PROVE  MeteredVersions'
  <2>1. PICK latest \in versions[p] : versions' = [versions EXCEPT ![p] = @ \cup
           {[no |-> latest.no + 1, from |-> v.from, kind |-> v.kind, floor |-> v.floor]}]
      BY <1>3 DEF PublishVersion
  <2>2. ~ Unlimited([no |-> latest.no + 1, from |-> v.from, kind |-> v.kind, floor |-> v.floor])
      BY DEF OnlyMetered, Unlimited
  <2>3. \A o \in Policies : \A w \in versions'[o] : ~ Unlimited(w)
      BY <2>1, <2>2 DEF MeteredVersions, TypeOK
  <2> QED
      BY <1>3, <2>3 DEF PublishVersion, MeteredVersions
<1>4. CASE UNCHANGED <<versions, requests>>
  BY <1>4 DEF MeteredVersions
<1> QED
  BY <1>1, <1>2, <1>3, <1>4 DEF Next, vars, JobPost, AddHoliday, SyncHolidays, SetClock

(* The handlers of a company with metered policies only implement the      *)
(* budget, in every behaviour.                                             *)
THEOREM BudgetIsImplemented == ASSUME OnlyMetered PROVE Spec => ImplementsBudget
<1>1. Init => MeteredVersions
    BY DEF Init, MeteredVersions, OnlyMetered
<1>2. TypeOK /\ MeteredVersions /\ [Next]_vars => MeteredVersions'
    BY MeteredStep
<1>3. MeteredVersions => AllMetered
    BY DEF MeteredVersions, AllMetered, Metered, RequestsOn
<1> QED
    BY <1>1, <1>2, <1>3, TypeCorrect, MeteredRunsImplementBudget, PTL DEF Spec

=============================================================================
