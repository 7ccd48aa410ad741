------------------------- MODULE TimeOffRequestsProofs -------------------------
(* Theorems about TimeOffRequests for every value of its constants: its    *)
(* variables keep their types, the cached balance is the sum of the        *)
(* ledger, and nobody is away twice on a date.                             *)
EXTENDS TimeOffRequests, MinuteSumsProofs

-----------------------------------------------------------------------------
(* What the accounting operators return. *)

LEMMA YearType == \A d \in Dates : YearOf(d) \in Int
BY CalendarAssumption DEF Dates, YearOf

(* A set of dates is finite, and so is what a request costs.               *)
LEMMA DatesFinite ==
    ASSUME NEW D \in SUBSET Dates
    PROVE  IsFiniteSet(D) /\ Cardinality(D) \in Nat
<1>1. 0 \in Int /\ LastDate \in Int
    BY CalendarAssumption
<1>2. IsFiniteSet(0 .. LastDate)
    BY <1>1, FS_Interval
<1>3. IsFiniteSet(D)
    BY <1>2, FS_Subset DEF Dates
<1> QED
    BY <1>3, FS_CardinalityType

LEMMA CostType ==
    ASSUME NEW q \in RequestType
    PROVE  /\ Total(q) \in Nat
           /\ \A y \in Int : YearMinutes(q, y) \in Nat
<1>1. q.dates \in SUBSET Dates /\ q.rate \in Nat
    BY CalendarAssumption DEF RequestType
<1>2. Cardinality(q.dates) \in Nat
    BY <1>1, DatesFinite
<1>3. \A y \in Int : Cardinality(DatesIn(q, y)) \in Nat
    <2>1. \A y \in Int : DatesIn(q, y) \in SUBSET Dates
        BY <1>1 DEF DatesIn
    <2> QED
        BY <2>1, DatesFinite
<1> QED
    BY <1>1, <1>2, <1>3 DEF Total, YearMinutes

(* The legs of a request are ledger entries of its account.                *)
LEMMA LegsType ==
    ASSUME NEW q \in RequestType, NEW r \in Requests,
           NEW type \in {"REQUEST", "REQUEST_CANCELLATION"}, NEW sign \in {-1, 1}
    PROVE  /\ Legs(type, r, q, sign) \subseteq EntryType
           /\ IsFiniteSet(Legs(type, r, q, sign))
           /\ \A x \in Legs(type, r, q, sign) : x.account = q.account
<1>1. q.dates \in SUBSET Dates /\ q.account \in Accounts
    BY DEF RequestType
<1>2. FirstDates(q) \in SUBSET Dates
    BY <1>1 DEF FirstDates
<1>3. \A d \in FirstDates(q) : YearOf(d) \in Int /\ sign * YearMinutes(q, YearOf(d)) \in Int
    BY <1>2, YearType, CostType
<1>4. Legs(type, r, q, sign) \subseteq EntryType
    BY <1>1, <1>2, <1>3 DEF Legs, EntryType
<1>5. IsFiniteSet(Legs(type, r, q, sign))
  <2>1. ASSUME NEW f, f = [d \in FirstDates(q) |->
                 [account |-> q.account, amount |-> sign * YearMinutes(q, YearOf(d)),
                  effective |-> d, source |-> <<type, r, YearOf(d)>>]]
        PROVE  IsFiniteSet(Legs(type, r, q, sign))
    <3>1. IsFiniteSet(FirstDates(q)) /\ DOMAIN f = FirstDates(q)
        BY <1>2, <2>1, DatesFinite
    <3>2. IsFiniteSet({f[d] : d \in FirstDates(q)})
        BY <3>1, FiniteImage
    <3>3. {f[d] : d \in FirstDates(q)} = Legs(type, r, q, sign)
        BY <2>1 DEF Legs
    <3> QED
        BY <3>2, <3>3
  <2> QED
      BY <2>1
<1> QED
    BY <1>4, <1>5 DEF Legs

(* Posting keeps the ledger a finite set of entries.                       *)
LEMMA PostType ==
    ASSUME NEW L \in SUBSET EntryType, IsFiniteSet(L),
           NEW E \in SUBSET EntryType, IsFiniteSet(E)
    PROVE  Post(L, E) \subseteq EntryType /\ IsFiniteSet(Post(L, E))
<1>1. IsFiniteSet({x \in E : ~ IsPosted(L, x.source)})
    <2>1. {x \in E : ~ IsPosted(L, x.source)} \in SUBSET E
        OBVIOUS
    <2> QED
        BY <2>1, FS_Subset
<1> QED
    BY <1>1, FS_Union DEF Post

LEMMA BalanceType ==
    ASSUME NEW L \in SUBSET EntryType, IsFiniteSet(L), NEW a
    PROVE  Balance(L, a) \in Int
<1>1. EntriesOf(L, a) \in SUBSET L
    BY DEF EntriesOf
<1>2. IsFiniteSet(EntriesOf(L, a))
    BY <1>1, FS_Subset
<1>3. HasAmounts(EntriesOf(L, a))
    BY <1>1, <1>2 DEF HasAmounts, EntryType
<1> QED
    BY <1>3, SumType DEF Balance

LEMMA JobEntryType ==
    ASSUME NEW source \in JobSources, NEW a \in AssignedAccounts,
           NEW minutes \in JobAmounts, NEW date \in JobDates
    PROVE  /\ {JobEntry(source, a, minutes, date)} \subseteq EntryType
           /\ IsFiniteSet({JobEntry(source, a, minutes, date)})
           /\ a \in Accounts
<1>1. a \in Accounts
    BY AssignmentAssumption DEF AssignedAccounts, Accounts
<1>2. minutes \in Int /\ date \in Dates
    BY ParameterAssumption
<1>3. <<"JOB", source, a>> \in {"JOB"} \X JobSources \X Accounts
    BY <1>1
<1>4. JobEntry(source, a, minutes, date) \in EntryType
    BY <1>1, <1>2, <1>3 DEF JobEntry, EntryType
<1> QED
    BY <1>1, <1>4, FS_Singleton

-----------------------------------------------------------------------------
(* Type correctness. *)

LEMMA SnapshotRowType ==
    ASSUME TypeOK, NEW a \in Accounts
    PROVE  Snapshot(a) \in SnapshotType
BY BalanceType DEF TypeOK, Snapshot, SnapshotType

LEMMA RefreshedType ==
    ASSUME TypeOK, NEW row \in SnapshotType, NEW a,
           NEW E \in SUBSET EntryType, IsFiniteSet(E)
    PROVE  Refreshed(row, a, E) \in SnapshotType
<1>1. Post(ledger, E) \in SUBSET EntryType /\ IsFiniteSet(Post(ledger, E))
    BY PostType DEF TypeOK
<1>2. Balance(Post(ledger, E), a) \in Int
    BY <1>1, BalanceType
<1> QED
    BY <1>2 DEF Refreshed, SnapshotType

(* What a submission inserts is a row of the table.                        *)
LEMMA NewRequestType ==
    ASSUME TypeOK, NEW e \in Employees, NEW a \in Assignments,
           NEW version \in versions[a.policy],
           NEW start \in Dates, NEW end \in Dates, NEW partial \in Partials
    PROVE  NewRequest(e, a.policy, version, start, end, partial) \in RequestType
<1>1. a.policy \in Policies /\ version \in VersionType
    BY AssignmentAssumption DEF TypeOK
<1>2. MinutesPerDate(partial) \in 1 .. DayMinutes
    BY ParameterAssumption, CalendarAssumption DEF MinutesPerDate, WholeDay
<1>3. ChargedDates(start, end, holidays) \in SUBSET Dates
    BY CalendarAssumption DEF ChargedDates, Dates
<1> QED
    BY <1>1, <1>2, <1>3 DEF NewRequest, RequestType, Accounts, Statuses

LEMMA MoveType ==
    ASSUME TypeOK, NEW r \in Requests, requests[r] # None, NEW status \in Statuses,
           Move(r, status)
    PROVE  /\ requests' \in [Requests -> RequestType \cup {None}]
           /\ events' \in [Requests -> Seq(EventType)]
<1>1. requests[r] \in RequestType
    BY DEF TypeOK
<1>2. [requests[r] EXCEPT !.status = status] \in RequestType
    BY <1>1 DEF RequestType
<1>3. [from |-> requests[r].status, to |-> status] \in EventType
    BY <1>1 DEF RequestType, EventType
<1> QED
    BY <1>2, <1>3 DEF Move, TypeOK

LEMMA TypeInit == Init => TypeOK
<1> SUFFICES ASSUME Init PROVE TypeOK
    OBVIOUS
<1>1. today \in Dates
    BY ParameterAssumption DEF Init
<1>2. versions \in [Policies -> SUBSET VersionType]
    BY ParameterAssumption DEF Init, VersionType
<1>3. IsFiniteSet(ledger)
    BY FS_EmptySet DEF Init
<1> QED
    BY <1>1, <1>2, <1>3 DEF Init, TypeOK

LEMMA TypeStep == TypeOK /\ [Next]_vars => TypeOK'
<1> SUFFICES ASSUME TypeOK, [Next]_vars PROVE TypeOK'
    OBVIOUS
<1>1. ASSUME NEW r \in Requests, NEW e \in Employees, NEW c \in Categories,
             NEW start \in Dates, NEW end \in Dates, NEW partial \in Partials,
             Submit(r, e, c, start, end, partial)
      PROVE  TypeOK'
  <2>1. PICK a \in Assignments : \E version \in versions[a.policy] :
           LET request == NewRequest(e, a.policy, version, start, end, partial)
           IN  /\ requests' = [requests EXCEPT ![r] = request]
               /\ snapshots' = [snapshots EXCEPT ![request.account] =
                     IF Unlimited(version) THEN Snapshot(request.account)
                     ELSE [Snapshot(request.account) EXCEPT !.hold = @ + Total(request)]]
      BY <1>1 DEF Submit
  <2>2. PICK version \in versions[a.policy] :
           LET request == NewRequest(e, a.policy, version, start, end, partial)
           IN  /\ requests' = [requests EXCEPT ![r] = request]
               /\ snapshots' = [snapshots EXCEPT ![request.account] =
                     IF Unlimited(version) THEN Snapshot(request.account)
                     ELSE [Snapshot(request.account) EXCEPT !.hold = @ + Total(request)]]
      BY <2>1
  <2> DEFINE request == NewRequest(e, a.policy, version, start, end, partial)
  <2>3. request \in RequestType
      BY NewRequestType
  <2>4. request.account \in Accounts
      BY <2>3 DEF RequestType
  <2>5. Snapshot(request.account) \in SnapshotType /\ Total(request) \in Nat
      BY <2>3, <2>4, SnapshotRowType, CostType
  <2>6. snapshots' \in [Accounts -> SnapshotType \cup {None}]
    <3>1. snapshots' = [snapshots EXCEPT ![request.account] = Snapshot(request.account)]
          \/ snapshots' = [snapshots EXCEPT ![request.account] =
                 [Snapshot(request.account) EXCEPT !.hold = @ + Total(request)]]
        BY <2>2
    <3>2. [Snapshot(request.account) EXCEPT !.hold = @ + Total(request)] \in SnapshotType
        BY <2>5 DEF SnapshotType
    <3> HIDE DEF request
    <3> QED
        BY <2>4, <2>5, <3>1, <3>2 DEF TypeOK
  <2>7. requests' \in [Requests -> RequestType \cup {None}]
      BY <2>2, <2>3 DEF TypeOK
  <2>8. events' \in [Requests -> Seq(EventType)]
    <3>1. [from |-> None, to |-> "PENDING"] \in EventType
        BY DEF EventType, Statuses
    <3>2. <<[from |-> None, to |-> "PENDING"]>> \in Seq(EventType)
        BY <3>1
    <3> QED
        BY <1>1, <3>2 DEF Submit, TypeOK
  <2> QED
      BY <1>1, <2>6, <2>7, <2>8 DEF Submit, TypeOK
<1>2. ASSUME NEW r \in Requests, Approve(r)
      PROVE  TypeOK'
  <2> DEFINE q == requests[r]
             row == Snapshot(q.account)
             debits == DebitLegs(r, q)
  <2>1. q \in RequestType /\ q.account \in Accounts /\ q # None
      BY <1>2 DEF Approve, IsPending, TypeOK, RequestType
  <2>2. row \in SnapshotType /\ Total(q) \in Nat
      BY <2>1, SnapshotRowType, CostType
  <2>3. debits \in SUBSET EntryType /\ IsFiniteSet(debits)
      BY <2>1, LegsType DEF DebitLegs
  <2>4. Refreshed(row, q.account, debits) \in SnapshotType
      BY <2>2, <2>3, RefreshedType
  <2>5. Post(ledger, debits) \subseteq EntryType /\ IsFiniteSet(Post(ledger, debits))
      BY <2>3, PostType DEF TypeOK
  <2>6. ledger' \subseteq EntryType /\ IsFiniteSet(ledger')
      BY <1>2, <2>5 DEF Approve, TypeOK
  <2>7. snapshots' \in [Accounts -> SnapshotType \cup {None}]
    <3>1. [Refreshed(row, q.account, debits) EXCEPT !.hold = @ - Total(q)] \in SnapshotType
        BY <2>2, <2>4 DEF SnapshotType
    <3>2. snapshots' = [snapshots EXCEPT ![q.account] = row]
          \/ snapshots' = [snapshots EXCEPT ![q.account] =
                 [Refreshed(row, q.account, debits) EXCEPT !.hold = @ - Total(q)]]
        BY <1>2 DEF Approve
    <3> HIDE DEF row, debits
    <3> QED
        BY <2>1, <2>2, <3>1, <3>2 DEF TypeOK
  <2>8. /\ requests' \in [Requests -> RequestType \cup {None}]
        /\ events' \in [Requests -> Seq(EventType)]
      BY <1>2, <2>1, MoveType DEF Approve, Statuses
  <2> QED
      BY <1>2, <2>6, <2>7, <2>8 DEF Approve, TypeOK
<1>3. ASSUME NEW r \in Requests, Deny(r)
      PROVE  TypeOK'
  <2> DEFINE q == requests[r]
             row == Snapshot(q.account)
  <2>1. q \in RequestType /\ q.account \in Accounts /\ q # None
      BY <1>3 DEF Deny, IsPending, TypeOK, RequestType
  <2>2. row \in SnapshotType /\ Total(q) \in Nat
      BY <2>1, SnapshotRowType, CostType
  <2>3. snapshots' \in [Accounts -> SnapshotType \cup {None}]
    <3>1. [row EXCEPT !.hold = @ - Total(q)] \in SnapshotType
        BY <2>2 DEF SnapshotType
    <3>2. snapshots' = [snapshots EXCEPT ![q.account] = row]
          \/ snapshots' = [snapshots EXCEPT ![q.account] = [row EXCEPT !.hold = @ - Total(q)]]
        BY <1>3 DEF Deny
    <3> HIDE DEF row
    <3> QED
        BY <2>1, <2>2, <3>1, <3>2 DEF TypeOK
  <2>4. /\ requests' \in [Requests -> RequestType \cup {None}]
        /\ events' \in [Requests -> Seq(EventType)]
      BY <1>3, <2>1, MoveType DEF Deny, Statuses
  <2> QED
      BY <1>3, <2>3, <2>4 DEF Deny, TypeOK
<1>4. ASSUME NEW r \in Requests, Cancel(r)
      PROVE  TypeOK'
  <2> DEFINE q == requests[r]
             row == Snapshot(q.account)
             reversals == ReversalLegs(r, q)
  <2>1. q \in RequestType /\ q.account \in Accounts /\ q # None
      BY <1>4 DEF Cancel, TypeOK, RequestType
  <2>2. row \in SnapshotType /\ Total(q) \in Nat
      BY <2>1, SnapshotRowType, CostType
  <2>3. reversals \in SUBSET EntryType /\ IsFiniteSet(reversals)
      BY <2>1, LegsType DEF ReversalLegs
  <2>4. Refreshed(row, q.account, reversals) \in SnapshotType
      BY <2>2, <2>3, RefreshedType
  <2>5. Post(ledger, reversals) \subseteq EntryType /\ IsFiniteSet(Post(ledger, reversals))
      BY <2>3, PostType DEF TypeOK
  <2>6. ledger' \subseteq EntryType /\ IsFiniteSet(ledger')
      BY <1>4, <2>5 DEF Cancel, TypeOK
  <2>7. snapshots' \in [Accounts -> SnapshotType \cup {None}]
    <3>1. [row EXCEPT !.hold = @ - Total(q)] \in SnapshotType
        BY <2>2 DEF SnapshotType
    <3>2. snapshots' = [snapshots EXCEPT ![q.account] = [row EXCEPT !.hold = @ - Total(q)]]
          \/ snapshots' = [snapshots EXCEPT ![q.account] = Refreshed(row, q.account, reversals)]
        BY <1>4 DEF Cancel
    <3> HIDE DEF row, reversals
    <3> QED
        BY <2>1, <2>4, <3>1, <3>2 DEF TypeOK
  <2>8. /\ requests' \in [Requests -> RequestType \cup {None}]
        /\ events' \in [Requests -> Seq(EventType)]
      BY <1>4, <2>1, MoveType DEF Cancel, Statuses
  <2> QED
      BY <1>4, <2>6, <2>7, <2>8 DEF Cancel, TypeOK
<1>5. ASSUME NEW source \in JobSources, NEW a \in AssignedAccounts,
             NEW minutes \in JobAmounts, NEW date \in JobDates,
             JobPost(source, a, minutes, date)
      PROVE  TypeOK'
  <2> DEFINE E == {JobEntry(source, a, minutes, date)}
             row == IF snapshots[a] = None THEN [balance |-> 0, hold |-> 0] ELSE snapshots[a]
  <2>1. E \in SUBSET EntryType /\ IsFiniteSet(E) /\ a \in Accounts
      BY JobEntryType
  <2>2. row \in SnapshotType
      BY <2>1 DEF TypeOK, SnapshotType
  <2>3. Refreshed(row, a, E) \in SnapshotType
      BY <2>1, <2>2, RefreshedType
  <2>4. Post(ledger, E) \subseteq EntryType /\ IsFiniteSet(Post(ledger, E))
      BY <2>1, PostType DEF TypeOK
  <2>5. ledger' = Post(ledger, E)
        /\ (snapshots' = snapshots \/ snapshots' = [snapshots EXCEPT ![a] = Refreshed(row, a, E)])
      BY <1>5 DEF JobPost
  <2>6. snapshots' \in [Accounts -> SnapshotType \cup {None}]
    <3> HIDE DEF row, E
    <3> QED
        BY <2>1, <2>3, <2>5 DEF TypeOK
  <2> QED
      BY <1>5, <2>4, <2>5, <2>6 DEF JobPost, TypeOK
<1>6. ASSUME NEW p \in Policies, NEW v \in NewVersions,
             PublishVersion(p, v.from, v.kind, v.floor)
      PROVE  TypeOK'
  <2>1. PICK latest \in versions[p] :
           versions' = [versions EXCEPT ![p] = @ \cup
              {[no |-> latest.no + 1, from |-> v.from, kind |-> v.kind, floor |-> v.floor]}]
      BY <1>6 DEF PublishVersion
  <2>2. latest \in VersionType
      BY DEF TypeOK
  <2>3. [no |-> latest.no + 1, from |-> v.from, kind |-> v.kind, floor |-> v.floor] \in VersionType
      BY <2>2, ParameterAssumption DEF VersionType
  <2>4. versions' \in [Policies -> SUBSET VersionType]
      BY <2>1, <2>3 DEF TypeOK
  <2> QED
      BY <1>6, <2>4 DEF PublishVersion, TypeOK
<1>7. ASSUME NEW date \in HolidayDates, AddHoliday(date)
      PROVE  TypeOK'
  BY <1>7, ParameterAssumption DEF AddHoliday, TypeOK
<1>8. ASSUME NEW date \in ClockDates, SetClock(date)
      PROVE  TypeOK'
  BY <1>8, ParameterAssumption DEF SetClock, TypeOK
<1>9. ASSUME NEW year \in {YearOf(d) : d \in StatutoryDates}, SyncHolidays(year)
      PROVE  TypeOK'
  BY <1>9, ParameterAssumption DEF SyncHolidays, TypeOK
<1>10. CASE UNCHANGED vars
  BY <1>10 DEF vars, TypeOK
<1> QED
  BY <1>1, <1>2, <1>3, <1>4, <1>5, <1>6, <1>7, <1>8, <1>9, <1>10 DEF Next

(* The tables keep their shapes: every handler, job and administrative     *)
(* write stores rows of the declared types, for any number of employees,   *)
(* policies and requests.                                                  *)
THEOREM TypeCorrect == Spec => []TypeOK
BY TypeInit, TypeStep, PTL DEF Spec

-----------------------------------------------------------------------------
(* What posting does to the sources and to the balances. *)

OneEntryPerSource(L) == \A x, y \in L : x.source = y.source => x = y

(* An idempotent write keeps the sources apart. *)
LEMMA PostKeepsSources ==
    ASSUME NEW L, NEW E, OneEntryPerSource(L), OneEntryPerSource(E)
    PROVE  OneEntryPerSource(Post(L, E))
BY DEF Post, OneEntryPerSource, IsPosted

LEMMA PostNothing == \A L : Post(L, {}) = L
BY DEF Post

(* The legs of a request have a year each, so that no two share a source.  *)
LEMMA LegsOnePerSource ==
    ASSUME NEW q \in RequestType, NEW r, NEW type, NEW sign
    PROVE  OneEntryPerSource(Legs(type, r, q, sign))
<1>1. q.dates \in SUBSET Dates /\ FirstDates(q) \in SUBSET Int
    BY DEF RequestType, FirstDates, Dates
<1>2. \A d, e \in FirstDates(q) : YearOf(d) = YearOf(e) => d = e
    BY <1>1 DEF FirstDates, DatesIn
<1>3. SUFFICES ASSUME NEW d \in FirstDates(q), NEW e \in FirstDates(q),
                      <<type, r, YearOf(d)>> = <<type, r, YearOf(e)>>
               PROVE  d = e
    BY DEF OneEntryPerSource, Legs
<1> QED
    BY <1>2, <1>3

(* Entries of one account leave those of the others alone.                 *)
LEMMA PostElsewhere ==
    ASSUME NEW L, NEW E, NEW a, NEW b, a # b, \A x \in E : x.account = a
    PROVE  EntriesOf(Post(L, E), b) = EntriesOf(L, b)
BY DEF EntriesOf, Post

-----------------------------------------------------------------------------
(* The cached balance. *)

(* A handler that posts entries of one account and stores a row with the   *)
(* sum they lead to keeps every cached balance right.                      *)
LEMMA PostingKeepsSums ==
    ASSUME TypeOK, SnapshotIsLedgerSum, NEW a \in Accounts, NEW E, OneEntryPerSource(E),
           \A x \in E : x.account = a,
           NEW row \in SnapshotType, row.balance = Balance(Post(ledger, E), a),
           ledger' = Post(ledger, E), snapshots' = [snapshots EXCEPT ![a] = row]
    PROVE  SnapshotIsLedgerSum'
<1>1. OneEntryPerSource(ledger')
    BY PostKeepsSources DEF SnapshotIsLedgerSum, OneEntryPerSource
<1>2. row # None
    BY ParameterAssumption
<1>3. ASSUME NEW b \in Accounts
      PROVE  IF snapshots'[b] = None THEN EntriesOf(ledger', b) = {}
             ELSE snapshots'[b].balance = Balance(ledger', b)
  <2>1. CASE b = a
      BY <1>2, <2>1 DEF TypeOK
  <2>2. CASE b # a
    <3>1. EntriesOf(ledger', b) = EntriesOf(ledger, b)
        BY <2>2, PostElsewhere
    <3>2. snapshots'[b] = snapshots[b]
        BY <2>2 DEF TypeOK
    <3> QED
        BY <3>1, <3>2 DEF SnapshotIsLedgerSum, Balance
  <2> QED
      BY <2>1, <2>2
<1> QED
    BY <1>1, <1>3 DEF SnapshotIsLedgerSum, OneEntryPerSource

(* The same where nothing is posted. *)
LEMMA StoringKeepsSums ==
    ASSUME TypeOK, SnapshotIsLedgerSum, NEW a \in Accounts,
           NEW row \in SnapshotType, row.balance = Balance(ledger, a),
           ledger' = ledger, snapshots' = [snapshots EXCEPT ![a] = row]
    PROVE  SnapshotIsLedgerSum'
<1>1. Post(ledger, {}) = ledger
    BY PostNothing
<1>2. OneEntryPerSource({})
    BY DEF OneEntryPerSource
<1> QED
    BY <1>1, <1>2, PostingKeepsSums

LEMMA SnapshotSum ==
    ASSUME SnapshotIsLedgerSum, NEW a \in Accounts
    PROVE  Snapshot(a).balance = Balance(ledger, a)
BY DEF SnapshotIsLedgerSum, Snapshot

LEMMA RefreshedSum ==
    ASSUME NEW row \in SnapshotType, NEW a, NEW E, row.balance = Balance(ledger, a)
    PROVE  Refreshed(row, a, E).balance = Balance(Post(ledger, E), a)
<1>1. CASE Post(ledger, E) = ledger
    BY <1>1 DEF Refreshed
<1>2. CASE Post(ledger, E) # ledger
    BY <1>2 DEF Refreshed, SnapshotType
<1> QED
    BY <1>1, <1>2

LEMMA SumsInit == Init => SnapshotIsLedgerSum
BY DEF Init, SnapshotIsLedgerSum, EntriesOf

LEMMA SumsStep == TypeOK /\ SnapshotIsLedgerSum /\ [Next]_vars => SnapshotIsLedgerSum'
<1> SUFFICES ASSUME TypeOK, SnapshotIsLedgerSum, [Next]_vars
             PROVE  SnapshotIsLedgerSum'
    OBVIOUS
<1>1. ASSUME NEW r \in Requests, NEW e \in Employees, NEW c \in Categories,
             NEW start \in Dates, NEW end \in Dates, NEW partial \in Partials,
             Submit(r, e, c, start, end, partial)
      PROVE  SnapshotIsLedgerSum'
  <2>1. PICK a \in Assignments : \E version \in versions[a.policy] :
           LET request == NewRequest(e, a.policy, version, start, end, partial)
           IN  snapshots' = [snapshots EXCEPT ![request.account] =
                     IF Unlimited(version) THEN Snapshot(request.account)
                     ELSE [Snapshot(request.account) EXCEPT !.hold = @ + Total(request)]]
      BY <1>1 DEF Submit
  <2>2. PICK version \in versions[a.policy] :
           LET request == NewRequest(e, a.policy, version, start, end, partial)
           IN  snapshots' = [snapshots EXCEPT ![request.account] =
                     IF Unlimited(version) THEN Snapshot(request.account)
                     ELSE [Snapshot(request.account) EXCEPT !.hold = @ + Total(request)]]
      BY <2>1
  <2> DEFINE request == NewRequest(e, a.policy, version, start, end, partial)
             account == request.account
             row == Snapshot(account)
             after == IF Unlimited(version) THEN row ELSE [row EXCEPT !.hold = @ + Total(request)]
  <2>3. request \in RequestType /\ account \in Accounts
      BY NewRequestType DEF RequestType
  <2>4. row \in SnapshotType /\ Total(request) \in Nat /\ row.balance = Balance(ledger, account)
      BY <2>3, SnapshotRowType, CostType, SnapshotSum
  <2>5. after \in SnapshotType /\ after.balance = Balance(ledger, account)
    <3> HIDE DEF request, account, row
    <3> QED
        BY <2>4 DEF SnapshotType
  <2>6. snapshots' = [snapshots EXCEPT ![account] = after] /\ ledger' = ledger
      BY <1>1, <2>2 DEF Submit
  <2> HIDE DEF after, account
  <2> QED
      BY <2>3, <2>5, <2>6, StoringKeepsSums
<1>2. ASSUME NEW r \in Requests, Approve(r)
      PROVE  SnapshotIsLedgerSum'
  <2> DEFINE q == requests[r]
             row == Snapshot(q.account)
             debits == DebitLegs(r, q)
             after == [Refreshed(row, q.account, debits) EXCEPT !.hold = @ - Total(q)]
  <2>1. q \in RequestType /\ q.account \in Accounts
      BY <1>2 DEF Approve, IsPending, TypeOK, RequestType
  <2>2. row \in SnapshotType /\ Total(q) \in Nat /\ row.balance = Balance(ledger, q.account)
      BY <2>1, SnapshotRowType, CostType, SnapshotSum
  <2>3. /\ debits \in SUBSET EntryType /\ IsFiniteSet(debits)
        /\ OneEntryPerSource(debits) /\ \A x \in debits : x.account = q.account
      BY <2>1, LegsType, LegsOnePerSource DEF DebitLegs
  <2>4. CASE Unlimited(q.version)
    <3>1. snapshots' = [snapshots EXCEPT ![q.account] = row] /\ ledger' = ledger
        BY <1>2, <2>4 DEF Approve
    <3> QED
        BY <2>1, <2>2, <3>1, StoringKeepsSums
  <2>5. CASE ~ Unlimited(q.version)
    <3>1. snapshots' = [snapshots EXCEPT ![q.account] = after] /\ ledger' = Post(ledger, debits)
        BY <1>2, <2>5 DEF Approve
    <3>2. /\ Refreshed(row, q.account, debits) \in SnapshotType
          /\ Refreshed(row, q.account, debits).balance = Balance(Post(ledger, debits), q.account)
        BY <2>2, <2>3, RefreshedType, RefreshedSum
    <3>3. after \in SnapshotType /\ after.balance = Balance(Post(ledger, debits), q.account)
      <4> HIDE DEF row, debits
      <4> QED
          BY <2>2, <3>2 DEF SnapshotType
    <3> HIDE DEF after, debits
    <3> QED
        BY <2>1, <2>3, <3>1, <3>3, PostingKeepsSums
  <2> QED
      BY <2>4, <2>5
<1>3. ASSUME NEW r \in Requests, Deny(r)
      PROVE  SnapshotIsLedgerSum'
  <2> DEFINE q == requests[r]
             row == Snapshot(q.account)
             after == IF Unlimited(q.version) THEN row ELSE [row EXCEPT !.hold = @ - Total(q)]
  <2>1. q \in RequestType /\ q.account \in Accounts
      BY <1>3 DEF Deny, IsPending, TypeOK, RequestType
  <2>2. row \in SnapshotType /\ Total(q) \in Nat /\ row.balance = Balance(ledger, q.account)
      BY <2>1, SnapshotRowType, CostType, SnapshotSum
  <2>3. after \in SnapshotType /\ after.balance = Balance(ledger, q.account)
    <3> HIDE DEF row
    <3> QED
        BY <2>2 DEF SnapshotType
  <2>4. snapshots' = [snapshots EXCEPT ![q.account] = after] /\ ledger' = ledger
      BY <1>3 DEF Deny
  <2> HIDE DEF after
  <2> QED
      BY <2>1, <2>3, <2>4, StoringKeepsSums
<1>4. ASSUME NEW r \in Requests, Cancel(r)
      PROVE  SnapshotIsLedgerSum'
  <2> DEFINE q == requests[r]
             row == Snapshot(q.account)
             reversals == ReversalLegs(r, q)
             after == Refreshed(row, q.account, reversals)
             released == [row EXCEPT !.hold = @ - Total(q)]
  <2>1. q \in RequestType /\ q.account \in Accounts
      BY <1>4 DEF Cancel, TypeOK, RequestType
  <2>2. row \in SnapshotType /\ Total(q) \in Nat /\ row.balance = Balance(ledger, q.account)
      BY <2>1, SnapshotRowType, CostType, SnapshotSum
  <2>3. /\ reversals \in SUBSET EntryType /\ IsFiniteSet(reversals)
        /\ OneEntryPerSource(reversals) /\ \A x \in reversals : x.account = q.account
      BY <2>1, LegsType, LegsOnePerSource DEF ReversalLegs
  <2>4. CASE q.status = "PENDING"
    <3>1. snapshots' = [snapshots EXCEPT ![q.account] = released] /\ ledger' = ledger
        BY <1>4, <2>4 DEF Cancel
    <3>2. released \in SnapshotType /\ released.balance = Balance(ledger, q.account)
      <4> HIDE DEF row
      <4> QED
          BY <2>2 DEF SnapshotType
    <3> HIDE DEF released
    <3> QED
        BY <2>1, <3>1, <3>2, StoringKeepsSums
  <2>5. CASE q.status # "PENDING"
    <3>1. snapshots' = [snapshots EXCEPT ![q.account] = after] /\ ledger' = Post(ledger, reversals)
        BY <1>4, <2>5 DEF Cancel
    <3>2. after \in SnapshotType /\ after.balance = Balance(Post(ledger, reversals), q.account)
        BY <2>2, <2>3, RefreshedType, RefreshedSum
    <3> HIDE DEF after, reversals
    <3> QED
        BY <2>1, <2>3, <3>1, <3>2, PostingKeepsSums
  <2> QED
      BY <2>4, <2>5
<1>5. ASSUME NEW source \in JobSources, NEW a \in AssignedAccounts,
             NEW minutes \in JobAmounts, NEW date \in JobDates,
             JobPost(source, a, minutes, date)
      PROVE  SnapshotIsLedgerSum'
  <2> DEFINE E == {JobEntry(source, a, minutes, date)}
             row == IF snapshots[a] = None THEN [balance |-> 0, hold |-> 0] ELSE snapshots[a]
             after == Refreshed(row, a, E)
  <2>1. E \in SUBSET EntryType /\ IsFiniteSet(E) /\ a \in Accounts
      BY JobEntryType
  <2>2. OneEntryPerSource(E) /\ \A x \in E : x.account = a
      BY DEF OneEntryPerSource, JobEntry
  <2>3. row \in SnapshotType
      BY <2>1 DEF TypeOK, SnapshotType
  <2>4. CASE Post(ledger, E) = ledger
    <3>1. ledger' = ledger /\ snapshots' = snapshots
        BY <1>5, <2>4 DEF JobPost
    <3> QED
        BY <3>1 DEF SnapshotIsLedgerSum
  <2>5. CASE Post(ledger, E) # ledger
    <3>1. ledger' = Post(ledger, E) /\ snapshots' = [snapshots EXCEPT ![a] = after]
        BY <1>5, <2>5 DEF JobPost
    <3>2. after.balance = Balance(Post(ledger, E), a)
      <4> HIDE DEF row, E
      <4> QED
          BY <2>3, <2>5 DEF Refreshed, SnapshotType
    <3>3. after \in SnapshotType
        BY <2>1, <2>3, RefreshedType
    <3> HIDE DEF after, E
    <3> QED
        BY <2>1, <2>2, <3>1, <3>2, <3>3, PostingKeepsSums
  <2> QED
      BY <2>4, <2>5
<1>6. CASE UNCHANGED <<ledger, snapshots>>
  BY <1>6 DEF SnapshotIsLedgerSum
<1> QED
  BY <1>1, <1>2, <1>3, <1>4, <1>5, <1>6
  DEF Next, vars, PublishVersion, AddHoliday, SyncHolidays, SetClock

(* The balance the API shows and the workflow decides on is the sum of the *)
(* ledger, and no source was ever posted twice, however many requests,     *)
(* jobs and cancellations there were.                                      *)
THEOREM SnapshotsAreSums == Spec => []SnapshotIsLedgerSum
BY SumsInit, SumsStep, TypeCorrect, PTL DEF Spec

-----------------------------------------------------------------------------
(* Nobody is away twice. *)

(* It does not matter which of two requests came first. *)
LEMMA OverlapsSymmetric ==
    ASSUME NEW p \in RequestType, NEW q \in RequestType, Overlaps(p, q.start, q.end)
    PROVE  Overlaps(q, p.start, p.end)
BY DEF Overlaps

(* Deciding and cancelling keep a request's dates, and make none live.     *)
LEMMA MovingKeepsApart ==
    ASSUME TypeOK, NoLiveOverlap, NEW r \in Requests, requests[r] # None,
           requests[r].status \in Live, NEW status \in Statuses, Move(r, status)
    PROVE  NoLiveOverlap'
<1>1. \A p \in Requests \ {r} : requests'[p] = requests[p]
    BY DEF Move, TypeOK
<1>2. requests'[r] = [requests[r] EXCEPT !.status = status] /\ requests[r] \in RequestType
    BY DEF Move, TypeOK
<1>3. \A p \in Requests : requests'[p] # None => requests[p] # None
    BY <1>1
<1>4. \A p \in Requests : requests'[p] # None =>
         /\ requests'[p].employee = requests[p].employee
         /\ requests'[p].start = requests[p].start /\ requests'[p].end = requests[p].end
    BY <1>1, <1>2 DEF RequestType
<1>5. \A e \in Employees : LiveRequests(e)' \subseteq LiveRequests(e)
    BY <1>1, <1>3, <1>4 DEF LiveRequests
<1>6. \A e \in Employees : \A p \in LiveRequests(e)' : requests'[p] # None /\ p \in Requests
    BY DEF LiveRequests
<1> QED
    BY <1>4, <1>5, <1>6 DEF NoLiveOverlap, Overlaps

LEMMA ApartStep == TypeOK /\ NoLiveOverlap /\ [Next]_vars => NoLiveOverlap'
<1> SUFFICES ASSUME TypeOK, NoLiveOverlap, [Next]_vars
             PROVE  NoLiveOverlap'
    OBVIOUS
<1>1. ASSUME NEW r \in Requests, NEW e \in Employees, NEW c \in Categories,
             NEW start \in Dates, NEW end \in Dates, NEW partial \in Partials,
             Submit(r, e, c, start, end, partial)
      PROVE  NoLiveOverlap'
  <2>1. PICK a \in Assignments : \E version \in versions[a.policy] :
           requests' = [requests EXCEPT ![r] =
               NewRequest(e, a.policy, version, start, end, partial)]
      BY <1>1 DEF Submit
  <2>2. PICK version \in versions[a.policy] :
           requests' = [requests EXCEPT ![r] =
               NewRequest(e, a.policy, version, start, end, partial)]
      BY <2>1
  <2>3. /\ requests'[r].employee = e /\ requests'[r].start = start /\ requests'[r].end = end
        /\ requests'[r] \in RequestType
      BY <2>2, NewRequestType DEF NewRequest, TypeOK
  <2>4. \A p \in Requests \ {r} : requests'[p] = requests[p]
      BY <2>2 DEF TypeOK
  <2>5. FreeOfOverlap(e, start, end)
      BY <1>1 DEF Submit
  <2>6. ASSUME NEW f \in Employees, NEW p \in LiveRequests(f)', NEW q \in LiveRequests(f)', p # q
        PROVE  ~ Overlaps(requests'[p], requests'[q].start, requests'[q].end)
    <3>1. CASE p # r /\ q # r
        BY <2>4, <2>6, <3>1 DEF LiveRequests, NoLiveOverlap
    <3>2. CASE q = r
      <4>1. p \in LiveRequests(e) /\ requests'[p] = requests[p]
          BY <2>3, <2>4, <2>6, <3>2 DEF LiveRequests
      <4> QED
          BY <2>3, <2>5, <3>2, <4>1 DEF FreeOfOverlap
    <3>3. CASE p = r
      <4>1. q \in LiveRequests(e) /\ requests'[q] = requests[q] /\ requests[q] \in RequestType
          BY <2>3, <2>4, <2>6, <3>3 DEF LiveRequests, TypeOK
      <4>2. ~ Overlaps(requests'[q], requests'[p].start, requests'[p].end)
          BY <2>3, <2>5, <3>3, <4>1 DEF FreeOfOverlap
      <4> QED
          BY <2>3, <3>3, <4>1, <4>2, OverlapsSymmetric
    <3> QED
        BY <3>1, <3>2, <3>3
  <2> QED
      BY <2>6 DEF NoLiveOverlap
<1>2. ASSUME NEW r \in Requests, Approve(r) \/ Deny(r) \/ Cancel(r)
      PROVE  NoLiveOverlap'
  <2>1. requests[r] # None /\ requests[r].status \in Live
      BY <1>2 DEF Approve, Deny, Cancel, IsPending, Live
  <2>2. PICK status \in Statuses : Move(r, status)
      BY <1>2 DEF Approve, Deny, Cancel, Statuses
  <2> QED
      BY <2>1, <2>2, MovingKeepsApart
<1>3. CASE UNCHANGED requests
  BY <1>3 DEF NoLiveOverlap, LiveRequests
<1> QED
  BY <1>1, <1>2, <1>3 DEF Next, vars, JobPost, PublishVersion, AddHoliday, SyncHolidays, SetClock

(* Handlers that run one after the other never let two live requests of an *)
(* employee overlap; RequestTransactions shows what threads add to that.   *)
THEOREM NeverAwayTwice == Spec => []NoLiveOverlap
<1>1. Init => NoLiveOverlap
    BY DEF Init, NoLiveOverlap, LiveRequests
<1> QED
    BY <1>1, ApartStep, TypeCorrect, PTL DEF Spec

=============================================================================
