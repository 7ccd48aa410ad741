-------------------------- MODULE RequestTransactions --------------------------
(***************************************************************************)
(* The handlers of TimeOffRequests as the threads of the server run them:  *)
(* one database transaction per call, many at a time, under PostgreSQL's   *)
(* READ COMMITTED.  The variables of TimeOffRequests are the committed     *)
(* rows; tx holds what each open transaction has read, locked and written. *)
(*                                                                         *)
(* A plain SELECT sees the committed rows of the moment.  SELECT FOR       *)
(* UPDATE, UPDATE and an upsert wait for the transaction that holds the    *)
(* row and then see its newest version.  Locks are kept, and writes stay   *)
(* private, until the transaction ends.  Policy versions, holidays and the *)
(* clock stand still here.                                                 *)
(***************************************************************************)
EXTENDS TimeOffRequests

CONSTANTS
    Txns,    \* the transactions
    Calls    \* per transaction: the calls it may serve

(* The calls.  The schemas let only well-formed dates and minutes through, *)
(* and the identifier of a submission is made for that call.               *)
Submissions ==
    {c \in [op : {"submit"}, request : Requests, employee : Employees, category : Categories,
            start : Dates, end : Dates, partial : Partials] :
        c.start <= c.end /\ ValidPartial(c.start, c.end, c.partial)}

Reviews == [op : {"approve", "deny", "cancel"}, request : Requests]

JobRuns ==
    [op : {"job"}, posts : Seq([source : JobSources, account : AssignedAccounts,
                                minutes : JobAmounts, date : JobDates]) \ {<<>>}]

ASSUME CallAssumption ==
    /\ \A t \in Txns : Calls[t] \subseteq Submissions \cup Reviews \cup JobRuns
    /\ \A t, u \in Txns : \A c \in Calls[t], d \in Calls[u] :
          t # u /\ c.op = "submit" /\ d.op = "submit" => c.request # d.request

VARIABLE tx

txVars == <<vars, tx>>

NoTx ==
    [pc |-> "idle",                         \* its next statement
     call |-> None,                         \* the call it serves
     row |-> None,                          \* the request row in the session
     mine |-> [a \in Accounts |-> None],    \* snapshot rows it holds, as written
     locked |-> {},                         \* request rows it holds
     entries |-> {},                        \* ledger rows it has inserted
     sum |-> 0,                             \* the ledger sum it read last
     next |-> 1]                            \* a job's next post

TxInit == Init /\ tx = [t \in Txns |-> NoTx]

-----------------------------------------------------------------------------
(* Rows, locks and who waits for whom. *)

Op(t) == tx[t].call.op
Id(t) == tx[t].call.request
Account(t) == tx[t].row.account
PostOf(t) == tx[t].call.posts[tx[t].next]

RequestFree(r, t) == \A u \in Txns \ {t} : r \notin tx[u].locked
SnapshotFree(a, t) == \A u \in Txns \ {t} : tx[u].mine[a] = None
SourceFree(source, t) == \A u \in Txns \ {t} : ~ IsPosted(tx[u].entries, source)

JobEntryOf(post) == JobEntry(post.source, post.account, post.minutes, post.date)

(* The transactions whose end the next statement of t needs. *)
Blockers(t) ==
    {u \in Txns \ {t} :
        CASE tx[t].pc \in {"request", "flush"} -> Id(t) \in tx[u].locked
          [] tx[t].pc = "snapshot" -> snapshots[Account(t)] # None /\ tx[u].mine[Account(t)] # None
          [] tx[t].pc = "insert" -> tx[u].mine[Account(t)] # None
          [] tx[t].pc = "upsert" -> tx[u].mine[PostOf(t).account] # None
          [] tx[t].pc = "job" -> IsPosted(tx[u].entries, JobEntryOf(PostOf(t)).source)
          [] OTHER -> FALSE}

(* In a cycle of waits each transaction waits for one and holds up one.    *)
Deadlocked(t) ==
    /\ Blockers(t) # {}
    /\ \E S \in SUBSET Txns :
          /\ t \in S
          /\ \A u \in S : Blockers(u) \cap S # {} /\ \E w \in S : u \in Blockers(w)

Active(t) == tx[t].pc \notin {"idle", "committed", "failed"}

MutEnd_KeepsLocks(t, outcome) == tx' = [tx EXCEPT ![t].pc = outcome]

End(t, outcome) ==
    tx' = [tx EXCEPT ![t] = [NoTx EXCEPT !.pc = outcome, !.call = tx[t].call]]

-----------------------------------------------------------------------------
(* First statements: the reads a handler makes before it locks anything.   *)

BeginSubmit(t, c) ==
    /\ tx[t].pc = "idle" /\ c.op = "submit"
    /\ requests[c.request] = None
    /\ \E a \in Assignments : \E version \in versions[a.policy] :
        LET request == NewRequest(c.employee, a.policy, version, c.start, c.end, c.partial)
        IN  /\ Covers(a, c.employee, c.category, c.start, c.end)
            /\ IsEffectiveOn(version, versions[a.policy], c.start)
            /\ request.dates # {}
            /\ tx' = [tx EXCEPT ![t] =
                 IF FreeOfOverlap(c.employee, c.start, c.end)
                 THEN [@ EXCEPT !.call = c, !.row = request, !.pc = "snapshot"]
                 ELSE [@ EXCEPT !.call = c, !.pc = "failed"]]
    /\ UNCHANGED vars

(* api/requests.py reads the row only to know that it exists. *)
BeginDecide(t, c) ==
    /\ tx[t].pc = "idle" /\ c.op \in {"approve", "deny"}
    /\ requests[c.request] # None
    /\ tx' = [tx EXCEPT ![t] =
          [@ EXCEPT !.call = c, !.row = requests[c.request], !.pc = "request"]]
    /\ UNCHANGED vars

(* The status that guides the whole cancellation is read here, unlocked.   *)
BeginCancel(t, c) ==
    /\ tx[t].pc = "idle" /\ c.op = "cancel"
    /\ requests[c.request] # None
    /\ tx' = [tx EXCEPT ![t] =
          IF requests[c.request].status \in Live /\ today < requests[c.request].start
          THEN [@ EXCEPT !.call = c, !.row = requests[c.request], !.pc = "snapshot"]
          ELSE [@ EXCEPT !.call = c, !.pc = "failed"]]
    /\ UNCHANGED vars

BeginJob(t, c) ==
    /\ tx[t].pc = "idle" /\ c.op = "job"
    /\ tx' = [tx EXCEPT ![t] = [@ EXCEPT !.call = c, !.pc = "job"]]
    /\ UNCHANGED vars

-----------------------------------------------------------------------------
(* The statements of the request handlers. *)

MutLockRequest_StaleRow(t) ==
    /\ tx[t].pc = "request"
    /\ RequestFree(Id(t), t)
    /\ IF tx[t].row.status = "PENDING"
       THEN tx' = [tx EXCEPT ![t] =
              [@ EXCEPT !.locked = {Id(t)}, !.pc = "snapshot"]]
       ELSE End(t, "failed")
    /\ UNCHANGED vars

(* decide selects its request FOR UPDATE and reads the status again. *)
LockRequest(t) ==
    /\ tx[t].pc = "request"
    /\ RequestFree(Id(t), t)
    /\ IF requests[Id(t)].status = "PENDING"
       THEN tx' = [tx EXCEPT ![t] =
              [@ EXCEPT !.row = requests[Id(t)], !.locked = {Id(t)}, !.pc = "snapshot"]]
       ELSE End(t, "failed")
    /\ UNCHANGED vars

MutLockSnapshot_NoLock(t) ==
    /\ tx[t].pc = "snapshot"
    /\ snapshots[Account(t)] # None
    /\ tx' = [tx EXCEPT ![t] =
          [@ EXCEPT !.mine[Account(t)] = snapshots[Account(t)], !.pc = "check"]]
    /\ UNCHANGED vars

LockSnapshot(t) ==
    /\ tx[t].pc = "snapshot"
    /\ snapshots[Account(t)] # None
    /\ SnapshotFree(Account(t), t)
    /\ tx' = [tx EXCEPT ![t] =
          [@ EXCEPT !.mine[Account(t)] = snapshots[Account(t)], !.pc = "check"]]
    /\ UNCHANGED vars

(* No row to lock: sum the ledger, then insert one. *)
MissSnapshot(t) ==
    /\ tx[t].pc = "snapshot"
    /\ snapshots[Account(t)] = None
    /\ tx' = [tx EXCEPT ![t] = [@ EXCEPT !.sum = Balance(ledger, Account(t)), !.pc = "insert"]]
    /\ UNCHANGED vars

MutInsertSnapshot_Overwrites(t) ==
    /\ tx[t].pc = "insert"
    /\ SnapshotFree(Account(t), t)
    /\ tx' = [tx EXCEPT ![t] =
          [@ EXCEPT !.mine[Account(t)] = [balance |-> tx[t].sum, hold |-> 0], !.pc = "check"]]
    /\ UNCHANGED vars

(* The insert waits for another one of the same key, and fails if that one *)
(* was committed.                                                          *)
InsertSnapshot(t) ==
    /\ tx[t].pc = "insert"
    /\ SnapshotFree(Account(t), t)
    /\ IF snapshots[Account(t)] = None
       THEN tx' = [tx EXCEPT ![t] =
              [@ EXCEPT !.mine[Account(t)] = [balance |-> tx[t].sum, hold |-> 0], !.pc = "check"]]
       ELSE End(t, "failed")
    /\ UNCHANGED vars

(* The row of the session's snapshot once its hold has moved by minutes.   *)
Holding(t, minutes) == [tx[t].mine[Account(t)] EXCEPT !.hold = @ + minutes]

(* Ledger rows a handler posts while it holds the snapshot of its account, *)
(* and the refresh that follows the first of them.                         *)
PostLegs(t, legs, minutes, label) ==
    LET a == Account(t)
        posted == Post(ledger, legs) \ ledger
        row == Holding(t, minutes)
    IN  /\ \A x \in legs : SourceFree(x.source, t)
        /\ tx' = [tx EXCEPT ![t] =
              [@ EXCEPT !.entries = posted, !.pc = label,
                        !.mine[a] = IF posted = {} THEN row
                                    ELSE [row EXCEPT !.balance = Balance(ledger \cup posted, a)]]]

Hold(t, minutes, label) ==
    tx' = [tx EXCEPT ![t] = [@ EXCEPT !.mine[Account(t)] = Holding(t, minutes), !.pc = label]]

(* What a call under an unlimited version holds: nothing. *)
HeldCost(row) == IF Unlimited(row.version) THEN 0 ELSE Total(row)

CheckSubmit(t) ==
    /\ tx[t].pc = "check" /\ Op(t) = "submit"
    /\ IF Affordable(tx[t].mine[Account(t)], tx[t].row)
       THEN Hold(t, HeldCost(tx[t].row), "commit")
       ELSE End(t, "failed")
    /\ UNCHANGED vars

CheckApprove(t) ==
    /\ tx[t].pc = "check" /\ Op(t) = "approve"
    /\ LET row == tx[t].row
       IN  IF ~ StillCovered(tx[t].mine[Account(t)], row) THEN End(t, "failed")
           ELSE IF Unlimited(row.version) THEN Hold(t, 0, "commit")
           ELSE PostLegs(t, DebitLegs(Id(t), row), -Total(row), "commit")
    /\ UNCHANGED vars

CheckDeny(t) ==
    /\ tx[t].pc = "check" /\ Op(t) = "deny"
    /\ Hold(t, -HeldCost(tx[t].row), "commit")
    /\ UNCHANGED vars

CheckCancel(t) ==
    /\ tx[t].pc = "check" /\ Op(t) = "cancel"
    /\ IF tx[t].row.status = "PENDING"
       THEN Hold(t, -Total(tx[t].row), "flush")
       ELSE PostLegs(t, ReversalLegs(Id(t), tx[t].row), 0, "flush")
    /\ UNCHANGED vars

(* The UPDATE of a cancelled request takes the row lock at last; it asks   *)
(* nothing about the status it overwrites.                                 *)
Flush(t) ==
    /\ tx[t].pc = "flush"
    /\ RequestFree(Id(t), t)
    /\ tx' = [tx EXCEPT ![t] = [@ EXCEPT !.locked = {Id(t)}, !.pc = "commit"]]
    /\ UNCHANGED vars

MutTarget_Swapped(t) ==
    CASE Op(t) = "approve" -> "DENIED"
      [] Op(t) = "deny" -> "APPROVED"
      [] Op(t) = "cancel" -> "CANCELLED"

Target(t) ==
    CASE Op(t) = "approve" -> "APPROVED"
      [] Op(t) = "deny" -> "DENIED"
      [] Op(t) = "cancel" -> "CANCELLED"

(* The row a commit leaves: a new one, or the stored one with its status   *)
(* overwritten.                                                            *)
RowAfter(t) ==
    IF Op(t) = "submit" THEN tx[t].row ELSE [requests[Id(t)] EXCEPT !.status = Target(t)]

EventOf(t) ==
    IF Op(t) = "submit" THEN [from |-> None, to |-> "PENDING"]
    ELSE [from |-> tx[t].row.status, to |-> Target(t)]

CommitRequest(t) ==
    /\ tx[t].pc = "commit" /\ Op(t) # "job"
    /\ ledger' = ledger \cup tx[t].entries
    /\ snapshots' = [snapshots EXCEPT ![Account(t)] = tx[t].mine[Account(t)]]
    /\ requests' = [requests EXCEPT ![Id(t)] = RowAfter(t)]
    /\ events' = [events EXCEPT ![Id(t)] = Append(@, EventOf(t))]
    /\ End(t, "committed")
    /\ UNCHANGED <<today, versions, holidays>>

-----------------------------------------------------------------------------
(* The statements of a job: per post an insert, a sum and an upsert.       *)

Own(t) == ledger \cup tx[t].entries

AfterPost(t, next) == IF next <= Len(tx[t].call.posts) THEN "job" ELSE "commit"

(* The insert, which waits for an uncommitted entry of the same source,    *)
(* and the sum of the account, read before its snapshot is locked.         *)
JobInsert(t) ==
    /\ tx[t].pc = "job"
    /\ LET entry == JobEntryOf(PostOf(t))
           posted == Post(Own(t), {entry})
           next == tx[t].next + 1
       IN  /\ SourceFree(entry.source, t)
           /\ tx' = [tx EXCEPT ![t] =
                IF posted = Own(t)
                THEN [@ EXCEPT !.next = next, !.pc = AfterPost(t, next)]
                ELSE [@ EXCEPT !.entries = tx[t].entries \cup {entry},
                               !.sum = Balance(posted, entry.account), !.pc = "upsert"]]
    /\ UNCHANGED vars

MutJobUpsert_ResetsHold(t) ==
    /\ tx[t].pc = "upsert"
    /\ LET a == PostOf(t).account
           next == tx[t].next + 1
       IN  /\ SnapshotFree(a, t)
           /\ tx' = [tx EXCEPT ![t] =
                [@ EXCEPT !.mine[a] = [balance |-> tx[t].sum, hold |-> 0],
                          !.next = next, !.pc = AfterPost(t, next)]]
    /\ UNCHANGED vars

(* ON CONFLICT DO UPDATE SET balance_minutes: whatever the row is by now,  *)
(* its balance becomes the sum read earlier.                               *)
JobUpsert(t) ==
    /\ tx[t].pc = "upsert"
    /\ LET a == PostOf(t).account
           next == tx[t].next + 1
           held == IF tx[t].mine[a] # None THEN tx[t].mine[a].hold
                   ELSE IF snapshots[a] # None THEN snapshots[a].hold ELSE 0
       IN  /\ SnapshotFree(a, t)
           /\ tx' = [tx EXCEPT ![t] =
                [@ EXCEPT !.mine[a] = [balance |-> tx[t].sum, hold |-> held],
                          !.next = next, !.pc = AfterPost(t, next)]]
    /\ UNCHANGED vars

CommitJob(t) ==
    /\ tx[t].pc = "commit" /\ Op(t) = "job"
    /\ ledger' = ledger \cup tx[t].entries
    /\ snapshots' = [a \in Accounts |->
          IF tx[t].mine[a] = None THEN snapshots[a] ELSE tx[t].mine[a]]
    /\ End(t, "committed")
    /\ UNCHANGED <<today, versions, holidays, requests, events>>

-----------------------------------------------------------------------------
(* How a transaction ends early: the server may die or lose its connection *)
(* at any statement, and PostgreSQL aborts a member of a cycle of waits.   *)
(* Either way nothing it wrote remains.                                    *)

Crash(t) == Active(t) /\ End(t, "failed") /\ UNCHANGED vars

AbortDeadlocked(t) == Active(t) /\ Deadlocked(t) /\ End(t, "failed") /\ UNCHANGED vars

(* Nobody calls: the only state in which the server may stand still. *)
AllServed == (\A t \in Txns : ~ Active(t)) /\ UNCHANGED txVars

Begin(t) ==
    \E c \in Calls[t] : BeginSubmit(t, c) \/ BeginDecide(t, c) \/ BeginCancel(t, c) \/ BeginJob(t, c)

Work(t) ==
    \/ LockRequest(t) \/ LockSnapshot(t) \/ MissSnapshot(t) \/ InsertSnapshot(t)
    \/ CheckSubmit(t) \/ CheckApprove(t) \/ CheckDeny(t) \/ CheckCancel(t)
    \/ Flush(t) \/ CommitRequest(t)
    \/ JobInsert(t) \/ JobUpsert(t) \/ CommitJob(t)

TxNext ==
    \/ \E t \in Txns : Begin(t) \/ Work(t) \/ Crash(t) \/ AbortDeadlocked(t)
    \/ AllServed

(* A thread that can take its next statement takes it, and the deadlock    *)
(* detector runs; nobody has to call and nothing has to crash.             *)
TxFairness ==
    \A t \in Txns : WF_txVars(Work(t)) /\ WF_txVars(AbortDeadlocked(t))

TxSpec == TxInit /\ [][TxNext]_txVars /\ TxFairness

-----------------------------------------------------------------------------
(* Properties. *)

Labels == {"idle", "request", "snapshot", "insert", "check", "flush", "commit", "job", "upsert",
           "committed", "failed"}

(* The committed tables and the private state of every transaction have    *)
(* their shapes.                                                           *)
TxTypeOK ==
    /\ TypeOK
    /\ \A t \in Txns :
          /\ tx[t].pc \in Labels
          /\ tx[t].call \in Calls[t] \cup {None}
          /\ tx[t].row \in RequestType \cup {None}
          /\ tx[t].mine \in [Accounts -> SnapshotType \cup {None}]
          /\ tx[t].locked \subseteq Requests
          /\ tx[t].entries \subseteq EntryType

(* Row locks make the handlers atomic: however the statements of           *)
(* submissions and decisions interleave and wherever one of them dies, the *)
(* committed rows change as if each call had run alone.                    *)
ImplementsSerial == Spec

DecisionsOn(r) == {i \in DOMAIN events[r] : events[r][i].to \in {"APPROVED", "DENIED"}}

(* Reviewers who act on one request at the same time, or after a           *)
(* cancellation, leave one decision: the row is locked and read again      *)
(* before its status is believed.                                          *)
OneDecision == \A r \in Requests : Cardinality(DecisionsOn(r)) <= 1

(* A debit is in the ledger exactly when the approval that made it is in   *)
(* the request's history: a crash between the two leaves neither.          *)
DebitsComeWithApprovals ==
    \A r \in Requests :
        requests[r] # None /\ ~ Unlimited(requests[r].version) =>
            LegsOf(r, "REQUEST") =
                IF \E i \in DOMAIN events[r] : events[r][i].to = "APPROVED"
                THEN DebitLegs(r, requests[r])
                ELSE {}

(* A cancelled request costs nothing any more: its debits are reversed.    *)
CancelledCostsNothing ==
    \A r \in Requests :
        requests[r] # None /\ requests[r].status = "CANCELLED" =>
            SumAmounts(LegsOf(r, "REQUEST") \cup LegsOf(r, "REQUEST_CANCELLATION")) = 0

(* What a cached balance is worth when jobs overlap.  A job sums the       *)
(* ledger before its upsert waits, so that it may overwrite a balance with *)
(* one that lacks what others have posted meanwhile.  But a key is posted  *)
(* once, by however many runs, and a balance counts committed entries of   *)
(* its account, one of them at least: a job and its own replay, beside     *)
(* calls that post nothing, leave the ledger's sum.                        *)
BalancesCountPosts ==
    /\ \A x, y \in ledger : x.source = y.source => x = y
    /\ \A a \in Accounts : EntriesOf(ledger, a) # {} =>
          /\ snapshots[a] # None
          /\ \E counted \in (SUBSET EntriesOf(ledger, a)) \ {{}} :
                snapshots[a].balance = SumAmounts(counted)

(* A call that was begun ends, by a commit or with its rows untouched,     *)
(* also when transactions wait for one another in a circle.                *)
EveryCallEnds == \A t \in Txns : Active(t) ~> ~ Active(t)

=============================================================================
