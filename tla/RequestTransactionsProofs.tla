----------------------- MODULE RequestTransactionsProofs -----------------------
(***************************************************************************)
(* Theorems about RequestTransactions for any number of transactions,      *)
(* requests and accounts, any calls they serve, any interleaving of their  *)
(* statements and any crash or abort between two of them.                  *)
(***************************************************************************)
EXTENDS RequestTransactions, TimeOffLedgerProofs

-----------------------------------------------------------------------------
(* The private state of a transaction. *)

TxType ==
    [pc : Labels, call : (UNION {Calls[t] : t \in Txns}) \cup {None},
     row : RequestType \cup {None}, mine : [Accounts -> SnapshotType \cup {None}],
     locked : SUBSET Requests, entries : SUBSET EntryType, sum : Int, next : Nat \ {0}]

Handling == {"snapshot", "insert", "check", "flush", "commit"}

Ended == {"idle", "committed", "failed"}

(* A transaction is where its call can be, and has read what it needs. *)
Shaped(t, x) ==
    /\ x \in TxType /\ IsFiniteSet(x.entries)
    /\ IF x.pc = "idle" THEN x.call = None ELSE x.call \in Calls[t]
    /\ x.pc \in Ended => /\ x.locked = {} /\ x.entries = {} /\ x.next = 1
                         /\ \A a \in Accounts : x.mine[a] = None
    /\ x.pc = "request" => x.call.op \in {"approve", "deny"}
    /\ x.pc \in {"snapshot", "insert", "check", "flush"} => x.call.op # "job"
    /\ x.pc = "flush" => x.call.op = "cancel"
    /\ x.pc \in Handling \cup {"request"} /\ x.call.op # "job" => x.row \in RequestType
    /\ x.pc \in {"check", "flush", "commit"} /\ x.call.op # "job" => x.mine[x.row.account] # None
    /\ x.pc \in {"job", "upsert"} => x.call.op = "job" /\ x.next <= Len(x.call.posts)

(* A call on a request finds it, and the row never goes. *)
Finds(x) ==
    x.pc # "idle" /\ x.call.op \in {"approve", "deny", "cancel"} =>
        requests[x.call.request] # None

TypeInv ==
    /\ TypeOK
    /\ tx \in [Txns -> TxType]
    /\ \A t \in Txns : Shaped(t, tx[t]) /\ Finds(tx[t])

-----------------------------------------------------------------------------
(* Locks. *)

(* What a handler has made sure of: a submission's identifier is its own,  *)
(* a decision holds the row of its request and has read it again, and a    *)
(* cancellation holds it when it commits.                                  *)
Ready(x) ==
    /\ x.pc \in Handling /\ x.call.op = "submit" => requests[x.call.request] = None
    /\ x.pc \in Handling /\ x.call.op \in {"approve", "deny"} =>
          /\ x.call.request \in x.locked
          /\ x.row = requests[x.call.request] /\ x.row.status = "PENDING"
    /\ x.pc = "commit" /\ x.call.op = "cancel" => x.call.request \in x.locked

(* Of a request that exists only the status ever changes. *)
AsRead(x) ==
    x.pc \in Handling /\ x.call.op = "cancel" =>
        x.row = [requests[x.call.request] EXCEPT !.status = x.row.status]

Exclusive ==
    \A t, u \in Txns : t # u =>
        /\ tx[t].locked \cap tx[u].locked = {}
        /\ \A a \in Accounts : tx[t].mine[a] = None \/ tx[u].mine[a] = None

LockInv == Exclusive /\ \A t \in Txns : Ready(tx[t]) /\ AsRead(tx[t])

-----------------------------------------------------------------------------
(* What a transaction is about to write, told from the committed rows. *)

Moved(a, minutes) == [Snapshot(a) EXCEPT !.hold = @ + minutes]

(* The snapshot once legs were posted that the ledger may know already. *)
Charged(a, legs, minutes) ==
    LET posted == Post(ledger, legs) \ ledger
    IN  IF posted = {} THEN Moved(a, minutes)
        ELSE [Moved(a, minutes) EXCEPT !.balance = Balance(ledger \cup posted, a)]

Posts(x, legs, minutes) ==
    /\ x.entries = Post(ledger, legs) \ ledger
    /\ x.mine[x.row.account] = Charged(x.row.account, legs, minutes)

Holds(x, minutes) ==
    /\ x.entries = {}
    /\ x.mine[x.row.account] = Moved(x.row.account, minutes)

(* What each call writes, once it has passed its checks. *)
Writes(x) ==
    CASE x.call.op = "submit" ->
            Affordable(Snapshot(x.row.account), x.row) /\ Holds(x, HeldCost(x.row))
      [] x.call.op = "deny" -> Holds(x, -HeldCost(x.row))
      [] x.call.op = "approve" ->
            /\ StillCovered(Snapshot(x.row.account), x.row)
            /\ IF Unlimited(x.row.version) THEN Holds(x, 0)
               ELSE Posts(x, DebitLegs(x.call.request, x.row), -Total(x.row))
      [] x.call.op = "cancel" ->
            IF x.row.status = "PENDING" THEN Holds(x, -Total(x.row))
            ELSE Posts(x, ReversalLegs(x.call.request, x.row), 0)

(* A handler's writes fit the committed rows as they still are: whoever    *)
(* could change them waits for the snapshot it holds.                      *)
Current(x) ==
    /\ x.pc \in {"request", "snapshot", "insert", "check"} => x.entries = {}
    /\ x.pc = "insert" /\ snapshots[x.row.account] = None =>
          x.sum = Balance(ledger, x.row.account)
    /\ x.pc = "check" => x.mine[x.row.account] = Snapshot(x.row.account)
    /\ x.pc \in {"flush", "commit"} /\ x.call.op # "job" => Writes(x)

(* A job's rows have its keys, and at its commit their accounts' snapshots *)
(* are its own.                                                            *)
JobRows(x) ==
    x.pc # "idle" /\ x.call.op = "job" =>
        \A y \in x.entries :
            /\ y.source[1] = "JOB"
            /\ x.mine[y.account] # None
                 \/ (x.pc = "upsert" /\ y.account = x.call.posts[x.next].account)

WriteInv == \A t \in Txns : Current(tx[t]) /\ JobRows(tx[t])

-----------------------------------------------------------------------------
(* Histories and debits. *)

(* A request that was not decided has no decision in its history. *)
Undecided ==
    \A r \in Requests :
        requests[r] = None \/ requests[r].status = "PENDING" => DecisionsOn(r) = {}

AtMostOne == \A r \in Requests : \A i, j \in DecisionsOn(r) : i = j

Approvals(r) == {i \in DOMAIN events[r] : events[r][i].to = "APPROVED"}

(* A metered request has its debits from its approval on, and no other has *)
(* any.                                                                    *)
DebitsFollow ==
    \A r \in Requests :
        LegsOf(r, "REQUEST") =
            IF requests[r] # None /\ ~ Unlimited(requests[r].version) /\ Approvals(r) # {}
            THEN DebitLegs(r, requests[r])
            ELSE {}

DecisionInv == Undecided /\ AtMostOne /\ DebitsFollow

TxInv == TypeInv /\ LockInv /\ WriteInv /\ DecisionInv

-----------------------------------------------------------------------------
(* A step of one transaction that commits nothing. *)

(* What a transaction has read and written goes with the committed rows. *)
Agrees(x) == Finds(x) /\ Ready(x) /\ AsRead(x) /\ Current(x) /\ JobRows(x)

(* What it holds is held by no other. *)
Alone(t, x) ==
    \A u \in Txns \ {t} :
        /\ x.locked \cap tx[u].locked = {}
        /\ \A a \in Accounts : x.mine[a] = None \/ tx[u].mine[a] = None

(* The private state y suits transaction t beside those of the others. *)
Fits(t, y) == Shaped(t, y) /\ Agrees(y) /\ Alone(t, y)

LEMMA AllFit == TxInv => \A t \in Txns : Fits(t, tx[t])
BY DEF TxInv, TypeInv, LockInv, WriteInv, Fits, Agrees, Alone, Exclusive

EachFits == tx \in [Txns -> TxType] /\ \A t \in Txns : \A z \in TxType : z = tx[t] => Fits(t, z)

LEMMA FittingAll == TypeOK /\ DecisionInv /\ EachFits => TxInv
<1>1. EachFits => tx \in [Txns -> TxType] /\ \A t \in Txns : Fits(t, tx[t])
    BY DEF EachFits
<1> QED
    BY <1>1 DEF TxInv, TypeInv, LockInv, WriteInv, Fits, Agrees, Alone, Exclusive

LEMMA AgreementStays ==
    ASSUME UNCHANGED <<ledger, snapshots, requests>>, NEW z, Agrees(z)
    PROVE  Agrees(z)'
<1>1. Finds(z)' /\ Ready(z)' /\ AsRead(z)' /\ JobRows(z)'
    BY DEF Agrees, Finds, Ready, AsRead, JobRows
<1>2. \A a : Snapshot(a)' = Snapshot(a)
    BY DEF Snapshot
<1>3. Current(z)'
    BY <1>2 DEF Agrees, Current, Writes, Holds, Posts, Charged, Moved
<1> QED
    BY <1>1, <1>3 DEF Agrees

LEMMA PrivateStep ==
    ASSUME TxInv, NEW t \in Txns, NEW y, Fits(t, y), tx' = [tx EXCEPT ![t] = y], UNCHANGED vars
    PROVE  TxInv'
<1>1. y \in TxType /\ tx \in [Txns -> TxType] /\ TypeOK /\ DecisionInv
    BY DEF Fits, Shaped, TxInv, TypeInv
<1>2. /\ tx' \in [Txns -> TxType] /\ tx'[t] = y
      /\ \A u \in Txns \ {t} : tx'[u] = tx[u]
    BY <1>1
<1>3. TypeOK' /\ UNCHANGED <<ledger, snapshots, requests, events>>
    BY <1>1 DEF TypeOK, vars
<1>4. DecisionInv'
    BY <1>1, <1>3 DEF DecisionInv, Undecided, AtMostOne, DebitsFollow, DecisionsOn, Approvals, LegsOf
<1>5. \A u \in Txns : Fits(u, tx[u])
    BY AllFit
<1>6. ASSUME NEW u \in Txns, NEW z \in TxType, z = tx'[u]
      PROVE  Fits(u, z)'
  <2>2. z = tx'[u]
      BY <1>6
  <2>3. Shaped(u, z) /\ Agrees(z)
      BY <1>2, <1>5, <2>2 DEF Fits
  <2>4. Agrees(z)'
      BY <1>3, <2>3, AgreementStays
  <2>5. Shaped(u, z)'
      BY <2>3 DEF Shaped
  <2>6. Alone(u, z)'
    <3>1. CASE u = t
        BY <1>2, <2>2, <3>1 DEF Fits, Alone
    <3>2. CASE u # t
      <4>1. Alone(u, tx[u]) /\ Alone(t, y)
          BY <1>5 DEF Fits
      <4>2. ASSUME NEW v \in Txns \ {u}
            PROVE  /\ z.locked \cap tx'[v].locked = {}
                   /\ \A a \in Accounts : z.mine[a] = None \/ tx'[v].mine[a] = None
        <5>1. CASE v = t
            BY <1>2, <2>2, <3>2, <4>1, <5>1 DEF Alone
        <5>2. CASE v # t
            BY <1>2, <2>2, <3>2, <4>1, <5>2 DEF Alone
        <5> QED
            BY <5>1, <5>2
      <4> QED
          BY <4>2 DEF Alone
    <3> QED
        BY <3>1, <3>2
  <2> QED
      BY <2>4, <2>5, <2>6 DEF Fits
<1>7. EachFits'
    BY <1>2, <1>6 DEF EachFits, TxType
<1>8. TxInv'
    BY <1>3, <1>4, <1>7, FittingAll, PTL
<1> QED
    BY <1>8

LEMMA NoTxType == NoTx \in TxType /\ IsFiniteSet(NoTx.entries)
<1>1. NoTx.mine \in [Accounts -> SnapshotType \cup {None}]
    BY DEF NoTx
<1>2. 0 \in Int /\ 1 \in Nat \ {0} /\ "idle" \in Labels
    BY DEF Labels
<1> QED
    BY <1>1, <1>2, FS_EmptySet DEF NoTx, TxType

(* A transaction that ends holds nothing any more. *)
LEMMA EndFits ==
    ASSUME TxInv, NEW t \in Txns, tx[t].pc # "idle", NEW outcome \in {"committed", "failed"}
    PROVE  Fits(t, [NoTx EXCEPT !.pc = outcome, !.call = tx[t].call])
<1> DEFINE y == [NoTx EXCEPT !.pc = outcome, !.call = tx[t].call]
<1>1. tx[t] \in TxType /\ Shaped(t, tx[t]) /\ Finds(tx[t])
    BY DEF TxInv, TypeInv
<1>2. /\ y.pc = outcome /\ y.call = tx[t].call /\ y.locked = {} /\ y.entries = {}
      /\ y.next = 1 /\ \A a \in Accounts : y.mine[a] = None
    BY DEF NoTx
<1>3. y \in TxType
  <2>1. outcome \in Labels
      BY DEF Labels
  <2> QED
      BY <1>1, <2>1, NoTxType DEF TxType
<1> HIDE DEF y
<1>5. Shaped(t, y)
    BY <1>1, <1>2, <1>3, FS_EmptySet DEF Shaped, Handling
<1>6. Agrees(y)
    BY <1>1, <1>2 DEF Agrees, Finds, Ready, AsRead, Current, JobRows, Handling
<1>7. Fits(t, y)
    BY <1>2, <1>5, <1>6 DEF Fits, Alone
<1> QED
    BY <1>7 DEF y

LEMMA EndStep ==
    ASSUME TxInv, NEW t \in Txns, tx[t].pc # "idle", End(t, "failed"), UNCHANGED vars
    PROVE  TxInv'
BY EndFits, PrivateStep DEF End

LEMMA SameStatus == ASSUME NEW q \in RequestType PROVE q = [q EXCEPT !.status = q.status]
BY DEF RequestType

LEMMA StatusTwice == ASSUME NEW q \in RequestType, NEW s, NEW u PROVE [[q EXCEPT !.status = s] EXCEPT !.status = u] = [q EXCEPT !.status = u]
BY DEF RequestType

-----------------------------------------------------------------------------
(* The first statements. *)

PostRecord == [source : JobSources, account : AssignedAccounts, minutes : JobAmounts, date : JobDates]

LEMMA CallKinds ==
    ASSUME NEW t \in Txns, NEW c \in Calls[t]
    PROVE  /\ c.op \in {"submit", "approve", "deny", "cancel", "job"}
           /\ c.op # "job" => c.request \in Requests
           /\ c.op = "submit" => c \in Submissions
           /\ c.op = "job" => /\ c.posts \in Seq(PostRecord) /\ Len(c.posts) \in Nat \ {0}
                              /\ \A i \in 1 .. Len(c.posts) : c.posts[i] \in PostRecord
<1>1. c \in Submissions \cup Reviews \cup JobRuns
    BY CallAssumption
<1>2. CASE c \in Submissions
    BY <1>2 DEF Submissions
<1>3. CASE c \in Reviews
    BY <1>3 DEF Reviews
<1>4. CASE c \in JobRuns
  <2>1. c.op = "job" /\ c.posts \in Seq(PostRecord) /\ c.posts # <<>>
      BY <1>4 DEF JobRuns, PostRecord
  <2> QED
      BY <2>1
<1> QED
    BY <1>1, <1>2, <1>3, <1>4

(* A call begins with nothing held. *)
LEMMA IdleHoldsNothing ==
    ASSUME TxInv, NEW t \in Txns, tx[t].pc = "idle"
    PROVE  /\ tx[t] \in TxType /\ tx[t].locked = {} /\ tx[t].entries = {} /\ tx[t].next = 1
           /\ \A a \in Accounts : tx[t].mine[a] = None
BY DEF TxInv, TypeInv, Shaped, Ended

(* Whatever a call reads first, it holds nothing yet. *)
LEMMA FirstFits ==
    ASSUME TxInv, NEW t \in Txns, tx[t].pc = "idle", NEW c \in Calls[t], NEW y \in TxType,
           y.pc \in {"request", "snapshot", "job", "failed"}, y.call = c,
           y.pc = "request" => c.op \in {"approve", "deny"},
           y.pc = "snapshot" => c.op \in {"submit", "cancel"}, y.pc = "job" => c.op = "job",
           y.pc \in {"request", "snapshot"} => y.row \in RequestType,
           y.pc = "snapshot" /\ c.op = "cancel" => y.row = requests[c.request],
           c.op \in {"approve", "deny", "cancel"} => requests[c.request] # None,
           c.op = "submit" => requests[c.request] = None,
           y.locked = tx[t].locked, y.mine = tx[t].mine, y.entries = tx[t].entries,
           y.next = tx[t].next
    PROVE  Fits(t, y)
<1>1. /\ y.locked = {} /\ y.entries = {} /\ y.next = 1
      /\ \A a \in Accounts : y.mine[a] = None
    BY IdleHoldsNothing
<1>2. Shaped(t, y)
  <2>1. c.op = "job" => 1 <= Len(c.posts)
      BY CallKinds
  <2> QED
      BY <1>1, <2>1, FS_EmptySet DEF Shaped, Handling, Ended
<1>3. Agrees(y)
  <2>1. y.pc = "snapshot" /\ c.op = "cancel" =>
            y.row = [requests[c.request] EXCEPT !.status = y.row.status]
      BY SameStatus
  <2> QED
      BY <1>1, <2>1 DEF Agrees, Finds, Ready, AsRead, Current, JobRows, Handling
<1> QED
    BY <1>1, <1>2, <1>3 DEF Fits, Alone

LEMMA BeginKeeps ==
    ASSUME TxInv, NEW t \in Txns, Begin(t)
    PROVE  TxInv'
<1>1. PICK c \in Calls[t] : BeginSubmit(t, c) \/ BeginDecide(t, c) \/ BeginCancel(t, c) \/ BeginJob(t, c)
    BY DEF Begin
<1>2. tx[t] \in TxType /\ TypeOK /\ c \in UNION {Calls[u] : u \in Txns}
    BY DEF TxInv, TypeInv
<1>3. ASSUME NEW row \in RequestType, NEW pc \in {"request", "snapshot"}, tx[t].pc = "idle",
             pc = "request" => c.op \in {"approve", "deny"},
             pc = "snapshot" => c.op \in {"submit", "cancel"},
             pc = "snapshot" /\ c.op = "cancel" => row = requests[c.request],
             c.op \in {"approve", "deny", "cancel"} => requests[c.request] # None,
             c.op = "submit" => requests[c.request] = None,
             tx' = [tx EXCEPT ![t] = [tx[t] EXCEPT !.call = c, !.row = row, !.pc = pc]],
             UNCHANGED vars
      PROVE  TxInv'
  <2>1. PICK y : y = [tx[t] EXCEPT !.call = c, !.row = row, !.pc = pc]
      OBVIOUS
  <2>2. /\ y \in TxType /\ y.call = c /\ y.pc = pc /\ y.row = row /\ y.locked = tx[t].locked
        /\ y.mine = tx[t].mine /\ y.entries = tx[t].entries /\ y.next = tx[t].next
      BY <1>2, <2>1 DEF TxType, Labels
  <2>3. Fits(t, y)
      BY <1>3, <2>2, FirstFits
  <2> QED
      BY <1>3, <2>1, <2>3, PrivateStep
<1>4. ASSUME NEW pc \in {"job", "failed"}, tx[t].pc = "idle", pc = "job" => c.op = "job",
             c.op \in {"approve", "deny", "cancel"} => requests[c.request] # None,
             c.op = "submit" => requests[c.request] = None,
             tx' = [tx EXCEPT ![t] = [tx[t] EXCEPT !.call = c, !.pc = pc]], UNCHANGED vars
      PROVE  TxInv'
  <2>1. PICK y : y = [tx[t] EXCEPT !.call = c, !.pc = pc]
      OBVIOUS
  <2>2. /\ y \in TxType /\ y.call = c /\ y.pc = pc /\ y.locked = tx[t].locked
        /\ y.mine = tx[t].mine /\ y.entries = tx[t].entries /\ y.next = tx[t].next
      BY <1>2, <2>1 DEF TxType, Labels
  <2>3. Fits(t, y)
      BY <1>4, <2>2, FirstFits
  <2> QED
      BY <1>4, <2>1, <2>3, PrivateStep
<1>5. CASE BeginSubmit(t, c)
  <2>1. /\ tx[t].pc = "idle" /\ c.op = "submit" /\ requests[c.request] = None /\ UNCHANGED vars
        /\ c \in Submissions
      BY <1>5, CallKinds DEF BeginSubmit
  <2>2. PICK a \in Assignments : \E version \in versions[a.policy] :
           LET request == NewRequest(c.employee, a.policy, version, c.start, c.end, c.partial)
           IN  tx' = [tx EXCEPT ![t] =
                 IF FreeOfOverlap(c.employee, c.start, c.end)
                 THEN [@ EXCEPT !.call = c, !.row = request, !.pc = "snapshot"]
                 ELSE [@ EXCEPT !.call = c, !.pc = "failed"]]
      BY <1>5 DEF BeginSubmit
  <2>3. PICK version \in versions[a.policy] :
           LET request == NewRequest(c.employee, a.policy, version, c.start, c.end, c.partial)
           IN  tx' = [tx EXCEPT ![t] =
                 IF FreeOfOverlap(c.employee, c.start, c.end)
                 THEN [@ EXCEPT !.call = c, !.row = request, !.pc = "snapshot"]
                 ELSE [@ EXCEPT !.call = c, !.pc = "failed"]]
      BY <2>2
  <2>4. PICK request \in RequestType :
           request = NewRequest(c.employee, a.policy, version, c.start, c.end, c.partial)
    <3>1. c.employee \in Employees /\ c.start \in Dates /\ c.end \in Dates /\ c.partial \in Partials
        BY <2>1 DEF Submissions
    <3> QED
        BY <1>2, <3>1, NewRequestType
  <2>5. \/ tx' = [tx EXCEPT ![t] = [tx[t] EXCEPT !.call = c, !.row = request, !.pc = "snapshot"]]
        \/ tx' = [tx EXCEPT ![t] = [tx[t] EXCEPT !.call = c, !.pc = "failed"]]
      BY <2>3, <2>4
  <2> QED
      BY <1>3, <1>4, <2>1, <2>5
<1>6. CASE BeginDecide(t, c) \/ BeginCancel(t, c)
  <2>1. /\ tx[t].pc = "idle" /\ c.op \in {"approve", "deny", "cancel"}
        /\ requests[c.request] # None /\ UNCHANGED vars
      BY <1>6 DEF BeginDecide, BeginCancel
  <2>2. c.request \in Requests
      BY <2>1, CallKinds
  <2>3. PICK row \in RequestType : row = requests[c.request]
      BY <1>2, <2>1, <2>2 DEF TypeOK
  <2>4. \/ /\ tx' = [tx EXCEPT ![t] = [tx[t] EXCEPT !.call = c, !.row = row, !.pc = "request"]]
           /\ c.op \in {"approve", "deny"}
        \/ /\ tx' = [tx EXCEPT ![t] = [tx[t] EXCEPT !.call = c, !.row = row, !.pc = "snapshot"]]
           /\ c.op = "cancel"
        \/ tx' = [tx EXCEPT ![t] = [tx[t] EXCEPT !.call = c, !.pc = "failed"]]
      BY <1>6, <2>3 DEF BeginDecide, BeginCancel
  <2> QED
      BY <1>3, <1>4, <2>1, <2>3, <2>4
<1>7. CASE BeginJob(t, c)
    BY <1>4, <1>7 DEF BeginJob
<1> QED
    BY <1>1, <1>5, <1>6, <1>7

-----------------------------------------------------------------------------
(* The statements of the request handlers, up to their commit. *)

(* What is known of a transaction that serves a call. *)
LEMMA Serving ==
    ASSUME TxInv, NEW t \in Txns, tx[t].pc # "idle"
    PROVE  /\ tx[t] \in TxType /\ TypeOK /\ tx \in [Txns -> TxType] /\ Fits(t, tx[t])
           /\ tx[t].call \in Calls[t] /\ tx[t].call \in UNION {Calls[u] : u \in Txns}
           /\ tx[t].call.op \in {"submit", "approve", "deny", "cancel", "job"}
           /\ tx[t].call.op # "job" => Id(t) \in Requests
           /\ tx[t].call.op \in {"approve", "deny", "cancel"} => requests[Id(t)] \in RequestType
<1>1. tx[t] \in TxType /\ TypeOK /\ Fits(t, tx[t]) /\ tx[t].call \in Calls[t] /\ Finds(tx[t])
      /\ tx \in [Txns -> TxType]
    BY AllFit DEF TxInv, TypeInv, Shaped
<1>2. PICK c \in Calls[t] : c = tx[t].call
    BY <1>1
<1>3. c.op \in {"submit", "approve", "deny", "cancel", "job"} /\ (c.op # "job" => c.request \in Requests)
    BY CallKinds
<1>4. c.op \in {"approve", "deny", "cancel"} => requests[c.request] # None
    BY <1>1, <1>2 DEF Finds
<1> QED
    BY <1>1, <1>2, <1>3, <1>4 DEF Id, TypeOK

LEMMA LockRequestKeeps ==
    ASSUME TxInv, NEW t \in Txns, LockRequest(t)
    PROVE  TxInv'
<1>1. tx[t].pc = "request" /\ RequestFree(Id(t), t) /\ UNCHANGED vars
    BY DEF LockRequest
<1>2. /\ tx[t] \in TxType /\ Fits(t, tx[t]) /\ Id(t) \in Requests
      /\ tx[t].call.op \in {"approve", "deny"} /\ requests[Id(t)] \in RequestType
    BY <1>1, Serving DEF Fits, Shaped
<1>3. CASE requests[Id(t)].status = "PENDING"
  <2>1. PICK y : y = [tx[t] EXCEPT !.row = requests[Id(t)], !.locked = {Id(t)}, !.pc = "snapshot"]
      OBVIOUS
  <2>2. /\ y \in TxType /\ y.pc = "snapshot" /\ y.row = requests[Id(t)] /\ y.locked = {Id(t)}
        /\ y.call = tx[t].call /\ y.mine = tx[t].mine /\ y.entries = tx[t].entries
      BY <1>2, <2>1 DEF TxType, Labels
  <2>3. Shaped(t, y)
      BY <1>1, <1>2, <2>2 DEF Fits, Shaped, Ended, Handling
  <2>4. Agrees(y)
      BY <1>1, <1>2, <1>3, <2>2
      DEF Fits, Agrees, Finds, Ready, AsRead, Current, JobRows, Handling, Id
  <2>5. Alone(t, y)
      BY <1>1, <1>2, <2>2 DEF Fits, Alone, RequestFree
  <2>6. tx' = [tx EXCEPT ![t] = y]
      BY <1>3, <2>1 DEF LockRequest
  <2> QED
      BY <1>1, <2>3, <2>4, <2>5, <2>6, PrivateStep DEF Fits
<1>4. CASE requests[Id(t)].status # "PENDING"
    BY <1>1, <1>4, EndStep DEF LockRequest
<1> QED
    BY <1>3, <1>4

(* At its snapshot a handler has its row and has written nothing. *)
LEMMA AtSnapshot ==
    ASSUME TxInv, NEW t \in Txns, tx[t].pc \in {"snapshot", "insert", "check"}
    PROVE  /\ tx[t] \in TxType /\ Fits(t, tx[t]) /\ tx[t].row \in RequestType
           /\ Account(t) \in Accounts /\ Account(t) = tx[t].row.account /\ tx[t].entries = {}
           /\ tx[t].call.op \in {"submit", "approve", "deny", "cancel"} /\ Id(t) \in Requests
           /\ Id(t) = tx[t].call.request
<1>1. /\ tx[t] \in TxType /\ Fits(t, tx[t])
      /\ tx[t].call.op \in {"submit", "approve", "deny", "cancel", "job"}
      /\ tx[t].call.op # "job" => Id(t) \in Requests
    BY Serving
<1>2. tx[t].call.op # "job" /\ tx[t].row \in RequestType /\ tx[t].entries = {}
    BY <1>1 DEF Fits, Shaped, Agrees, Current, Handling
<1> QED
    BY <1>1, <1>2 DEF Account, Id, RequestType

(* A handler takes the snapshot of its account as it is. *)
LEMMA TakingKeeps ==
    ASSUME TxInv, NEW t \in Txns, tx[t].pc \in {"snapshot", "insert"}, SnapshotFree(Account(t), t),
           tx' = [tx EXCEPT ![t] =
               [tx[t] EXCEPT !.mine[Account(t)] = Snapshot(Account(t)), !.pc = "check"]],
           UNCHANGED vars
    PROVE  TxInv'
<1>1. /\ tx[t] \in TxType /\ Fits(t, tx[t]) /\ tx[t].row \in RequestType /\ tx[t].entries = {}
      /\ Account(t) \in Accounts /\ Account(t) = tx[t].row.account
      /\ tx[t].call.op \in {"submit", "approve", "deny", "cancel"}
    BY AtSnapshot
<1>2. PICK row \in SnapshotType : row = Snapshot(Account(t))
    BY <1>1, Serving, SnapshotRowType
<1>3. row # None
    BY ParameterAssumption
<1>4. PICK y : y = [tx[t] EXCEPT !.mine[Account(t)] = row, !.pc = "check"]
    OBVIOUS
<1>5. /\ y \in TxType /\ y.pc = "check" /\ y.row = tx[t].row /\ y.locked = tx[t].locked
      /\ y.call = tx[t].call /\ y.entries = {} /\ y.mine[Account(t)] = row
      /\ \A a \in Accounts : a # Account(t) => y.mine[a] = tx[t].mine[a]
    BY <1>1, <1>4 DEF TxType, Labels
<1>6. Shaped(t, y)
    BY <1>1, <1>3, <1>5 DEF Fits, Shaped, Ended, Handling
<1>7. Agrees(y)
    BY <1>1, <1>2, <1>5 DEF Fits, Agrees, Finds, Ready, AsRead, Current, JobRows, Handling
<1>8. Alone(t, y)
    BY <1>1, <1>5 DEF Fits, Alone, SnapshotFree
<1>9. tx' = [tx EXCEPT ![t] = y]
    BY <1>2, <1>4
<1> QED
    BY <1>6, <1>7, <1>8, <1>9, PrivateStep DEF Fits

LEMMA SnapshotStatementsKeep ==
    ASSUME TxInv, NEW t \in Txns, LockSnapshot(t) \/ MissSnapshot(t) \/ InsertSnapshot(t)
    PROVE  TxInv'
<1>1. tx[t].pc \in {"snapshot", "insert"} /\ UNCHANGED vars
    BY DEF LockSnapshot, MissSnapshot, InsertSnapshot
<1>2. /\ tx[t] \in TxType /\ Fits(t, tx[t]) /\ tx[t].row \in RequestType /\ tx[t].entries = {}
      /\ Account(t) \in Accounts /\ Account(t) = tx[t].row.account
      /\ tx[t].call.op \in {"submit", "approve", "deny", "cancel"}
    BY <1>1, AtSnapshot
<1>3. CASE LockSnapshot(t)
    BY <1>1, <1>3, TakingKeeps DEF LockSnapshot, Snapshot
<1>4. CASE MissSnapshot(t)
  <2>1. PICK sum \in Int : sum = Balance(ledger, Account(t))
      BY <1>1, Serving, BalanceType DEF TypeOK
  <2>2. PICK y : y = [tx[t] EXCEPT !.sum = sum, !.pc = "insert"]
      OBVIOUS
  <2>3. /\ y \in TxType /\ y.pc = "insert" /\ y.row = tx[t].row /\ y.locked = tx[t].locked
        /\ y.call = tx[t].call /\ y.entries = {} /\ y.mine = tx[t].mine /\ y.sum = sum
      BY <1>2, <2>2 DEF TxType, Labels
  <2>4. Shaped(t, y)
      BY <1>2, <2>3 DEF Fits, Shaped, Ended, Handling
  <2>5. tx[t].pc = "snapshot" /\ tx' = [tx EXCEPT ![t] = y]
      BY <1>4, <2>1, <2>2 DEF MissSnapshot
  <2>6. Agrees(y)
      BY <1>2, <2>1, <2>3, <2>5
      DEF Fits, Agrees, Finds, Ready, AsRead, Current, JobRows, Handling
  <2>7. Alone(t, y)
      BY <1>2, <2>3 DEF Fits, Alone
  <2> QED
      BY <1>1, <2>4, <2>5, <2>6, <2>7, PrivateStep DEF Fits
<1>5. CASE InsertSnapshot(t)
  <2>1. tx[t].pc = "insert" /\ SnapshotFree(Account(t), t)
      BY <1>5 DEF InsertSnapshot
  <2>2. CASE snapshots[Account(t)] = None
    <3>1. [balance |-> tx[t].sum, hold |-> 0] = Snapshot(Account(t))
        BY <1>2, <2>1, <2>2 DEF Fits, Agrees, Current, Snapshot
    <3>2. tx' = [tx EXCEPT ![t] =
              [tx[t] EXCEPT !.mine[Account(t)] = Snapshot(Account(t)), !.pc = "check"]]
        BY <1>5, <2>2, <3>1 DEF InsertSnapshot
    <3> QED
        BY <1>1, <2>1, <3>2, TakingKeeps
  <2>3. CASE snapshots[Account(t)] # None
      BY <1>1, <1>5, <2>3, EndStep DEF InsertSnapshot
  <2> QED
      BY <2>2, <2>3
<1> QED
    BY <1>3, <1>4, <1>5

(* A handler that passed its checks has written what its call writes. *)
LEMMA WritingKeeps ==
    ASSUME TxInv, NEW t \in Txns, tx[t].pc = "check", NEW y \in TxType,
           y.pc = IF Op(t) = "cancel" THEN "flush" ELSE "commit",
           y.call = tx[t].call, y.row = tx[t].row, y.locked = tx[t].locked,
           IsFiniteSet(y.entries), y.mine[Account(t)] \in SnapshotType,
           \A a \in Accounts : a # Account(t) => y.mine[a] = tx[t].mine[a],
           Writes(y), tx' = [tx EXCEPT ![t] = y], UNCHANGED vars
    PROVE  TxInv'
<1>1. /\ tx[t] \in TxType /\ Fits(t, tx[t]) /\ tx[t].row \in RequestType
      /\ Account(t) \in Accounts /\ Account(t) = tx[t].row.account
      /\ tx[t].call.op \in {"submit", "approve", "deny", "cancel"}
    BY AtSnapshot
<1>2. y.mine[Account(t)] # None
    BY ParameterAssumption
<1>3. tx[t].mine[Account(t)] # None
    BY <1>1 DEF Fits, Shaped
<1>4. Shaped(t, y)
    BY <1>1, <1>2 DEF Fits, Shaped, Ended, Handling, Op
<1>5. Agrees(y)
    BY <1>1 DEF Fits, Agrees, Finds, Ready, AsRead, Current, JobRows, Handling, Op
<1>6. Alone(t, y)
    BY <1>1, <1>3 DEF Fits, Alone
<1> QED
    BY <1>4, <1>5, <1>6, PrivateStep DEF Fits

LEMMA HeldCostType ==
    ASSUME NEW q \in RequestType
    PROVE  HeldCost(q) \in Int /\ -HeldCost(q) \in Int /\ Total(q) \in Int /\ -Total(q) \in Int
<1>1. Total(q) \in Nat
    BY CostType
<1> QED
    BY <1>1 DEF HeldCost

LEMMA MovedType ==
    ASSUME TypeOK, NEW a \in Accounts, NEW minutes \in Int
    PROVE  Moved(a, minutes) \in SnapshotType
BY SnapshotRowType DEF Moved, SnapshotType

LEMMA HoldingKeeps ==
    ASSUME TxInv, NEW t \in Txns, tx[t].pc = "check", NEW minutes \in Int,
           Hold(t, minutes, IF Op(t) = "cancel" THEN "flush" ELSE "commit"), UNCHANGED vars,
           \A y : /\ y.call = tx[t].call /\ y.row = tx[t].row /\ Holds(y, minutes)
                  => Writes(y)
    PROVE  TxInv'
<1>1. /\ tx[t] \in TxType /\ Fits(t, tx[t]) /\ tx[t].row \in RequestType /\ tx[t].entries = {}
      /\ Account(t) \in Accounts /\ Account(t) = tx[t].row.account /\ TypeOK
    BY AtSnapshot, Serving
<1>2. tx[t].mine[Account(t)] = Snapshot(Account(t))
    BY <1>1 DEF Fits, Agrees, Current
<1>3. PICK row \in SnapshotType : row = Moved(Account(t), minutes)
    BY <1>1, MovedType
<1>4. Holding(t, minutes) = row
    BY <1>2, <1>3 DEF Holding, Moved
<1>5. PICK pc \in {"flush", "commit"} : pc = IF Op(t) = "cancel" THEN "flush" ELSE "commit"
    OBVIOUS
<1>6. PICK y : y = [tx[t] EXCEPT !.mine[Account(t)] = row, !.pc = pc]
    OBVIOUS
<1>7. /\ y \in TxType /\ y.pc = pc /\ y.row = tx[t].row /\ y.locked = tx[t].locked
      /\ y.call = tx[t].call /\ y.entries = {} /\ y.mine[Account(t)] = row
      /\ \A a \in Accounts : a # Account(t) => y.mine[a] = tx[t].mine[a]
    BY <1>1, <1>6 DEF TxType, Labels
<1>8. tx' = [tx EXCEPT ![t] = y]
    BY <1>4, <1>5, <1>6 DEF Hold
<1>9. Holds(y, minutes)
    BY <1>1, <1>3, <1>7 DEF Holds
<1>10. Writes(y)
    BY <1>7, <1>9
<1>11. y.pc = IF Op(t) = "cancel" THEN "flush" ELSE "commit"
    BY <1>5, <1>7
<1>12. IsFiniteSet(y.entries) /\ y.mine[Account(t)] \in SnapshotType
    BY <1>7, FS_EmptySet
<1> QED
    BY <1>7, <1>8, <1>10, <1>11, <1>12, WritingKeeps

LEMMA PostingLegsKeeps ==
    ASSUME TxInv, NEW t \in Txns, tx[t].pc = "check", NEW minutes \in Int,
           NEW type \in {"REQUEST", "REQUEST_CANCELLATION"}, NEW sign \in {-1, 1}, NEW legs,
           legs = Legs(type, Id(t), tx[t].row, sign),
           PostLegs(t, legs, minutes, IF Op(t) = "cancel" THEN "flush" ELSE "commit"),
           UNCHANGED vars,
           \A y : /\ y.call = tx[t].call /\ y.row = tx[t].row /\ Posts(y, legs, minutes)
                  => Writes(y)
    PROVE  TxInv'
<1>1. /\ tx[t] \in TxType /\ Fits(t, tx[t]) /\ tx[t].row \in RequestType /\ Id(t) \in Requests
      /\ Account(t) \in Accounts /\ Account(t) = tx[t].row.account /\ TypeOK
    BY AtSnapshot, Serving
<1>2. tx[t].mine[Account(t)] = Snapshot(Account(t))
    BY <1>1 DEF Fits, Agrees, Current
<1>3. legs \in SUBSET EntryType /\ IsFiniteSet(legs) /\ ledger \in SUBSET EntryType /\ IsFiniteSet(ledger)
    BY <1>1, LegsType DEF TypeOK
<1>4. PICK posted \in SUBSET EntryType : posted = Post(ledger, legs) \ ledger
    BY <1>3 DEF Post
<1>5. IsFiniteSet(posted)
    BY <1>3, <1>4, FS_Subset DEF Post
<1>6. PICK all \in SUBSET EntryType : all = ledger \cup posted
    BY <1>3
<1>7. Balance(all, Account(t)) \in Int
    BY <1>3, <1>5, <1>6, FS_Union, BalanceType
<1>8. PICK row \in SnapshotType : row = Charged(Account(t), legs, minutes)
  <2>1. PICK moved \in SnapshotType : moved = Moved(Account(t), minutes)
      BY <1>1, MovedType
  <2>2. [moved EXCEPT !.balance = Balance(all, Account(t))] \in SnapshotType
      BY <1>7 DEF SnapshotType
  <2>3. Charged(Account(t), legs, minutes) =
            IF posted = {} THEN moved ELSE [moved EXCEPT !.balance = Balance(all, Account(t))]
      BY <1>4, <1>6, <2>1 DEF Charged
  <2> QED
      BY <2>2, <2>3
<1>9. Holding(t, minutes) = Moved(Account(t), minutes)
    BY <1>2 DEF Holding, Moved
<1>10. PICK pc \in {"flush", "commit"} : pc = IF Op(t) = "cancel" THEN "flush" ELSE "commit"
    OBVIOUS
<1>11. PICK y : y = [tx[t] EXCEPT !.entries = posted, !.pc = pc, !.mine[Account(t)] = row]
    OBVIOUS
<1>12. /\ y \in TxType /\ y.pc = pc /\ y.row = tx[t].row /\ y.locked = tx[t].locked
       /\ y.call = tx[t].call /\ y.entries = posted /\ y.mine[Account(t)] = row
       /\ \A a \in Accounts : a # Account(t) => y.mine[a] = tx[t].mine[a]
    BY <1>1, <1>11 DEF TxType, Labels
<1>13. tx' = [tx EXCEPT ![t] = y]
    BY <1>4, <1>8, <1>9, <1>10, <1>11 DEF PostLegs, Charged
<1>14. Posts(y, legs, minutes)
    BY <1>1, <1>4, <1>8, <1>12 DEF Posts
<1>15. Writes(y)
    BY <1>12, <1>14
<1>16. y.pc = IF Op(t) = "cancel" THEN "flush" ELSE "commit"
    BY <1>10, <1>12
<1> QED
    BY <1>5, <1>12, <1>13, <1>15, <1>16, WritingKeeps

LEMMA ChecksKeep ==
    ASSUME TxInv, NEW t \in Txns,
           CheckSubmit(t) \/ CheckApprove(t) \/ CheckDeny(t) \/ CheckCancel(t)
    PROVE  TxInv'
<1>1. tx[t].pc = "check" /\ tx[t].pc # "idle" /\ UNCHANGED vars
    BY DEF CheckSubmit, CheckApprove, CheckDeny, CheckCancel
<1>2. /\ tx[t].row \in RequestType /\ Account(t) = tx[t].row.account /\ Fits(t, tx[t])
      /\ Id(t) = tx[t].call.request /\ Op(t) = tx[t].call.op
    BY <1>1, AtSnapshot DEF Op
<1>3. tx[t].mine[Account(t)] = Snapshot(Account(t))
    BY <1>1, <1>2 DEF Fits, Agrees, Current
<1>4. PICK cost \in Int : cost = HeldCost(tx[t].row) /\ -cost \in Int
    BY <1>2, HeldCostType
<1>5. PICK back \in Int : back = -cost
    BY <1>4
<1>6. PICK total \in Int : total = -Total(tx[t].row)
    BY <1>2, HeldCostType
<1>7. CASE CheckSubmit(t)
  <2>1. Op(t) = "submit"
      BY <1>7 DEF CheckSubmit
  <2>2. CASE Affordable(tx[t].mine[Account(t)], tx[t].row)
    <3>1. Hold(t, cost, IF Op(t) = "cancel" THEN "flush" ELSE "commit")
        BY <1>4, <1>7, <2>1, <2>2 DEF CheckSubmit
    <3>2. \A y : y.call = tx[t].call /\ y.row = tx[t].row /\ Holds(y, cost) => Writes(y)
        BY <1>2, <1>3, <1>4, <2>1, <2>2 DEF Writes
    <3> QED
        BY <1>1, <3>1, <3>2, HoldingKeeps
  <2>3. CASE ~ Affordable(tx[t].mine[Account(t)], tx[t].row)
      BY <1>1, <1>7, <2>3, EndStep DEF CheckSubmit
  <2> QED
      BY <2>2, <2>3
<1>8. CASE CheckDeny(t)
  <2>1. Op(t) = "deny"
      BY <1>8 DEF CheckDeny
  <2>2. Hold(t, back, IF Op(t) = "cancel" THEN "flush" ELSE "commit")
      BY <1>4, <1>5, <1>8, <2>1 DEF CheckDeny
  <2>3. \A y : y.call = tx[t].call /\ y.row = tx[t].row /\ Holds(y, back) => Writes(y)
      BY <1>2, <1>4, <1>5, <2>1 DEF Writes
  <2> QED
      BY <1>1, <2>2, <2>3, HoldingKeeps
<1>9. CASE CheckApprove(t)
  <2>1. Op(t) = "approve"
      BY <1>9 DEF CheckApprove
  <2>2. CASE ~ StillCovered(tx[t].mine[Account(t)], tx[t].row)
      BY <1>1, <1>9, <2>2, EndStep DEF CheckApprove
  <2>3. CASE StillCovered(tx[t].mine[Account(t)], tx[t].row) /\ Unlimited(tx[t].row.version)
    <3>1. Hold(t, 0, IF Op(t) = "cancel" THEN "flush" ELSE "commit")
        BY <1>9, <2>1, <2>3 DEF CheckApprove
    <3>2. \A y : y.call = tx[t].call /\ y.row = tx[t].row /\ Holds(y, 0) => Writes(y)
        BY <1>2, <1>3, <2>1, <2>3 DEF Writes
    <3> QED
        BY <1>1, <3>1, <3>2, HoldingKeeps
  <2>4. CASE StillCovered(tx[t].mine[Account(t)], tx[t].row) /\ ~ Unlimited(tx[t].row.version)
    <3>1. PICK legs : legs = DebitLegs(Id(t), tx[t].row)
        OBVIOUS
    <3>2. PostLegs(t, legs, total, IF Op(t) = "cancel" THEN "flush" ELSE "commit")
        BY <1>6, <1>9, <2>1, <2>4, <3>1 DEF CheckApprove
    <3>3. \A y : y.call = tx[t].call /\ y.row = tx[t].row /\ Posts(y, legs, total) => Writes(y)
        BY <1>2, <1>3, <1>6, <2>1, <2>4, <3>1 DEF Writes
    <3>4. legs = Legs("REQUEST", Id(t), tx[t].row, -1) /\ -1 \in {-1, 1}
        BY <3>1 DEF DebitLegs
    <3> QED
        BY <1>1, <3>2, <3>3, <3>4, PostingLegsKeeps
  <2> QED
      BY <2>2, <2>3, <2>4
<1>10. CASE CheckCancel(t)
  <2>1. Op(t) = "cancel"
      BY <1>10 DEF CheckCancel
  <2>2. CASE tx[t].row.status = "PENDING"
    <3>1. Hold(t, total, IF Op(t) = "cancel" THEN "flush" ELSE "commit")
        BY <1>6, <1>10, <2>1, <2>2 DEF CheckCancel
    <3>2. \A y : y.call = tx[t].call /\ y.row = tx[t].row /\ Holds(y, total) => Writes(y)
        BY <1>2, <1>6, <2>1, <2>2 DEF Writes
    <3> QED
        BY <1>1, <3>1, <3>2, HoldingKeeps
  <2>3. CASE tx[t].row.status # "PENDING"
    <3>1. PICK legs : legs = ReversalLegs(Id(t), tx[t].row)
        OBVIOUS
    <3>2. PostLegs(t, legs, 0, IF Op(t) = "cancel" THEN "flush" ELSE "commit")
        BY <1>10, <2>1, <2>3, <3>1 DEF CheckCancel
    <3>3. \A y : y.call = tx[t].call /\ y.row = tx[t].row /\ Posts(y, legs, 0) => Writes(y)
        BY <1>2, <2>1, <2>3, <3>1 DEF Writes
    <3>4. legs = Legs("REQUEST_CANCELLATION", Id(t), tx[t].row, 1)
        BY <3>1 DEF ReversalLegs
    <3> QED
        BY <1>1, <3>2, <3>3, <3>4, PostingLegsKeeps
  <2> QED
      BY <2>2, <2>3
<1> QED
    BY <1>7, <1>8, <1>9, <1>10

LEMMA FlushKeeps ==
    ASSUME TxInv, NEW t \in Txns, Flush(t)
    PROVE  TxInv'
<1>1. tx[t].pc = "flush" /\ RequestFree(Id(t), t) /\ UNCHANGED vars
    BY DEF Flush
<1>2. /\ tx[t] \in TxType /\ Fits(t, tx[t]) /\ Id(t) \in Requests
      /\ tx[t].call.op = "cancel" /\ Id(t) = tx[t].call.request
    BY <1>1, Serving DEF Fits, Shaped, Id
<1>3. PICK y : y = [tx[t] EXCEPT !.locked = {Id(t)}, !.pc = "commit"]
    OBVIOUS
<1>4. /\ y \in TxType /\ y.pc = "commit" /\ y.row = tx[t].row /\ y.locked = {Id(t)}
      /\ y.call = tx[t].call /\ y.mine = tx[t].mine /\ y.entries = tx[t].entries
    BY <1>2, <1>3 DEF TxType, Labels
<1>5. Shaped(t, y)
    BY <1>1, <1>2, <1>4 DEF Fits, Shaped, Ended, Handling
<1>6. Writes(y)
    BY <1>1, <1>2, <1>4 DEF Fits, Agrees, Current, Writes, Holds, Posts
<1>7. Agrees(y)
    BY <1>1, <1>2, <1>4, <1>6 DEF Fits, Agrees, Finds, Ready, AsRead, Current, JobRows, Handling
<1>8. Alone(t, y)
    BY <1>1, <1>2, <1>4 DEF Fits, Alone, RequestFree
<1>9. tx' = [tx EXCEPT ![t] = y]
    BY <1>3 DEF Flush
<1> QED
    BY <1>1, <1>5, <1>7, <1>8, <1>9, PrivateStep DEF Fits

-----------------------------------------------------------------------------
(* The statements of a job, up to its commit. *)

(* A job is at one of its posts. *)
LEMMA AtPost ==
    ASSUME TxInv, NEW t \in Txns, tx[t].pc \in {"job", "upsert"}
    PROVE  /\ tx[t] \in TxType /\ Fits(t, tx[t]) /\ tx[t].call.op = "job"
           /\ tx[t].next \in Nat \ {0} /\ tx[t].next <= Len(tx[t].call.posts)
           /\ Len(tx[t].call.posts) \in Nat
           /\ PostOf(t) \in PostRecord /\ PostOf(t) = tx[t].call.posts[tx[t].next]
           /\ PostOf(t).account \in Accounts
<1>1. /\ tx[t] \in TxType /\ Fits(t, tx[t]) /\ tx[t].call \in Calls[t]
    BY Serving
<1>2. tx[t].call.op = "job" /\ tx[t].next <= Len(tx[t].call.posts) /\ tx[t].next \in Nat \ {0}
    BY <1>1 DEF Fits, Shaped, TxType
<1>3. PICK c \in Calls[t] : c = tx[t].call
    BY <1>1
<1>4. PICK n : n = tx[t].next
    OBVIOUS
<1>5. Len(c.posts) \in Nat /\ \A i \in 1 .. Len(c.posts) : c.posts[i] \in PostRecord
    BY <1>2, <1>3, CallKinds
<1>6. n \in 1 .. Len(c.posts)
    BY <1>2, <1>3, <1>4, <1>5
<1>7. c.posts[n] \in PostRecord
    BY <1>5, <1>6
<1>8. c.posts[n].account \in AssignedAccounts
    BY <1>7 DEF PostRecord
<1>9. AssignedAccounts \subseteq Accounts
    BY AssignmentAssumption DEF AssignedAccounts, Accounts
<1> QED
    BY <1>1, <1>2, <1>3, <1>4, <1>5, <1>7, <1>8, <1>9 DEF PostOf

(* The label a job goes to is a label of a job. *)
LEMMA AfterPostType ==
    ASSUME NEW t, NEW n \in Int, Len(tx[t].call.posts) \in Nat
    PROVE  /\ AfterPost(t, n) \in {"job", "commit"}
           /\ AfterPost(t, n) = "job" => n <= Len(tx[t].call.posts)
BY DEF AfterPost

LEMMA JobInsertKeeps ==
    ASSUME TxInv, NEW t \in Txns, JobInsert(t)
    PROVE  TxInv'
<1>1. tx[t].pc = "job" /\ UNCHANGED vars
    BY DEF JobInsert
<1>2. /\ tx[t] \in TxType /\ Fits(t, tx[t]) /\ tx[t].call.op = "job" /\ TypeOK
      /\ tx[t].next \in Nat \ {0} /\ tx[t].next <= Len(tx[t].call.posts)
      /\ Len(tx[t].call.posts) \in Nat
      /\ PostOf(t) \in PostRecord /\ PostOf(t) = tx[t].call.posts[tx[t].next]
    BY <1>1, AtPost, Serving
<1>3. PICK post \in PostRecord : post = PostOf(t)
    BY <1>2
<1>4. PICK entry \in EntryType : entry = JobEntryOf(post)
    BY <1>3, JobEntryType DEF JobEntryOf, PostRecord
<1>5. entry.account = post.account /\ entry.source[1] = "JOB"
    BY <1>4 DEF JobEntryOf, JobEntry
<1>6. PICK n \in Nat \ {0} : n = tx[t].next + 1
    BY <1>2
<1>7. PICK pc \in {"job", "commit"} :
          pc = AfterPost(t, n) /\ (pc = "job" => n <= Len(tx[t].call.posts))
    BY <1>2, <1>6, AfterPostType
<1>8. CASE Post(Own(t), {entry}) = Own(t)
  <2>1. PICK y : y = [tx[t] EXCEPT !.next = n, !.pc = pc]
      OBVIOUS
  <2>2. /\ y \in TxType /\ y.pc = pc /\ y.row = tx[t].row /\ y.locked = tx[t].locked
        /\ y.call = tx[t].call /\ y.mine = tx[t].mine /\ y.entries = tx[t].entries /\ y.next = n
      BY <1>2, <2>1 DEF TxType, Labels
  <2>3. tx' = [tx EXCEPT ![t] = y]
      BY <1>3, <1>4, <1>6, <1>7, <1>8, <2>1 DEF JobInsert
  <2>4. Shaped(t, y)
      BY <1>1, <1>2, <1>7, <2>2 DEF Fits, Shaped, Ended, Handling
  <2>5. Agrees(y)
      BY <1>1, <1>2, <2>2 DEF Fits, Agrees, Finds, Ready, AsRead, Current, JobRows
  <2>6. Alone(t, y)
      BY <1>2, <2>2 DEF Fits, Alone
  <2> QED
      BY <1>1, <2>3, <2>4, <2>5, <2>6, PrivateStep DEF Fits
<1>9. CASE Post(Own(t), {entry}) # Own(t)
  <2>1. PICK all \in SUBSET EntryType : all = Post(Own(t), {entry}) /\ IsFiniteSet(all)
    <3>1. tx[t].entries \subseteq EntryType /\ IsFiniteSet(tx[t].entries)
        BY <1>2 DEF Fits, Shaped, TxType
    <3>2. PICK L \in SUBSET EntryType : L = Own(t) /\ IsFiniteSet(L)
        BY <1>2, <3>1, FS_Union DEF Own, TypeOK
    <3>3. PICK E : E = {entry} /\ E \in SUBSET EntryType
        OBVIOUS
    <3>4. IsFiniteSet(E)
        BY <3>3, FS_Singleton
    <3> QED
        BY <3>2, <3>3, <3>4, PostType
  <2>2. PICK sum \in Int : sum = Balance(all, entry.account)
      BY <2>1, BalanceType
  <2>3. PICK y : y = [tx[t] EXCEPT !.entries = tx[t].entries \cup {entry}, !.sum = sum,
                                   !.pc = "upsert"]
      OBVIOUS
  <2>4. /\ y \in TxType /\ y.pc = "upsert" /\ y.row = tx[t].row /\ y.locked = tx[t].locked
        /\ y.call = tx[t].call /\ y.mine = tx[t].mine /\ y.entries = tx[t].entries \cup {entry}
        /\ y.next = tx[t].next
      BY <1>2, <2>3 DEF TxType, Labels
  <2>5. tx' = [tx EXCEPT ![t] = y]
    <3>1. tx' = [tx EXCEPT ![t] =
                   [tx[t] EXCEPT !.entries = tx[t].entries \cup {entry},
                                 !.sum = Balance(Post(Own(t), {entry}), entry.account),
                                 !.pc = "upsert"]]
        BY <1>3, <1>4, <1>9 DEF JobInsert
    <3> QED
        BY <2>1, <2>2, <2>3, <3>1
  <2>6. IsFiniteSet(y.entries)
      BY <1>2, <2>4, FS_AddElement DEF Fits, Shaped
  <2>7. Shaped(t, y)
      BY <1>1, <1>2, <2>4, <2>6 DEF Fits, Shaped, Ended, Handling
  <2>8. Agrees(y)
      BY <1>1, <1>2, <1>3, <1>5, <2>4
      DEF Fits, Agrees, Finds, Ready, AsRead, Current, JobRows, Handling
  <2>9. Alone(t, y)
      BY <1>2, <2>4 DEF Fits, Alone
  <2> QED
      BY <1>1, <2>5, <2>7, <2>8, <2>9, PrivateStep DEF Fits
<1> QED
    BY <1>8, <1>9

LEMMA JobUpsertKeeps ==
    ASSUME TxInv, NEW t \in Txns, JobUpsert(t)
    PROVE  TxInv'
<1>1. tx[t].pc = "upsert" /\ UNCHANGED vars
    BY DEF JobUpsert
<1>2. /\ tx[t] \in TxType /\ Fits(t, tx[t]) /\ tx[t].call.op = "job" /\ TypeOK
      /\ tx[t].next \in Nat \ {0} /\ tx[t].next <= Len(tx[t].call.posts)
      /\ Len(tx[t].call.posts) \in Nat
      /\ PostOf(t).account \in Accounts /\ PostOf(t) = tx[t].call.posts[tx[t].next]
    BY <1>1, AtPost, Serving
<1>3. PICK a \in Accounts : a = PostOf(t).account
    BY <1>2
<1>4. PICK n \in Nat \ {0} : n = tx[t].next + 1
    BY <1>2
<1>5. PICK pc \in {"job", "commit"} :
          pc = AfterPost(t, n) /\ (pc = "job" => n <= Len(tx[t].call.posts))
    BY <1>2, <1>4, AfterPostType
<1>6. PICK held \in Int :
          held = IF tx[t].mine[a] # None THEN tx[t].mine[a].hold
                 ELSE IF snapshots[a] # None THEN snapshots[a].hold ELSE 0
  <2>1. tx[t].mine[a] \in SnapshotType \cup {None} /\ snapshots[a] \in SnapshotType \cup {None}
      BY <1>2 DEF TxType, TypeOK
  <2> QED
      BY <2>1 DEF SnapshotType
<1>7. PICK row \in SnapshotType : row = [balance |-> tx[t].sum, hold |-> held]
    BY <1>2 DEF TxType, SnapshotType
<1>8. row # None
    BY ParameterAssumption
<1>9. PICK y : y = [tx[t] EXCEPT !.mine[a] = row, !.next = n, !.pc = pc]
    OBVIOUS
<1>10. /\ y \in TxType /\ y.pc = pc /\ y.row = tx[t].row /\ y.locked = tx[t].locked
       /\ y.call = tx[t].call /\ y.entries = tx[t].entries /\ y.next = n /\ y.mine[a] = row
       /\ \A b \in Accounts : b # a => y.mine[b] = tx[t].mine[b]
    BY <1>2, <1>9 DEF TxType, Labels
<1>11. tx' = [tx EXCEPT ![t] = y] /\ SnapshotFree(a, t)
    BY <1>3, <1>4, <1>5, <1>6, <1>7, <1>9 DEF JobUpsert
<1>12. Shaped(t, y)
    BY <1>1, <1>2, <1>5, <1>10 DEF Fits, Shaped, Ended, Handling
<1>13. Agrees(y)
  <2>1. \A x \in y.entries : x.source[1] = "JOB" /\ y.mine[x.account] # None
    <3>1. SUFFICES ASSUME NEW x \in y.entries
                   PROVE  x.source[1] = "JOB" /\ y.mine[x.account] # None
        OBVIOUS
    <3>2. /\ x.source[1] = "JOB" /\ x.account \in Accounts
          /\ tx[t].mine[x.account] # None \/ x.account = a
        BY <1>1, <1>2, <1>3, <1>10 DEF Fits, Agrees, JobRows, TxType, EntryType
    <3> QED
        BY <1>8, <1>10, <3>2
  <2> QED
      BY <1>1, <1>2, <1>10, <2>1 DEF Fits, Agrees, Finds, Ready, AsRead, Current, JobRows
<1>14. Alone(t, y)
    BY <1>2, <1>10, <1>11 DEF Fits, Alone, SnapshotFree
<1> QED
    BY <1>1, <1>11, <1>12, <1>13, <1>14, PrivateStep DEF Fits

-----------------------------------------------------------------------------
(* What a commit leaves of the others' writes. *)

(* Posting legs writes the same rows beside entries of other sources. *)
LEMMA PostElsewhereAlike ==
    ASSUME NEW L, NEW E, NEW legs, \A x \in legs : ~ IsPosted(E, x.source)
    PROVE  Post(L \cup E, legs) \ (L \cup E) = Post(L, legs) \ L
<1>1. \A x \in legs : x \notin E /\ (IsPosted(L \cup E, x.source) <=> IsPosted(L, x.source))
    BY DEF IsPosted
<1> QED
    BY <1>1 DEF Post

LEMMA LegsSources ==
    ASSUME NEW q, NEW type, NEW r, NEW sign, NEW x \in Legs(type, r, q, sign)
    PROVE  x.source[1] = type /\ x.source[2] = r
BY LegsAreLegs DEF AreLegs

(* While another commits E, a handler's writes stay what they have to be:  *)
(* E is on other accounts than its own and from other calls.               *)
LEMMA CurrentStays ==
    ASSUME TypeOK, NEW z \in TxType, Current(z), NEW E, ledger' = ledger \cup E,
           z.pc \in {"check", "flush", "commit"} /\ z.call.op # "job" =>
               /\ snapshots'[z.row.account] = snapshots[z.row.account]
               /\ EntriesOf(E, z.row.account) = {},
           z.pc = "insert" /\ snapshots'[z.row.account] = None =>
               snapshots[z.row.account] = None /\ EntriesOf(E, z.row.account) = {},
           z.pc = "check" => z.call.op # "job",
           z.pc # "idle" => z.call.op \in {"submit", "approve", "deny", "cancel", "job"},
           z.pc \in {"flush", "commit"} /\ z.call.op \in {"approve", "cancel"} =>
               \A e \in E : e.source[1] = "JOB" \/ e.source[2] # z.call.request
    PROVE  Current(z)'
<1>1. PICK a : a = z.row.account
    OBVIOUS
<1>2. ASSUME EntriesOf(E, a) = {}, NEW F
      PROVE  Balance(ledger' \cup F, a) = Balance(ledger \cup F, a) /\ Balance(ledger', a) = Balance(ledger, a)
  <2>1. /\ EntriesOf(ledger' \cup F, a) = EntriesOf(ledger \cup F, a)
        /\ EntriesOf(ledger', a) = EntriesOf(ledger, a)
      BY <1>2 DEF EntriesOf
  <2> QED
      BY <2>1 DEF Balance
<1>3. z.pc = "insert" /\ snapshots'[a] = None => z.sum = Balance(ledger', a)
    BY <1>1, <1>2 DEF Current
<1>4. ASSUME snapshots'[a] = snapshots[a], EntriesOf(E, a) = {}
      PROVE  /\ Snapshot(a)' = Snapshot(a)
             /\ \A minutes : Moved(a, minutes)' = Moved(a, minutes)
  <2>1. Snapshot(a)' = Snapshot(a)
      BY <1>2, <1>4 DEF Snapshot
  <2> QED
      BY <2>1 DEF Moved
<1>5. ASSUME snapshots'[a] = snapshots[a], EntriesOf(E, a) = {}, NEW minutes, NEW legs,
             \A x \in legs : ~ IsPosted(E, x.source)
      PROVE  /\ Post(ledger, legs)' \ ledger' = Post(ledger, legs) \ ledger
             /\ Charged(a, legs, minutes)' = Charged(a, legs, minutes)
  <2>1. PICK posted : posted = Post(ledger, legs) \ ledger
      OBVIOUS
  <2>2. Post(ledger', legs) \ ledger' = posted
      BY <1>5, <2>1, PostElsewhereAlike
  <2>3. /\ Moved(a, minutes)' = Moved(a, minutes)
        /\ Balance(ledger' \cup posted, a) = Balance(ledger \cup posted, a)
      BY <1>2, <1>4, <1>5
  <2>4. Post(ledger, legs)' = Post(ledger', legs)
      BY DEF Post, IsPosted
  <2> QED
      BY <2>1, <2>2, <2>3, <2>4 DEF Charged
<1>6. ASSUME z.pc \in {"flush", "commit"}, z.call.op # "job"
      PROVE  Writes(z)'
  <2>1. /\ snapshots'[a] = snapshots[a] /\ EntriesOf(E, a) = {} /\ Writes(z)
      BY <1>1, <1>6 DEF Current
  <2>2. /\ Snapshot(a)' = Snapshot(a)
        /\ \A minutes : Holds(z, minutes)' <=> Holds(z, minutes)
      BY <1>1, <1>4, <2>1 DEF Holds
  <2>3. ASSUME z.call.op \in {"approve", "cancel"},
               NEW type \in {"REQUEST", "REQUEST_CANCELLATION"}, NEW sign, NEW minutes, NEW legs,
               legs = Legs(type, z.call.request, z.row, sign)
        PROVE  Posts(z, legs, minutes)' <=> Posts(z, legs, minutes)
    <3>1. \A x \in legs : ~ IsPosted(E, x.source)
        BY <1>6, <2>3, LegsSources DEF IsPosted
    <3>2. /\ Post(ledger, legs)' \ ledger' = Post(ledger, legs) \ ledger
          /\ Charged(a, legs, minutes)' = Charged(a, legs, minutes)
        BY <1>5, <2>1, <3>1
    <3> QED
        BY <1>1, <3>2 DEF Posts
  <2>4. CASE z.call.op = "submit"
      BY <1>1, <2>1, <2>2, <2>4 DEF Writes
  <2>5. CASE z.call.op = "deny"
      BY <1>1, <2>1, <2>2, <2>5 DEF Writes
  <2>6. CASE z.call.op = "approve"
    <3>1. PICK legs : legs = DebitLegs(z.call.request, z.row)
        OBVIOUS
    <3>2. PICK minutes : minutes = -Total(z.row)
        OBVIOUS
    <3>3. Posts(z, legs, minutes)' <=> Posts(z, legs, minutes)
        BY <2>3, <2>6, <3>1 DEF DebitLegs
    <3> QED
        BY <1>1, <2>1, <2>2, <2>6, <3>1, <3>2, <3>3 DEF Writes
  <2>7. CASE z.call.op = "cancel"
    <3>1. PICK legs : legs = ReversalLegs(z.call.request, z.row)
        OBVIOUS
    <3>2. Posts(z, legs, 0)' <=> Posts(z, legs, 0)
        BY <2>3, <2>7, <3>1 DEF ReversalLegs
    <3> QED
        BY <1>1, <2>1, <2>2, <2>7, <3>1, <3>2 DEF Writes
  <2> QED
      BY <1>6, <2>4, <2>5, <2>6, <2>7
<1>7. z.pc = "check" => z.mine[a] = Snapshot(a)'
    BY <1>1, <1>4 DEF Current
<1>8. z.pc \in {"request", "snapshot", "insert", "check"} => z.entries = {}
    BY DEF Current
<1> QED
    BY <1>1, <1>3, <1>6, <1>7, <1>8 DEF Current

(* What a handler is about to commit. *)
LEMMA AtCommit ==
    ASSUME TxInv, NEW t \in Txns, tx[t].pc = "commit", tx[t].call.op # "job"
    PROVE  /\ tx[t] \in TxType /\ Fits(t, tx[t]) /\ tx[t].row \in RequestType /\ Writes(tx[t])
           /\ Account(t) \in Accounts /\ Account(t) = tx[t].row.account
           /\ tx[t].mine[Account(t)] \in SnapshotType /\ tx[t].mine[Account(t)] # None
           /\ tx[t].call.op \in {"submit", "approve", "deny", "cancel"} /\ Id(t) \in Requests
           /\ Id(t) = tx[t].call.request /\ Op(t) = tx[t].call.op
<1>1. /\ tx[t] \in TxType /\ Fits(t, tx[t])
      /\ tx[t].call.op \in {"submit", "approve", "deny", "cancel", "job"}
      /\ Id(t) \in Requests
    BY Serving
<1>2. tx[t].row \in RequestType /\ Writes(tx[t])
    BY <1>1 DEF Fits, Shaped, Agrees, Current, Handling
<1>3. tx[t].row.account \in Accounts
    BY <1>2 DEF RequestType
<1>4. tx[t].mine[tx[t].row.account] \in SnapshotType /\ tx[t].mine[tx[t].row.account] # None
    BY <1>1, <1>3 DEF Fits, Shaped, TxType
<1> QED
    BY <1>1, <1>2, <1>3, <1>4 DEF Account, Id, Op

(* The rows a handler posts are on its account and name its request.       *)
LEMMA EntriesAtCommit ==
    ASSUME TxInv, NEW t \in Txns, tx[t].pc = "commit", tx[t].call.op # "job"
    PROVE  /\ tx[t].call.op \in {"submit", "deny"} => tx[t].entries = {}
           /\ \A e \in tx[t].entries :
                 /\ e.account = Account(t) /\ e.source[2] = Id(t)
                 /\ e.source[1] = IF tx[t].call.op = "approve" THEN "REQUEST"
                                  ELSE "REQUEST_CANCELLATION"
<1>1. /\ tx[t].row \in RequestType /\ Writes(tx[t]) /\ Account(t) = tx[t].row.account
      /\ tx[t].call.op \in {"submit", "approve", "deny", "cancel"} /\ Id(t) \in Requests
      /\ Id(t) = tx[t].call.request
    BY AtCommit
<1>2. ASSUME NEW type \in {"REQUEST", "REQUEST_CANCELLATION"}, NEW sign \in {-1, 1}, NEW minutes,
             Posts(tx[t], Legs(type, Id(t), tx[t].row, sign), minutes)
      PROVE  \A e \in tx[t].entries :
                 e.account = Account(t) /\ e.source[2] = Id(t) /\ e.source[1] = type
  <2>1. tx[t].entries \subseteq Legs(type, Id(t), tx[t].row, sign)
      BY <1>2 DEF Posts, Post
  <2>2. \A e \in Legs(type, Id(t), tx[t].row, sign) : e.account = Account(t)
      BY <1>1, LegsType
  <2>3. \A e \in Legs(type, Id(t), tx[t].row, sign) : e.source[1] = type /\ e.source[2] = Id(t)
      BY LegsSources
  <2> QED
      BY <2>1, <2>2, <2>3
<1>3. CASE tx[t].call.op \in {"submit", "deny"}
    BY <1>1, <1>3 DEF Writes, Holds
<1>4. CASE tx[t].call.op = "approve"
  <2>1. CASE Unlimited(tx[t].row.version)
      BY <1>1, <1>4, <2>1 DEF Writes, Holds
  <2>2. CASE ~ Unlimited(tx[t].row.version)
    <3>1. PICK minutes : minutes = -Total(tx[t].row)
        OBVIOUS
    <3>2. Posts(tx[t], Legs("REQUEST", Id(t), tx[t].row, -1), minutes) /\ -1 \in {-1, 1}
        BY <1>1, <1>4, <2>2, <3>1 DEF Writes, DebitLegs
    <3> QED
        BY <1>2, <1>4, <3>2
  <2> QED
      BY <2>1, <2>2
<1>5. CASE tx[t].call.op = "cancel"
  <2>1. CASE tx[t].row.status = "PENDING"
      BY <1>1, <1>5, <2>1 DEF Writes, Holds
  <2>2. CASE tx[t].row.status # "PENDING"
    <3>1. Posts(tx[t], Legs("REQUEST_CANCELLATION", Id(t), tx[t].row, 1), 0)
        BY <1>1, <1>5, <2>2 DEF Writes, ReversalLegs
    <3> QED
        BY <1>2, <1>5, <3>1
  <2> QED
      BY <2>1, <2>2
<1> QED
    BY <1>1, <1>3, <1>4, <1>5

(* Two transactions that hold the snapshot of their account have two       *)
(* accounts, and so two requests.                                          *)
LEMMA AccountsApart ==
    ASSUME TxInv, NEW t \in Txns, NEW u \in Txns \ {t},
           tx[t].pc \in {"flush", "commit"}, tx[t].call.op \in {"approve", "cancel"},
           tx[u].pc \in {"flush", "commit"}, tx[u].call.op \in {"approve", "cancel"}
    PROVE  tx[t].call.request # tx[u].call.request
<1>1. ASSUME NEW v \in Txns, tx[v].pc \in {"flush", "commit"},
             tx[v].call.op \in {"approve", "cancel"}
      PROVE  /\ tx[v].row.account \in Accounts /\ tx[v].mine[tx[v].row.account] # None
             /\ tx[v].row.account = requests[tx[v].call.request].account
  <2>1. Fits(v, tx[v]) /\ requests[tx[v].call.request] \in RequestType
      BY <1>1, Serving DEF Id
  <2>2. tx[v].row \in RequestType /\ tx[v].mine[tx[v].row.account] # None
      BY <1>1, <2>1 DEF Fits, Shaped, Handling
  <2>3. tx[v].call.op = "approve" => tx[v].row = requests[tx[v].call.request]
      BY <1>1, <2>1 DEF Fits, Agrees, Ready, Handling
  <2>4. tx[v].call.op = "cancel" =>
            tx[v].row = [requests[tx[v].call.request] EXCEPT !.status = tx[v].row.status]
      BY <1>1, <2>1 DEF Fits, Agrees, AsRead, Handling
  <2>5. PICK q \in RequestType : q = requests[tx[v].call.request]
      BY <2>1
  <2>6. \A s : [q EXCEPT !.status = s].account = q.account
      BY DEF RequestType
  <2> QED
      BY <1>1, <2>2, <2>3, <2>4, <2>5, <2>6 DEF RequestType
<1>2. \A a \in Accounts : tx[t].mine[a] = None \/ tx[u].mine[a] = None
    BY AllFit DEF Fits, Alone
<1> QED
    BY <1>1, <1>2

(* What a commit makes of the requests. *)
LEMMA RowsAfter ==
    ASSUME TxInv, NEW t \in Txns, CommitRequest(t)
    PROVE  /\ tx[t].pc = "commit" /\ tx[t].call.op # "job" /\ TypeOK
           /\ requests'[Id(t)] \in RequestType /\ requests'[Id(t)] # None
           /\ \A q \in Requests \ {Id(t)} : requests'[q] = requests[q]
           /\ requests' \in [Requests -> RequestType \cup {None}]
           /\ tx[t].call.op = "submit" => requests[Id(t)] = None /\ requests'[Id(t)] = tx[t].row
           /\ tx[t].call.op # "submit" =>
                 /\ requests[Id(t)] \in RequestType /\ Id(t) \in tx[t].locked
                 /\ requests'[Id(t)] = [requests[Id(t)] EXCEPT !.status = Target(t)]
                 /\ Target(t) \in {"APPROVED", "DENIED", "CANCELLED"}
<1>1. tx[t].pc = "commit" /\ tx[t].call.op # "job"
    BY DEF CommitRequest, Op
<1>2. /\ tx[t] \in TxType /\ Fits(t, tx[t]) /\ tx[t].row \in RequestType
      /\ tx[t].call.op \in {"submit", "approve", "deny", "cancel"} /\ Id(t) \in Requests
      /\ Id(t) = tx[t].call.request /\ Op(t) = tx[t].call.op /\ TypeOK
    BY <1>1, AtCommit, Serving
<1>3. tx[t].call.op # "submit" => requests[Id(t)] \in RequestType
    BY <1>1, <1>2, Serving
<1>4. /\ tx[t].call.op = "submit" => requests[Id(t)] = None
      /\ tx[t].call.op # "submit" => Id(t) \in tx[t].locked
    BY <1>1, <1>2 DEF Fits, Agrees, Ready, Handling
<1>5. tx[t].call.op # "submit" => Target(t) \in {"APPROVED", "DENIED", "CANCELLED"}
    BY <1>2 DEF Target
<1>6. PICK row \in RequestType : row = RowAfter(t)
  <2>1. CASE tx[t].call.op = "submit"
      BY <1>2, <2>1 DEF RowAfter
  <2>2. CASE tx[t].call.op # "submit"
    <3>1. PICK q \in RequestType : q = requests[Id(t)]
        BY <1>3, <2>2
    <3>2. Target(t) \in Statuses
        BY <1>5, <2>2 DEF Statuses
    <3>3. [q EXCEPT !.status = Target(t)] \in RequestType
        BY <3>2 DEF RequestType
    <3> QED
        BY <1>2, <2>2, <3>1, <3>3 DEF RowAfter
  <2> QED
      BY <2>1, <2>2
<1>7. requests' = [requests EXCEPT ![Id(t)] = row]
    BY <1>6 DEF CommitRequest
<1>8. row # None
    BY ParameterAssumption
<1>9. requests \in [Requests -> RequestType \cup {None}]
    BY <1>2 DEF TypeOK
<1> QED
    BY <1>1, <1>2, <1>3, <1>4, <1>5, <1>6, <1>7, <1>8, <1>9 DEF RowAfter

(* A commit leaves what every other transaction read and wrote as it was.  *)
LEMMA OthersAgree ==
    ASSUME TxInv, NEW t \in Txns, CommitRequest(t), NEW u \in Txns \ {t},
           NEW z \in TxType, z = tx[u]
    PROVE  Agrees(z)'
<1>1. /\ tx[t].pc = "commit" /\ tx[t].call.op # "job" /\ TypeOK
      /\ requests'[Id(t)] \in RequestType /\ requests'[Id(t)] # None
      /\ \A q \in Requests \ {Id(t)} : requests'[q] = requests[q]
      /\ tx[t].call.op = "submit" => requests[Id(t)] = None
      /\ tx[t].call.op # "submit" =>
            /\ requests[Id(t)] \in RequestType /\ Id(t) \in tx[t].locked
            /\ requests'[Id(t)] = [requests[Id(t)] EXCEPT !.status = Target(t)]
    BY RowsAfter
<1>2. /\ Account(t) \in Accounts /\ tx[t].mine[Account(t)] # None
      /\ tx[t].call.op \in {"submit", "approve", "deny", "cancel"} /\ Id(t) \in Requests
      /\ Id(t) = tx[t].call.request
    BY <1>1, AtCommit
<1>3. Fits(u, z) /\ Fits(t, tx[t])
    BY AllFit
<1>4. Alone(t, tx[t]) /\ Agrees(z) /\ Shaped(u, z)
    BY <1>3 DEF Fits
<1>5. CASE z.pc = "idle"
    BY <1>1, <1>4, <1>5 DEF Agrees, Finds, Ready, AsRead, Current, JobRows, Handling
<1>6. CASE z.pc # "idle"
  <2>1. PICK q : q = z.call.request
      OBVIOUS
  <2>2. /\ z.call.op \in {"submit", "approve", "deny", "cancel", "job"}
        /\ z.call.op # "job" => q \in Requests
        /\ z.call.op \in {"approve", "deny", "cancel"} =>
              requests[q] \in RequestType /\ requests[q] # None
    BY <1>6, <2>1, Serving, ParameterAssumption DEF Id
  <2>3. Finds(z)'
      BY <1>1, <2>1, <2>2 DEF Finds
  <2>4. z.pc \in Handling /\ z.call.op = "submit" => q # Id(t)
    <3>1. SUFFICES ASSUME z.pc \in Handling, z.call.op = "submit" PROVE q # Id(t)
        OBVIOUS
    <3>2. requests[q] = None
        BY <1>4, <2>1, <3>1 DEF Agrees, Ready
    <3>3. CASE tx[t].call.op = "submit"
      <4>1. tx[t].call \in Calls[t] /\ z.call \in Calls[u]
          BY <1>1, <1>6, Serving
      <4> QED
          BY <1>2, <2>1, <3>1, <3>3, <4>1, CallAssumption
    <3>4. CASE tx[t].call.op # "submit"
        BY <1>1, <3>2, <3>4, ParameterAssumption
    <3> QED
        BY <3>3, <3>4
  <2>5. z.pc \in Handling /\ z.call.op \in {"approve", "deny"} => q # Id(t)
    <3>1. SUFFICES ASSUME z.pc \in Handling, z.call.op \in {"approve", "deny"} PROVE q # Id(t)
        OBVIOUS
    <3>2. q \in z.locked
        BY <1>4, <2>1, <3>1 DEF Agrees, Ready
    <3> QED
        BY <1>1, <1>4, <2>2, <3>1, <3>2 DEF Alone
  <2>6. Ready(z)'
      BY <1>1, <1>4, <2>1, <2>2, <2>4, <2>5 DEF Agrees, Ready
  <2>7. AsRead(z)'
    <3>1. SUFFICES ASSUME z.pc \in Handling, z.call.op = "cancel"
                   PROVE  z.row = [requests'[q] EXCEPT !.status = z.row.status]
        BY <2>1 DEF AsRead
    <3>2. z.row = [requests[q] EXCEPT !.status = z.row.status]
        BY <1>4, <2>1, <3>1 DEF Agrees, AsRead
    <3>3. CASE q # Id(t)
        BY <1>1, <2>2, <3>1, <3>2, <3>3
    <3>4. CASE q = Id(t)
      <4>1. PICK p \in RequestType : p = requests[q]
          BY <2>2, <3>1
      <4>2. PICK s : s = Target(t)
          OBVIOUS
      <4>3. requests'[q] = [p EXCEPT !.status = s]
          BY <1>1, <2>2, <3>1, <3>4, <4>1, <4>2
      <4>4. [[p EXCEPT !.status = s] EXCEPT !.status = z.row.status] =
                [p EXCEPT !.status = z.row.status]
          BY StatusTwice
      <4> QED
          BY <3>2, <4>1, <4>3, <4>4
    <3> QED
        BY <3>3, <3>4
  <2>8. JobRows(z)'
      BY <1>4 DEF Agrees, JobRows
  <2>9. Current(z)'
    <3>1. /\ ledger' = ledger \cup tx[t].entries
          /\ snapshots' = [snapshots EXCEPT ![Account(t)] = tx[t].mine[Account(t)]]
        BY DEF CommitRequest
    <3>2. \A b \in Accounts : b # Account(t) =>
              snapshots'[b] = snapshots[b] /\ EntriesOf(tx[t].entries, b) = {}
      <4>1. \A e \in tx[t].entries : e.account = Account(t)
          BY <1>1, EntriesAtCommit
      <4>2. snapshots \in [Accounts -> SnapshotType \cup {None}]
          BY <1>1 DEF TypeOK
      <4> QED
          BY <3>1, <4>1, <4>2 DEF EntriesOf
    <3>3. snapshots'[Account(t)] # None
        BY <1>1, <1>2, <3>1 DEF TypeOK
    <3>4. z.pc \in {"insert", "check", "flush", "commit"} /\ z.call.op # "job" =>
              z.row.account \in Accounts
        BY <1>4 DEF Shaped, Handling, RequestType
    <3>5. z.pc \in {"insert", "check"} => z.call.op # "job"
        BY <1>4 DEF Shaped
    <3>6. z.pc \in {"check", "flush", "commit"} /\ z.call.op # "job" => z.row.account # Account(t)
        BY <1>2, <1>4, <3>4 DEF Shaped, Alone
    <3>7. z.pc \in {"flush", "commit"} /\ z.call.op \in {"approve", "cancel"} =>
              \A e \in tx[t].entries : e.source[1] = "JOB" \/ e.source[2] # z.call.request
      <4>1. \A e \in tx[t].entries :
                e.source[2] = Id(t) /\ tx[t].call.op \in {"approve", "cancel"}
          BY <1>1, <1>2, EntriesAtCommit
      <4> QED
          BY <1>1, <1>2, <4>1, AccountsApart
    <3> QED
        BY <1>1, <1>4, <2>2, <3>1, <3>2, <3>3, <3>4, <3>5, <3>6, <3>7, CurrentStays DEF Agrees
  <2> QED
      BY <2>3, <2>6, <2>7, <2>8, <2>9 DEF Agrees
<1> QED
    BY <1>5, <1>6

-----------------------------------------------------------------------------
(* What a commit makes of histories and debits. *)

Marked(s, D) == {i \in DOMAIN s : s[i].to \in D}

LEMMA AppendTo ==
    ASSUME NEW s \in Seq(EventType), NEW e \in EventType, NEW D
    PROVE  /\ Marked(Append(s, e), D) =
                 Marked(s, D) \cup (IF e.to \in D THEN {Len(s) + 1} ELSE {})
           /\ Append(s, e) \in Seq(EventType)
<1>1. Len(s) \in Nat /\ DOMAIN s = 1 .. Len(s)
    OBVIOUS
<1>2. /\ Append(s, e) \in Seq(EventType) /\ Len(Append(s, e)) = Len(s) + 1
      /\ \A i \in 1 .. Len(s) : Append(s, e)[i] = s[i]
      /\ Append(s, e)[Len(s) + 1] = e
    OBVIOUS
<1>3. DOMAIN Append(s, e) = 1 .. (Len(s) + 1)
    BY <1>2
<1>4. 1 .. (Len(s) + 1) = (1 .. Len(s)) \cup {Len(s) + 1}
    BY <1>1
<1> QED
    BY <1>1, <1>2, <1>3, <1>4 DEF Marked

(* The history of a request after a commit. *)
LEMMA HistoryAfter ==
    ASSUME TxInv, NEW t \in Txns, CommitRequest(t)
    PROVE  /\ \A q \in Requests \ {Id(t)} : events'[q] = events[q]
           /\ events' \in [Requests -> Seq(EventType)]
           /\ \A D : Marked(events'[Id(t)], D) =
                        Marked(events[Id(t)], D)
                          \cup (IF EventOf(t).to \in D THEN {Len(events[Id(t)]) + 1} ELSE {})
           /\ tx[t].call.op = "submit" => EventOf(t).to = "PENDING"
           /\ tx[t].call.op = "approve" => EventOf(t).to = "APPROVED"
           /\ tx[t].call.op = "deny" => EventOf(t).to = "DENIED"
           /\ tx[t].call.op = "cancel" => EventOf(t).to = "CANCELLED"
<1>1. tx[t].pc = "commit" /\ tx[t].call.op # "job" /\ TypeOK
    BY RowsAfter
<1>2. /\ Id(t) \in Requests /\ Op(t) = tx[t].call.op /\ tx[t].row \in RequestType
      /\ tx[t].call.op \in {"submit", "approve", "deny", "cancel"}
    BY <1>1, AtCommit
<1>3. PICK e \in EventType : e = EventOf(t)
  <2>1. tx[t].row.status \in Statuses
      BY <1>2 DEF RequestType
  <2>2. tx[t].call.op # "submit" => Target(t) \in Statuses
      BY <1>2 DEF Target, Statuses
  <2>3. "PENDING" \in Statuses
      BY DEF Statuses
  <2>4. EventOf(t) \in EventType
      BY <1>2, <2>1, <2>2, <2>3 DEF EventOf, EventType
  <2> QED
      BY <2>4
<1>4. PICK s \in Seq(EventType) : s = events[Id(t)]
    BY <1>1, <1>2 DEF TypeOK
<1>5. events' = [events EXCEPT ![Id(t)] = Append(s, e)]
    BY <1>3, <1>4 DEF CommitRequest
<1>6. events \in [Requests -> Seq(EventType)]
    BY <1>1 DEF TypeOK
<1>7. Append(s, e) \in Seq(EventType) /\ events'[Id(t)] = Append(s, e)
    BY <1>2, <1>5, <1>6, AppendTo
<1>8. ASSUME NEW D
      PROVE  Marked(events'[Id(t)], D) =
                 Marked(events[Id(t)], D)
                   \cup (IF EventOf(t).to \in D THEN {Len(events[Id(t)]) + 1} ELSE {})
  <2>1. Marked(Append(s, e), D) = Marked(s, D) \cup (IF e.to \in D THEN {Len(s) + 1} ELSE {})
      BY AppendTo
  <2> QED
      BY <1>3, <1>4, <1>7, <2>1
<1> QED
    BY <1>2, <1>5, <1>6, <1>7, <1>8 DEF EventOf, Target

LEMMA MarkedDecisions ==
    /\ \A r \in Requests : DecisionsOn(r) = Marked(events[r], {"APPROVED", "DENIED"})
    /\ \A r \in Requests : Approvals(r) = Marked(events[r], {"APPROVED"})
BY DEF DecisionsOn, Approvals, Marked

LEMMA DecisionsAfter ==
    ASSUME TxInv, NEW t \in Txns, CommitRequest(t)
    PROVE  Undecided' /\ AtMostOne'
<1>1. /\ tx[t].pc = "commit" /\ tx[t].call.op # "job" /\ TypeOK
      /\ \A q \in Requests \ {Id(t)} : requests'[q] = requests[q]
      /\ requests'[Id(t)] \in RequestType /\ requests'[Id(t)] # None
      /\ tx[t].call.op = "submit" => requests[Id(t)] = None
      /\ tx[t].call.op # "submit" =>
            /\ requests[Id(t)] \in RequestType
            /\ requests'[Id(t)] = [requests[Id(t)] EXCEPT !.status = Target(t)]
            /\ Target(t) \in {"APPROVED", "DENIED", "CANCELLED"}
    BY RowsAfter
<1>2. /\ tx[t].call.op \in {"submit", "approve", "deny", "cancel"} /\ Id(t) \in Requests
      /\ Fits(t, tx[t]) /\ Id(t) = tx[t].call.request
    BY <1>1, AtCommit
<1>3. PICK r \in Requests : r = Id(t)
    BY <1>2
<1>4. \A q \in Requests \ {r} : DecisionsOn(q)' = DecisionsOn(q)
    BY <1>3, HistoryAfter DEF DecisionsOn
<1>5. DecisionsOn(r)' =
          DecisionsOn(r) \cup
             (IF tx[t].call.op \in {"approve", "deny"} THEN {Len(events[r]) + 1} ELSE {})
  <2>1. PICK D : D = {"APPROVED", "DENIED"}
      OBVIOUS
  <2>2. Marked(events'[r], D) =
            Marked(events[r], D) \cup (IF EventOf(t).to \in D THEN {Len(events[r]) + 1} ELSE {})
      BY <1>3, HistoryAfter
  <2>3. EventOf(t).to \in D <=> tx[t].call.op \in {"approve", "deny"}
      BY <1>2, <2>1, HistoryAfter
  <2>4. DecisionsOn(r)' = Marked(events'[r], D)
      BY <2>1 DEF DecisionsOn, Marked
  <2> QED
      BY <2>1, <2>2, <2>3, <2>4, MarkedDecisions
<1>6. tx[t].call.op \in {"submit", "approve", "deny"} => DecisionsOn(r) = {}
  <2>1. tx[t].call.op \in {"approve", "deny"} => requests[r].status = "PENDING"
      BY <1>1, <1>2, <1>3 DEF Fits, Agrees, Ready, Handling
  <2> QED
      BY <1>1, <1>2, <1>3, <2>1 DEF TxInv, DecisionInv, Undecided
<1>7. Undecided'
  <2>1. SUFFICES ASSUME NEW q \in Requests, requests'[q] = None \/ requests'[q].status = "PENDING"
                 PROVE  DecisionsOn(q)' = {}
      BY DEF Undecided
  <2>2. CASE q # r
      BY <1>1, <1>3, <1>4, <2>1, <2>2 DEF TxInv, DecisionInv, Undecided
  <2>3. CASE q = r
    <3>1. tx[t].call.op # "submit" => requests'[r].status # "PENDING"
        BY <1>1, <1>3 DEF RequestType
    <3>2. DecisionsOn(r)' = {}
        BY <1>1, <1>2, <1>3, <1>5, <1>6, <2>1, <2>3, <3>1
    <3> QED
        BY <2>3, <3>2
  <2> QED
      BY <2>2, <2>3
<1>8. AtMostOne'
  <2>1. SUFFICES ASSUME NEW q \in Requests, NEW i \in DecisionsOn(q)', NEW j \in DecisionsOn(q)'
                 PROVE  i = j
      BY DEF AtMostOne
  <2>2. CASE q # r
      BY <1>4, <2>1, <2>2 DEF TxInv, DecisionInv, AtMostOne
  <2>3. CASE q = r
    <3>1. i \in DecisionsOn(r)' /\ j \in DecisionsOn(r)'
        BY <2>1, <2>3
    <3> QED
        BY <1>2, <1>5, <1>6, <3>1 DEF TxInv, DecisionInv, AtMostOne
  <2> QED
      BY <2>2, <2>3
<1> QED
    BY <1>7, <1>8

LEMMA DebitsAfter ==
    ASSUME TxInv, NEW t \in Txns, CommitRequest(t)
    PROVE  DebitsFollow'
<1>1. /\ tx[t].pc = "commit" /\ tx[t].call.op # "job" /\ TypeOK
      /\ \A q \in Requests \ {Id(t)} : requests'[q] = requests[q]
      /\ requests'[Id(t)] \in RequestType /\ requests'[Id(t)] # None
      /\ tx[t].call.op = "submit" => requests[Id(t)] = None
      /\ tx[t].call.op # "submit" =>
            /\ requests[Id(t)] \in RequestType
            /\ requests'[Id(t)] = [requests[Id(t)] EXCEPT !.status = Target(t)]
    BY RowsAfter
<1>2. /\ tx[t].call.op \in {"submit", "approve", "deny", "cancel"} /\ Id(t) \in Requests
      /\ Fits(t, tx[t]) /\ Id(t) = tx[t].call.request /\ Writes(tx[t])
      /\ DebitsFollow /\ Undecided
    BY <1>1, AtCommit DEF TxInv, DecisionInv
<1>3. PICK r \in Requests : r = Id(t)
    BY <1>2
<1>4. ledger' = ledger \cup tx[t].entries
    BY DEF CommitRequest
<1>5. /\ tx[t].call.op \in {"submit", "deny"} => tx[t].entries = {}
      /\ \A e \in tx[t].entries :
            /\ e.source[2] = r
            /\ e.source[1] = IF tx[t].call.op = "approve" THEN "REQUEST" ELSE "REQUEST_CANCELLATION"
    BY <1>1, <1>3, EntriesAtCommit
<1>6. \A q \in Requests : LegsOf(q, "REQUEST")' = LegsIn(ledger', q, "REQUEST")
    BY DEF LegsOf, LegsIn
<1>7. ASSUME NEW q \in Requests \ {r}
      PROVE  LegsOf(q, "REQUEST")' =
                IF requests'[q] # None /\ ~ Unlimited(requests'[q].version) /\ Approvals(q)' # {}
                THEN DebitLegs(q, requests'[q])
                ELSE {}
  <2>1. LegsIn(ledger', q, "REQUEST") = LegsOf(q, "REQUEST")
      BY <1>4, <1>5, <1>7 DEF LegsIn, LegsOf
  <2>2. Approvals(q)' = Approvals(q)
      BY <1>3, <1>7, HistoryAfter DEF Approvals
  <2>3. requests'[q] = requests[q]
      BY <1>1, <1>3, <1>7
  <2> QED
      BY <1>2, <1>6, <1>7, <2>1, <2>2, <2>3 DEF DebitsFollow
<1>8. Approvals(r)' = Approvals(r) \cup
          (IF tx[t].call.op = "approve" THEN {Len(events[r]) + 1} ELSE {})
  <2>1. PICK D : D = {"APPROVED"}
      OBVIOUS
  <2>2. Marked(events'[r], D) =
            Marked(events[r], D) \cup (IF EventOf(t).to \in D THEN {Len(events[r]) + 1} ELSE {})
      BY <1>3, HistoryAfter
  <2>3. EventOf(t).to \in D <=> tx[t].call.op = "approve"
      BY <1>2, <2>1, HistoryAfter
  <2>4. Approvals(r)' = Marked(events'[r], D)
      BY <2>1 DEF Approvals, Marked
  <2> QED
      BY <2>1, <2>2, <2>3, <2>4, MarkedDecisions
<1>9. tx[t].call.op \in {"submit", "approve"} => Approvals(r) = {} /\ LegsOf(r, "REQUEST") = {}
  <2>1. tx[t].call.op = "approve" => requests[r].status = "PENDING"
      BY <1>1, <1>2, <1>3 DEF Fits, Agrees, Ready, Handling
  <2>2. tx[t].call.op \in {"submit", "approve"} => DecisionsOn(r) = {}
      BY <1>1, <1>2, <1>3, <2>1 DEF Undecided
  <2>3. Approvals(r) \subseteq DecisionsOn(r)
      BY DEF Approvals, DecisionsOn
  <2> QED
      BY <1>2, <2>2, <2>3 DEF DebitsFollow
<1>10. tx[t].call.op # "submit" =>
           /\ requests[r] # None
           /\ requests'[r].version = requests[r].version
           /\ DebitLegs(r, requests'[r]) = DebitLegs(r, requests[r])
  <2>1. SUFFICES ASSUME tx[t].call.op # "submit"
                 PROVE  /\ requests[r] # None
                        /\ requests'[r].version = requests[r].version
                        /\ DebitLegs(r, requests'[r]) = DebitLegs(r, requests[r])
      OBVIOUS
  <2>2. PICK q \in RequestType : q = requests[r]
      BY <1>1, <1>3, <2>1
  <2>3. PICK s : s = Target(t)
      OBVIOUS
  <2>4. requests'[r] = [q EXCEPT !.status = s]
      BY <1>1, <1>3, <2>1, <2>2, <2>3
  <2>5. DebitLegs(r, [q EXCEPT !.status = s]) = DebitLegs(r, q)
      BY LegsIgnoreStatus DEF DebitLegs
  <2>6. [q EXCEPT !.status = s].version = q.version
      BY DEF RequestType
  <2> QED
      BY <2>2, <2>4, <2>5, <2>6, ParameterAssumption
<1>11. LegsOf(r, "REQUEST")' =
           IF requests'[r] # None /\ ~ Unlimited(requests'[r].version) /\ Approvals(r)' # {}
           THEN DebitLegs(r, requests'[r])
           ELSE {}
  <2>1. tx[t].call.op # "approve" => LegsIn(ledger', r, "REQUEST") = LegsOf(r, "REQUEST")
      BY <1>4, <1>5 DEF LegsIn, LegsOf
  <2>2. CASE tx[t].call.op = "submit"
      BY <1>6, <1>8, <1>9, <2>1, <2>2
  <2>3. CASE tx[t].call.op \in {"deny", "cancel"}
      BY <1>1, <1>2, <1>3, <1>6, <1>8, <1>10, <2>1, <2>3 DEF DebitsFollow
  <2>4. CASE tx[t].call.op = "approve"
    <3>1. tx[t].row = requests[r]
        BY <1>1, <1>2, <1>3, <2>4 DEF Fits, Agrees, Ready, Handling
    <3>2. CASE Unlimited(requests[r].version)
      <4>1. tx[t].entries = {}
          BY <1>2, <2>4, <3>1, <3>2 DEF Writes, Holds
      <4>2. LegsIn(ledger', r, "REQUEST") = LegsOf(r, "REQUEST")
          BY <1>4, <4>1 DEF LegsIn, LegsOf
      <4> QED
          BY <1>6, <1>9, <1>10, <2>4, <3>2, <4>2
    <3>3. CASE ~ Unlimited(requests[r].version)
      <4>1. PICK legs : legs = DebitLegs(r, requests[r])
          OBVIOUS
      <4>2. tx[t].entries = Post(ledger, legs) \ ledger
          BY <1>2, <1>3, <2>4, <3>1, <3>3, <4>1 DEF Writes, Posts
      <4>3. ledger' = Post(ledger, legs)
          BY <1>4, <4>2 DEF Post
      <4>4. AreLegs(legs, r, "REQUEST")
          BY <4>1, LegsAreLegs DEF DebitLegs
      <4>5. LegsIn(ledger, r, "REQUEST") = {}
          BY <1>9, <2>4 DEF LegsIn, LegsOf
      <4>6. LegsIn(ledger', r, "REQUEST") = legs
          BY <4>3, <4>4, <4>5, PostFreshLegs
      <4> QED
          BY <1>1, <1>3, <1>6, <1>8, <1>10, <2>4, <3>3, <4>1, <4>6
    <3> QED
        BY <3>2, <3>3
  <2> QED
      BY <1>2, <2>2, <2>3, <2>4
<1> QED
    BY <1>7, <1>11 DEF DebitsFollow

-----------------------------------------------------------------------------
(* The commits. *)

LEMMA CommittingKeeps ==
    ASSUME TxInv, NEW t \in Txns, tx[t].pc # "idle", End(t, "committed"), TypeOK', DecisionInv',
           tx[t].call.op \in {"approve", "deny", "cancel"} => requests'[tx[t].call.request] # None,
           \A u \in Txns \ {t} : \A z \in TxType : z = tx[u] => Agrees(z)'
    PROVE  TxInv'
<1>1. PICK y : y = [NoTx EXCEPT !.pc = "committed", !.call = tx[t].call]
    OBVIOUS
<1>2. Fits(t, y)
    BY <1>1, EndFits
<1>3. tx \in [Txns -> TxType] /\ y \in TxType
    BY <1>2 DEF TxInv, TypeInv, Fits, Shaped
<1>4. /\ y.pc = "committed" /\ y.call = tx[t].call
    BY <1>1 DEF NoTx
<1>5. y.locked = {} /\ y.entries = {} /\ \A a \in Accounts : y.mine[a] = None
    BY <1>2, <1>4 DEF Fits, Shaped, Ended
<1>6. tx' = [tx EXCEPT ![t] = y]
    BY <1>1 DEF End
<1>7. /\ tx' \in [Txns -> TxType] /\ tx'[t] = y
      /\ \A u \in Txns \ {t} : tx'[u] = tx[u]
    BY <1>3, <1>6
<1>8. ASSUME NEW u \in Txns, NEW z \in TxType, z = tx'[u]
      PROVE  Fits(u, z)'
  <2>1. CASE u = t
    <3>1. z = y
        BY <1>7, <1>8, <2>1
    <3>2. Agrees(y)'
        BY <1>4, <1>5 DEF Agrees, Finds, Ready, AsRead, Current, JobRows, Handling
    <3>3. Shaped(u, y)'
        BY <1>2, <2>1 DEF Fits, Shaped
    <3>4. Alone(u, y)'
        BY <1>5 DEF Alone
    <3> QED
        BY <3>1, <3>2, <3>3, <3>4 DEF Fits
  <2>2. CASE u # t
    <3>1. z = tx[u] /\ Fits(u, tx[u])
        BY <1>7, <1>8, <2>2, AllFit
    <3>2. Agrees(z)'
        BY <2>2, <3>1
    <3>3. Shaped(u, z)'
        BY <3>1 DEF Fits, Shaped
    <3>4. Alone(u, z)'
      <4>1. ASSUME NEW v \in Txns \ {u}
            PROVE  /\ z.locked \cap tx'[v].locked = {}
                   /\ \A a \in Accounts : z.mine[a] = None \/ tx'[v].mine[a] = None
        <5>1. CASE v = t
            BY <1>5, <1>7, <5>1
        <5>2. CASE v # t
            BY <1>7, <3>1, <5>2 DEF Fits, Alone
        <5> QED
            BY <5>1, <5>2
      <4> QED
          BY <4>1 DEF Alone
    <3> QED
        BY <3>2, <3>3, <3>4 DEF Fits
  <2> QED
      BY <2>1, <2>2
<1>9. EachFits'
    BY <1>7, <1>8 DEF EachFits, TxType
<1> QED
    BY <1>9, FittingAll, PTL

LEMMA CommitRequestKeeps ==
    ASSUME TxInv, NEW t \in Txns, CommitRequest(t)
    PROVE  TxInv'
<1>1. /\ tx[t].pc = "commit" /\ tx[t].call.op # "job" /\ TypeOK
      /\ requests'[Id(t)] # None /\ requests' \in [Requests -> RequestType \cup {None}]
    BY RowsAfter
<1>2. /\ tx[t] \in TxType /\ Fits(t, tx[t]) /\ Account(t) \in Accounts
      /\ tx[t].mine[Account(t)] \in SnapshotType /\ Id(t) = tx[t].call.request
    BY <1>1, AtCommit
<1>3. tx[t].entries \subseteq EntryType /\ IsFiniteSet(tx[t].entries)
    BY <1>2 DEF Fits, Shaped, TxType
<1>4. TypeOK'
  <2>1. ledger' \subseteq EntryType /\ IsFiniteSet(ledger')
      BY <1>1, <1>3, FS_Union DEF CommitRequest, TypeOK
  <2>2. snapshots' \in [Accounts -> SnapshotType \cup {None}]
      BY <1>1, <1>2 DEF CommitRequest, TypeOK
  <2>3. events' \in [Requests -> Seq(EventType)]
      BY HistoryAfter
  <2>4. UNCHANGED <<today, versions, holidays>>
      BY DEF CommitRequest
  <2> QED
      BY <1>1, <2>1, <2>2, <2>3, <2>4 DEF TypeOK
<1>5. DecisionInv'
    BY DecisionsAfter, DebitsAfter DEF DecisionInv
<1>6. \A u \in Txns \ {t} : \A z \in TxType : z = tx[u] => Agrees(z)'
    BY OthersAgree
<1>7. End(t, "committed")
    BY DEF CommitRequest
<1> QED
    BY <1>1, <1>2, <1>4, <1>5, <1>6, <1>7, CommittingKeeps

LEMMA CommitJobKeeps ==
    ASSUME TxInv, NEW t \in Txns, CommitJob(t)
    PROVE  TxInv'
<1>1. /\ tx[t].pc = "commit" /\ tx[t].call.op = "job" /\ End(t, "committed")
      /\ ledger' = ledger \cup tx[t].entries
      /\ snapshots' = [a \in Accounts |->
            IF tx[t].mine[a] = None THEN snapshots[a] ELSE tx[t].mine[a]]
      /\ UNCHANGED <<today, versions, holidays, requests, events>>
    BY DEF CommitJob, Op
<1>2. tx[t] \in TxType /\ Fits(t, tx[t]) /\ TypeOK /\ DecisionInv
    BY <1>1, Serving DEF TxInv
<1>3. tx[t].entries \subseteq EntryType /\ IsFiniteSet(tx[t].entries)
    BY <1>2 DEF Fits, Shaped, TxType
<1>4. \A e \in tx[t].entries :
          e.source[1] = "JOB" /\ e.account \in Accounts /\ tx[t].mine[e.account] # None
    BY <1>1, <1>2, <1>3 DEF Fits, Agrees, JobRows, EntryType
<1>5. TypeOK'
  <2>1. ledger' \subseteq EntryType /\ IsFiniteSet(ledger')
      BY <1>1, <1>2, <1>3, FS_Union DEF TypeOK
  <2>2. snapshots' \in [Accounts -> SnapshotType \cup {None}]
      BY <1>1, <1>2 DEF TypeOK, TxType
  <2> QED
      BY <1>1, <1>2, <2>1, <2>2 DEF TypeOK
<1>6. DecisionInv'
  <2>1. \A r \in Requests : LegsOf(r, "REQUEST")' = LegsOf(r, "REQUEST")
      BY <1>1, <1>4 DEF LegsOf
  <2>2. DebitsFollow'
      BY <1>1, <1>2, <2>1 DEF DecisionInv, DebitsFollow, Approvals
  <2>3. Undecided' /\ AtMostOne'
      BY <1>1, <1>2 DEF DecisionInv, Undecided, AtMostOne, DecisionsOn
  <2> QED
      BY <2>2, <2>3 DEF DecisionInv
<1>7. ASSUME NEW u \in Txns \ {t}, NEW z \in TxType, z = tx[u]
      PROVE  Agrees(z)'
  <2>1. Fits(u, z) /\ Fits(t, tx[t])
      BY <1>7, AllFit
  <2>2. Alone(t, tx[t]) /\ Agrees(z) /\ Shaped(u, z)
      BY <2>1 DEF Fits
  <2>3. Finds(z)' /\ Ready(z)' /\ AsRead(z)' /\ JobRows(z)'
      BY <1>1, <2>2 DEF Agrees, Finds, Ready, AsRead, JobRows
  <2>4. \A b \in Accounts : tx[t].mine[b] = None =>
            snapshots'[b] = snapshots[b] /\ EntriesOf(tx[t].entries, b) = {}
      BY <1>1, <1>4 DEF EntriesOf
  <2>5. z.pc \in {"insert", "check", "flush", "commit"} /\ z.call.op # "job" =>
            z.row.account \in Accounts
      BY <2>2 DEF Shaped, Handling, RequestType
  <2>6. z.pc \in {"insert", "check"} => z.call.op # "job"
      BY <2>2 DEF Shaped
  <2>7. z.pc \in {"check", "flush", "commit"} /\ z.call.op # "job" =>
            tx[t].mine[z.row.account] = None
      BY <1>7, <2>2, <2>5 DEF Shaped, Alone
  <2>8. \A b \in Accounts : snapshots'[b] = None => tx[t].mine[b] = None
      BY <1>1
  <2>9. z.pc # "idle" => z.call.op \in {"submit", "approve", "deny", "cancel", "job"}
      BY <1>7, Serving
  <2>10. Current(z)'
      BY <1>1, <1>2, <1>4, <2>2, <2>4, <2>5, <2>6, <2>7, <2>8, <2>9, CurrentStays DEF Agrees
  <2> QED
      BY <2>3, <2>10 DEF Agrees
<1>8. tx[t].call.op \notin {"approve", "deny", "cancel"}
    BY <1>1
<1>9. \A u \in Txns \ {t} : \A z \in TxType : z = tx[u] => Agrees(z)'
    BY <1>7
<1> QED
    BY <1>1, <1>5, <1>6, <1>8, <1>9, CommittingKeeps

-----------------------------------------------------------------------------
(* Every step of the server. *)

LEMMA TxInitially == TxInit => TxInv
<1> SUFFICES ASSUME TxInit PROVE TxInv
    OBVIOUS
<1>1. Init /\ TypeOK /\ tx = [t \in Txns |-> NoTx]
    BY TypeInit DEF TxInit
<1>2. tx \in [Txns -> TxType]
    BY <1>1, NoTxType
<1>3. /\ NoTx.pc = "idle" /\ NoTx.call = None /\ NoTx.locked = {} /\ NoTx.entries = {}
      /\ NoTx.next = 1 /\ \A a \in Accounts : NoTx.mine[a] = None
    BY DEF NoTx
<1>4. PICK y \in TxType : y = NoTx
    BY NoTxType
<1>5. \A t \in Txns : Shaped(t, y)
    BY <1>3, <1>4, FS_EmptySet DEF Shaped, Ended, Handling
<1>6. Agrees(y)
    BY <1>3, <1>4 DEF Agrees, Finds, Ready, AsRead, Current, JobRows, Handling
<1>7. \A t \in Txns : Alone(t, y)
    BY <1>1, <1>3, <1>4 DEF Alone
<1>8. EachFits
    BY <1>1, <1>2, <1>4, <1>5, <1>6, <1>7 DEF EachFits, Fits
<1>9. DecisionInv
  <2>1. \A r \in Requests : /\ requests[r] = None /\ events[r] = <<>> /\ LegsOf(r, "REQUEST") = {}
      BY <1>1 DEF Init, LegsOf
  <2>2. \A r \in Requests : DecisionsOn(r) = {}
      BY <2>1 DEF DecisionsOn
  <2> QED
      BY <2>1, <2>2 DEF DecisionInv, Undecided, AtMostOne, DebitsFollow
<1> QED
    BY <1>1, <1>8, <1>9, FittingAll

LEMMA TxStep == TxInv /\ [TxNext]_txVars => TxInv'
<1> SUFFICES ASSUME TxInv, [TxNext]_txVars PROVE TxInv'
    OBVIOUS
<1>1. ASSUME UNCHANGED txVars PROVE TxInv'
  <2>1. tx' = tx /\ UNCHANGED vars
      BY <1>1 DEF txVars
  <2>2. CASE Txns = {}
    <3>1. TypeOK' /\ DecisionInv'
        BY <2>1 DEF TxInv, TypeInv, TypeOK, vars, DecisionInv, Undecided, AtMostOne, DebitsFollow,
                    DecisionsOn, Approvals, LegsOf
    <3>2. EachFits'
        BY <2>1, <2>2 DEF EachFits, TxInv, TypeInv, TxType
    <3> QED
        BY <3>1, <3>2, FittingAll, PTL
  <2>3. CASE Txns # {}
    <3>1. PICK t \in Txns : TRUE
        BY <2>3
    <3>2. PICK y : y = tx[t]
        OBVIOUS
    <3>3. Fits(t, y) /\ tx' = [tx EXCEPT ![t] = y]
        BY <2>1, <3>2, AllFit DEF TxInv, TypeInv
    <3> QED
        BY <2>1, <3>3, PrivateStep
  <2> QED
      BY <2>2, <2>3
<1>2. ASSUME NEW t \in Txns, Begin(t) PROVE TxInv'
    BY <1>2, BeginKeeps
<1>3. ASSUME NEW t \in Txns, Work(t) PROVE TxInv'
  <2>1. CASE LockRequest(t)
      BY <2>1, LockRequestKeeps
  <2>2. CASE LockSnapshot(t) \/ MissSnapshot(t) \/ InsertSnapshot(t)
      BY <2>2, SnapshotStatementsKeep
  <2>3. CASE CheckSubmit(t) \/ CheckApprove(t) \/ CheckDeny(t) \/ CheckCancel(t)
      BY <2>3, ChecksKeep
  <2>4. CASE Flush(t)
      BY <2>4, FlushKeeps
  <2>5. CASE CommitRequest(t)
      BY <2>5, CommitRequestKeeps
  <2>6. CASE JobInsert(t)
      BY <2>6, JobInsertKeeps
  <2>7. CASE JobUpsert(t)
      BY <2>7, JobUpsertKeeps
  <2>8. CASE CommitJob(t)
      BY <2>8, CommitJobKeeps
  <2> QED
      BY <1>3, <2>1, <2>2, <2>3, <2>4, <2>5, <2>6, <2>7, <2>8 DEF Work
<1>4. ASSUME NEW t \in Txns, Crash(t) \/ AbortDeadlocked(t) PROVE TxInv'
  <2>1. tx[t].pc # "idle" /\ End(t, "failed") /\ UNCHANGED vars
      BY <1>4 DEF Crash, AbortDeadlocked, Active
  <2> QED
      BY <2>1, EndStep
<1> QED
    BY <1>1, <1>2, <1>3, <1>4 DEF TxNext, AllServed

LEMMA TxAlways == TxSpec => []TxInv
<1>1. TxInit => TxInv
    BY TxInitially
<1>2. TxInv /\ [TxNext]_txVars => TxInv'
    BY TxStep
<1> QED
    BY <1>1, <1>2, PTL DEF TxSpec

(* The tables and the sessions keep their shapes, whatever the server      *)
(* interleaves and wherever a transaction dies.                            *)
THEOREM TransactionsAreTyped == TxSpec => []TxTypeOK
<1>1. TxInv => TxTypeOK
  <2>1. SUFFICES ASSUME TxInv PROVE TxTypeOK
      OBVIOUS
  <2>2. TypeOK /\ \A t \in Txns : Shaped(t, tx[t])
      BY <2>1 DEF TxInv, TypeInv
  <2> QED
      BY <2>2 DEF TxTypeOK, Shaped, TxType
<1> QED
    BY <1>1, TxAlways, PTL

(* A request is decided once: of reviewers who act on it at the same time, *)
(* or on one an employee is cancelling, at most one leaves a decision.     *)
THEOREM DecidedOnce == TxSpec => []OneDecision
<1>1. TxInv => OneDecision
  <2>1. SUFFICES ASSUME TxInv, NEW r \in Requests
                 PROVE  Cardinality(DecisionsOn(r)) <= 1
      BY DEF OneDecision
  <2>2. \A i, j \in DecisionsOn(r) : i = j
      BY <2>1 DEF TxInv, DecisionInv, AtMostOne
  <2>3. CASE DecisionsOn(r) = {}
      BY <2>3, FS_EmptySet
  <2>4. CASE DecisionsOn(r) # {}
    <3>1. PICK i : DecisionsOn(r) = {i}
        BY <2>2, <2>4
    <3> QED
        BY <3>1, FS_Singleton
  <2> QED
      BY <2>3, <2>4
<1> QED
    BY <1>1, TxAlways, PTL

(* A metered request has its debits from the moment its approval is in its *)
(* history, and none before: they are one commit.                          *)
THEOREM DebitsAndApprovalsAreOne == TxSpec => []DebitsComeWithApprovals
<1>1. TxInv => DebitsComeWithApprovals
  <2>1. SUFFICES ASSUME TxInv, NEW r \in Requests, requests[r] # None,
                        ~ Unlimited(requests[r].version)
                 PROVE  LegsOf(r, "REQUEST") =
                           IF \E i \in DOMAIN events[r] : events[r][i].to = "APPROVED"
                           THEN DebitLegs(r, requests[r])
                           ELSE {}
      BY DEF DebitsComeWithApprovals
  <2>2. Approvals(r) # {} <=> \E i \in DOMAIN events[r] : events[r][i].to = "APPROVED"
      BY DEF Approvals
  <2> QED
      BY <2>1, <2>2 DEF TxInv, DecisionInv, DebitsFollow
<1> QED
    BY <1>1, TxAlways, PTL

-----------------------------------------------------------------------------
(* What makes a commit the serial call. *)

(* Nobody commits a decision or a cancellation of a request while a        *)
(* transaction cancels it: a cancellation believes the status it read      *)
(* before it had any lock.                                                 *)
CancelsUnrivalled ==
    \A t, u \in Txns :
        t # u /\ tx[t].pc \in Handling /\ tx[t].call.op = "cancel"
        /\ tx[u].pc = "commit" /\ tx[u].call.op \in {"approve", "deny", "cancel"} =>
            tx[t].call.request # tx[u].call.request

(* Nobody commits a submission while a transaction submits one of the same *)
(* employee for one of its dates: the overlap is looked for before any     *)
(* lock.                                                                   *)
SubmissionsApart ==
    \A t, u \in Txns :
        t # u /\ tx[t].pc \in Handling /\ tx[t].call.op = "submit"
        /\ tx[u].pc = "commit" /\ tx[u].call.op = "submit"
        /\ tx[t].call.employee = tx[u].call.employee =>
            tx[t].call.end < tx[u].call.start \/ tx[u].call.end < tx[t].call.start

(* No job runs beside the requests: a job writes a sum it read before it   *)
(* locked the snapshot.                                                    *)
NoJobs == \A t \in Txns : \A c \in Calls[t] : c.op # "job"

(* A submission's row is one that its assignment, the versions and the     *)
(* holidays still give.                                                    *)
Placed(x) ==
    x.pc \in Handling /\ x.call.op = "submit" =>
        \E a \in Assignments : \E version \in versions[a.policy] :
            /\ Covers(a, x.call.employee, x.call.category, x.call.start, x.call.end)
            /\ IsEffectiveOn(version, versions[a.policy], x.call.start)
            /\ x.row = NewRequest(x.call.employee, a.policy, version, x.call.start, x.call.end,
                                  x.call.partial)
            /\ x.row.dates # {}

(* A job keeps the holds it found, whoever put them there. *)
HoldsKept(x) ==
    x.pc # "idle" /\ x.call.op = "job" =>
        \A a \in Accounts : x.mine[a] # None => x.mine[a].hold = HoldOf(snapshots[a])

(* A cancellation's row is the stored one. *)
Fresh(x) ==
    x.pc \in Handling /\ x.call.op = "cancel" =>
        /\ x.row = requests[x.call.request] /\ x.row.status \in Live
        /\ today < x.row.start

Knows(x) == Placed(x) /\ HoldsKept(x) /\ Fresh(x)

(* A submission still finds its dates free. *)
Free(x) ==
    x.pc \in Handling /\ x.call.op = "submit" =>
        FreeOfOverlap(x.call.employee, x.call.start, x.call.end)

(* A request has a history only once it was committed. *)
Origins == \A r \in Requests : requests[r] = None => events[r] = <<>>

SerialInv == TxInv /\ Origins /\ \A t \in Txns : Knows(tx[t])

LEMMA SerialParts ==
    ASSUME SerialInv
    PROVE  /\ TxInv /\ Origins /\ tx \in [Txns -> TxType]
           /\ \A u \in Txns : Knows(tx[u]) /\ Fits(u, tx[u])
BY AllFit DEF SerialInv, TxInv, TypeInv

EachKnows == \A u \in Txns : \A z \in TxType : z = tx[u] => Knows(z)

LEMMA SerialOf == TxInv /\ Origins /\ EachKnows => SerialInv
BY DEF SerialInv, EachKnows, TxInv, TypeInv

(* A transaction that ended knows nothing. *)
LEMMA EndedKnows ==
    ASSUME NEW t, NEW y, Shaped(t, y), y.pc \in Ended
    PROVE  Knows(y) /\ Knows(y)'
BY DEF Shaped, Ended, Knows, Placed, HoldsKept, Fresh, Handling

LEMMA QuietStep ==
    ASSUME SerialInv, TxInv', NEW t \in Txns, UNCHANGED vars,
           \A u \in Txns \ {t} : tx'[u] = tx[u],
           \A y \in TxType : y = tx'[t] => Knows(y)
    PROVE  SerialInv'
<1>1. Origins'
    BY SerialParts DEF vars, Origins
<1>2. ASSUME NEW u \in Txns, NEW z \in TxType, z = tx'[u]
      PROVE  Knows(z)'
  <2>1. Knows(z)
      BY <1>2, SerialParts
  <2> QED
      BY <2>1 DEF Knows, Placed, HoldsKept, Fresh, NewRequest, vars
<1>3. EachKnows'
    BY <1>2 DEF EachKnows, TxType
<1> QED
    BY <1>1, <1>3, SerialOf, PTL

(* A handler that goes on knows what it knew. *)
LEMMA GoingOn ==
    ASSUME NEW x, NEW y, Knows(x), y.call = x.call, y.call.op # "job",
           y.row = x.row \/ y.call.op \in {"approve", "deny"},
           x.pc \in Handling \/ y.call.op \in {"approve", "deny"}
    PROVE  Knows(y)
BY DEF Knows, Placed, HoldsKept, Fresh

LEMMA BeginKnows ==
    ASSUME SerialInv, TxInv', NEW t \in Txns, Begin(t)
    PROVE  SerialInv'
<1>1. PICK c \in Calls[t] : BeginSubmit(t, c) \/ BeginDecide(t, c) \/ BeginCancel(t, c) \/ BeginJob(t, c)
    BY DEF Begin
<1>2. /\ tx[t].pc = "idle" /\ UNCHANGED vars /\ tx \in [Txns -> TxType]
      /\ tx[t] \in TxType /\ \A a \in Accounts : tx[t].mine[a] = None
    BY <1>1, SerialParts, IdleHoldsNothing DEF BeginSubmit, BeginDecide, BeginCancel, BeginJob
<1>3. \A u \in Txns \ {t} : tx'[u] = tx[u]
    BY <1>1, <1>2 DEF BeginSubmit, BeginDecide, BeginCancel, BeginJob
<1>4. ASSUME NEW y \in TxType, y = tx'[t]
      PROVE  Knows(y)
  <2>1. CASE y.pc \in Ended
    <3>1. \A z \in TxType : z = tx'[t] => Shaped(t, z)
        BY DEF TxInv, TypeInv, Shaped, TxType
    <3> QED
        BY <1>4, <2>1, <3>1, EndedKnows
  <2>2. CASE BeginSubmit(t, c) /\ y.pc \notin Ended
    <3>1. c.op = "submit"
        BY <2>2 DEF BeginSubmit
    <3>2. PICK a \in Assignments : \E version \in versions[a.policy] :
             LET request == NewRequest(c.employee, a.policy, version, c.start, c.end, c.partial)
             IN  /\ Covers(a, c.employee, c.category, c.start, c.end)
                 /\ IsEffectiveOn(version, versions[a.policy], c.start)
                 /\ request.dates # {}
                 /\ tx' = [tx EXCEPT ![t] =
                     IF FreeOfOverlap(c.employee, c.start, c.end)
                     THEN [@ EXCEPT !.call = c, !.row = request, !.pc = "snapshot"]
                     ELSE [@ EXCEPT !.call = c, !.pc = "failed"]]
        BY <2>2 DEF BeginSubmit
    <3>3. PICK version \in versions[a.policy] :
             LET request == NewRequest(c.employee, a.policy, version, c.start, c.end, c.partial)
             IN  /\ Covers(a, c.employee, c.category, c.start, c.end)
                 /\ IsEffectiveOn(version, versions[a.policy], c.start)
                 /\ request.dates # {}
                 /\ tx' = [tx EXCEPT ![t] =
                     IF FreeOfOverlap(c.employee, c.start, c.end)
                     THEN [@ EXCEPT !.call = c, !.row = request, !.pc = "snapshot"]
                     ELSE [@ EXCEPT !.call = c, !.pc = "failed"]]
        BY <3>2
    <3>4. PICK request :
             request = NewRequest(c.employee, a.policy, version, c.start, c.end, c.partial)
        OBVIOUS
    <3>5. /\ Covers(a, c.employee, c.category, c.start, c.end)
          /\ IsEffectiveOn(version, versions[a.policy], c.start)
          /\ request.dates # {}
          /\ tx'[t] = IF FreeOfOverlap(c.employee, c.start, c.end)
                      THEN [tx[t] EXCEPT !.call = c, !.row = request, !.pc = "snapshot"]
                      ELSE [tx[t] EXCEPT !.call = c, !.pc = "failed"]
        BY <1>2, <3>3, <3>4
    <3>6. y = [tx[t] EXCEPT !.call = c, !.row = request, !.pc = "snapshot"]
      <4>1. CASE FreeOfOverlap(c.employee, c.start, c.end)
          BY <1>4, <3>5, <4>1
      <4>2. CASE ~ FreeOfOverlap(c.employee, c.start, c.end)
        <5>1. y = [tx[t] EXCEPT !.call = c, !.pc = "failed"]
            BY <1>4, <3>5, <4>2
        <5>2. y.pc = "failed"
            BY <1>2, <5>1 DEF TxType
        <5> QED
            BY <2>2, <5>2 DEF Ended
      <4> QED
          BY <4>1, <4>2
    <3>7. y.call = c /\ y.row = request
        BY <1>2, <3>6 DEF TxType
    <3> QED
        BY <3>1, <3>4, <3>5, <3>7 DEF Knows, Placed, HoldsKept, Fresh
  <2>3. CASE BeginDecide(t, c)
    <3>1. y.call = c /\ c.op \in {"approve", "deny"}
        BY <1>2, <1>4, <2>3 DEF BeginDecide, TxType
    <3> QED
        BY <3>1 DEF Knows, Placed, HoldsKept, Fresh
  <2>4. CASE BeginCancel(t, c) /\ y.pc \notin Ended
    <3>1. c.op = "cancel" /\ y.call = c
        BY <1>2, <1>4, <2>4 DEF BeginCancel, TxType
    <3>2. CASE requests[c.request].status \in Live /\ today < requests[c.request].start
      <4>1. y.row = requests[c.request]
          BY <1>2, <1>4, <2>4, <3>2 DEF BeginCancel, TxType
      <4> QED
          BY <3>1, <3>2, <4>1 DEF Knows, Placed, HoldsKept, Fresh
    <3>3. CASE ~ (requests[c.request].status \in Live /\ today < requests[c.request].start)
        BY <1>2, <1>4, <2>4, <3>3 DEF BeginCancel, TxType, Ended
    <3> QED
        BY <3>2, <3>3
  <2>5. CASE BeginJob(t, c)
    <3>1. c.op = "job" /\ y.call = c /\ y.mine = tx[t].mine
        BY <1>2, <1>4, <2>5 DEF BeginJob, TxType
    <3> QED
        BY <1>2, <3>1 DEF Knows, Placed, HoldsKept, Fresh
  <2> QED
      BY <1>1, <2>1, <2>2, <2>3, <2>4, <2>5
<1> QED
    BY <1>2, <1>3, <1>4, QuietStep

LEMMA EndKnows ==
    ASSUME SerialInv, TxInv', NEW t \in Txns, Active(t), End(t, "failed"), UNCHANGED vars
    PROVE  SerialInv'
<1>1. tx \in [Txns -> TxType]
    BY SerialParts
<1>2. /\ \A u \in Txns \ {t} : tx'[u] = tx[u]
      /\ tx'[t].pc = "failed"
    BY <1>1 DEF End, NoTx
<1>3. \A z \in TxType : z = tx'[t] => Shaped(t, z)
    BY DEF TxInv, TypeInv, Shaped, TxType
<1>4. \A y \in TxType : y = tx'[t] => Knows(y)
    BY <1>2, <1>3, EndedKnows DEF Ended
<1> QED
    BY <1>2, <1>4, QuietStep

(* A statement of a handler keeps the call, and the row once it is locked. *)
LEMMA StatementIs ==
    ASSUME NEW t \in Txns, tx[t] \in TxType, ~ End(t, "failed"),
           \/ LockRequest(t) \/ LockSnapshot(t) \/ MissSnapshot(t) \/ InsertSnapshot(t)
           \/ CheckSubmit(t) \/ CheckApprove(t) \/ CheckDeny(t) \/ CheckCancel(t) \/ Flush(t)
    PROVE  \E y : /\ tx' = [tx EXCEPT ![t] = y]
                  /\ y.call = tx[t].call /\ (y.row = tx[t].row \/ tx[t].pc = "request")
<1>1. CASE LockRequest(t)
  <2>1. PICK y : y = [tx[t] EXCEPT !.row = requests[Id(t)], !.locked = {Id(t)}, !.pc = "snapshot"]
      OBVIOUS
  <2>2. tx' = [tx EXCEPT ![t] = y] /\ tx[t].pc = "request"
      BY <1>1, <2>1 DEF LockRequest
  <2>3. y.call = tx[t].call
      BY <2>1 DEF TxType
  <2> QED
      BY <2>2, <2>3
<1>2. CASE LockSnapshot(t) \/ InsertSnapshot(t)
  <2>1. PICK row :
            tx' = [tx EXCEPT ![t] = [tx[t] EXCEPT !.mine[Account(t)] = row, !.pc = "check"]]
      BY <1>2 DEF LockSnapshot, InsertSnapshot
  <2>2. PICK y : y = [tx[t] EXCEPT !.mine[Account(t)] = row, !.pc = "check"]
      OBVIOUS
  <2>3. y.call = tx[t].call /\ y.row = tx[t].row
      BY <2>2 DEF TxType
  <2> QED
      BY <2>1, <2>2, <2>3
<1>3. CASE MissSnapshot(t)
  <2>1. \E sum : tx' = [tx EXCEPT ![t] = [tx[t] EXCEPT !.sum = sum, !.pc = "insert"]]
      BY <1>3 DEF MissSnapshot
  <2> QED
      BY <2>1 DEF TxType
<1>4. ASSUME NEW minutes, NEW label, Hold(t, minutes, label)
      PROVE  \E y : /\ tx' = [tx EXCEPT ![t] = y]
                    /\ y.call = tx[t].call /\ y.row = tx[t].row
  <2>1. \E row : tx' = [tx EXCEPT ![t] = [tx[t] EXCEPT !.mine[Account(t)] = row, !.pc = label]]
      BY <1>4 DEF Hold
  <2> QED
      BY <2>1 DEF TxType
<1>5. ASSUME NEW legs, NEW minutes, NEW label, PostLegs(t, legs, minutes, label)
      PROVE  \E y : /\ tx' = [tx EXCEPT ![t] = y]
                    /\ y.call = tx[t].call /\ y.row = tx[t].row
  <2>1. \E row, posted :
            tx' = [tx EXCEPT ![t] = [tx[t] EXCEPT !.entries = posted, !.pc = label,
                                                  !.mine[Account(t)] = row]]
      BY <1>5 DEF PostLegs
  <2> QED
      BY <2>1 DEF TxType
<1>6. CASE CheckSubmit(t)
    BY <1>4, <1>6 DEF CheckSubmit
<1>7. CASE CheckApprove(t)
    BY <1>4, <1>5, <1>7 DEF CheckApprove
<1>8. CASE CheckDeny(t)
    BY <1>4, <1>8 DEF CheckDeny
<1>9. CASE CheckCancel(t)
    BY <1>4, <1>5, <1>9 DEF CheckCancel
<1>10. CASE Flush(t)
  <2>1. tx' = [tx EXCEPT ![t] = [tx[t] EXCEPT !.locked = {Id(t)}, !.pc = "commit"]]
      BY <1>10 DEF Flush
  <2>2. PICK y : y = [tx[t] EXCEPT !.locked = {Id(t)}, !.pc = "commit"]
      OBVIOUS
  <2>3. y.call = tx[t].call /\ y.row = tx[t].row
      BY <2>2 DEF TxType
  <2> QED
      BY <2>1, <2>2, <2>3
<1> QED
    BY <1>1, <1>2, <1>3, <1>6, <1>7, <1>8, <1>9, <1>10

LEMMA HandlersKnow ==
    ASSUME SerialInv, TxInv', NEW t \in Txns,
           \/ LockRequest(t) \/ LockSnapshot(t) \/ MissSnapshot(t) \/ InsertSnapshot(t)
           \/ CheckSubmit(t) \/ CheckApprove(t) \/ CheckDeny(t) \/ CheckCancel(t) \/ Flush(t)
    PROVE  SerialInv'
<1>1. tx[t].pc \in {"request", "snapshot", "insert", "check", "flush"} /\ UNCHANGED vars
    BY DEF LockRequest, LockSnapshot, MissSnapshot, InsertSnapshot, CheckSubmit, CheckApprove,
           CheckDeny, CheckCancel, Flush
<1>2. tx \in [Txns -> TxType] /\ Knows(tx[t]) /\ Shaped(t, tx[t]) /\ Active(t) /\ tx[t] \in TxType
    BY <1>1, SerialParts DEF Fits, Active
<1>3. tx[t].call.op # "job" /\ (tx[t].pc = "request" => tx[t].call.op \in {"approve", "deny"})
    BY <1>1, <1>2 DEF Shaped
<1>4. CASE End(t, "failed")
    BY <1>1, <1>2, <1>4, EndKnows
<1>5. CASE ~ End(t, "failed")
  <2>1. PICK y : /\ tx' = [tx EXCEPT ![t] = y]
                 /\ y.call = tx[t].call /\ (y.row = tx[t].row \/ tx[t].pc = "request")
      BY <1>2, <1>5, StatementIs
  <2>2. tx'[t] = y /\ \A u \in Txns \ {t} : tx'[u] = tx[u]
      BY <1>2, <2>1
  <2>3. Knows(y)
      BY <1>1, <1>2, <1>3, <2>1, GoingOn DEF Handling
  <2>4. \A z \in TxType : z = tx'[t] => Knows(z)
      BY <2>2, <2>3
  <2> QED
      BY <1>1, <2>2, <2>4, QuietStep
<1> QED
    BY <1>4, <1>5

LEMMA JobsKnow ==
    ASSUME SerialInv, TxInv', NEW t \in Txns, JobInsert(t) \/ JobUpsert(t)
    PROVE  SerialInv'
<1>1. tx[t].pc \in {"job", "upsert"} /\ UNCHANGED vars
    BY DEF JobInsert, JobUpsert
<1>2. /\ tx \in [Txns -> TxType] /\ Knows(tx[t]) /\ tx[t] \in TxType /\ tx[t].call.op = "job"
      /\ PostOf(t).account \in Accounts
    BY <1>1, SerialParts, AtPost
<1>3. PICK y : /\ tx' = [tx EXCEPT ![t] = y] /\ y.call = tx[t].call
               /\ \A a \in Accounts :
                     y.mine[a] # tx[t].mine[a] => y.mine[a].hold = HoldOf(snapshots[a])
  <2>1. CASE JobInsert(t)
    <3>1. \/ \E next, pc : tx' = [tx EXCEPT ![t] = [tx[t] EXCEPT !.next = next, !.pc = pc]]
          \/ \E entries, sum :
                tx' = [tx EXCEPT ![t] = [tx[t] EXCEPT !.entries = entries, !.sum = sum,
                                                      !.pc = "upsert"]]
        BY <2>1 DEF JobInsert
    <3> QED
        BY <1>2, <3>1 DEF TxType
  <2>2. CASE JobUpsert(t)
    <3>1. PICK a \in Accounts : a = PostOf(t).account
        BY <1>2
    <3>2. PICK held : held = IF tx[t].mine[a] # None THEN tx[t].mine[a].hold
                             ELSE IF snapshots[a] # None THEN snapshots[a].hold ELSE 0
        OBVIOUS
    <3>3. held = HoldOf(snapshots[a])
        BY <1>1, <1>2, <3>2 DEF Knows, HoldsKept, HoldOf
    <3>4. PICK next, pc : tx' = [tx EXCEPT ![t] =
              [tx[t] EXCEPT !.mine[a] = [balance |-> tx[t].sum, hold |-> held],
                            !.next = next, !.pc = pc]]
        BY <2>2, <3>1, <3>2 DEF JobUpsert
    <3>5. PICK row : row = [balance |-> tx[t].sum, hold |-> held]
        OBVIOUS
    <3>9. row.hold = held
        BY <3>5
    <3>6. PICK y : y = [tx[t] EXCEPT !.mine[a] = row, !.next = next, !.pc = pc]
        OBVIOUS
    <3>7. /\ y.call = tx[t].call /\ y.mine[a] = row
          /\ \A b \in Accounts : b # a => y.mine[b] = tx[t].mine[b]
        BY <1>2, <3>6 DEF TxType
    <3>8. tx' = [tx EXCEPT ![t] = y]
        BY <3>4, <3>5, <3>6
    <3>10. \A b \in Accounts :
              y.mine[b] # tx[t].mine[b] => y.mine[b].hold = HoldOf(snapshots[b])
        BY <3>3, <3>7, <3>9
    <3> QED
        BY <3>7, <3>8, <3>10
  <2> QED
      BY <2>1, <2>2
<1>4. tx'[t] = y /\ \A u \in Txns \ {t} : tx'[u] = tx[u]
    BY <1>2, <1>3
<1>5. Knows(y)
    BY <1>1, <1>2, <1>3 DEF Knows, Placed, HoldsKept, Fresh
<1>6. \A z \in TxType : z = tx'[t] => Knows(z)
    BY <1>4, <1>5
<1> QED
    BY <1>1, <1>4, <1>6, QuietStep

(* A commit leaves what the others know. *)
LEMMA OthersKnow ==
    ASSUME SerialInv, CancelsUnrivalled, NEW t \in Txns, CommitRequest(t) \/ CommitJob(t), NEW u \in Txns \ {t},
           NEW z \in TxType, z = tx[u]
    PROVE  Knows(z)'
<1>1. Knows(z) /\ Fits(u, z) /\ Fits(t, tx[t]) /\ TxInv
    BY SerialParts
<1>2. UNCHANGED <<today, versions, holidays>> /\ tx[t].pc = "commit"
    BY DEF CommitRequest, CommitJob
<1>3. Placed(z)'
    BY <1>1, <1>2 DEF Knows, Placed, NewRequest
<1>4. HoldsKept(z)'
  <2>1. SUFFICES ASSUME z.pc # "idle", z.call.op = "job", NEW a \in Accounts, z.mine[a] # None
                 PROVE  z.mine[a].hold = HoldOf(snapshots'[a])
      BY DEF HoldsKept, HoldOf
  <2>2. z.mine[a].hold = HoldOf(snapshots[a])
      BY <1>1, <2>1 DEF Knows, HoldsKept
  <2>3. tx[t].mine[a] = None
      BY <1>1, <2>1 DEF Fits, Alone
  <2>4. CASE CommitRequest(t)
    <3>1. tx[t].call.op # "job"
        BY <2>4 DEF CommitRequest, Op
    <3>2. Account(t) # a
        BY <1>1, <1>2, <2>3, <3>1, AtCommit
    <3>3. snapshots'[a] = snapshots[a]
        BY <1>1, <2>4, <3>2 DEF CommitRequest, TxInv, TypeInv, TypeOK
    <3> QED
        BY <2>2, <3>3
  <2>5. CASE CommitJob(t)
    <3>1. snapshots'[a] = snapshots[a]
        BY <2>3, <2>5 DEF CommitJob
    <3> QED
        BY <2>2, <3>1
  <2> QED
      BY <2>4, <2>5
<1>5. Fresh(z)'
  <2>1. SUFFICES ASSUME z.pc \in Handling, z.call.op = "cancel"
                 PROVE  Fresh(z)'
      BY DEF Fresh
  <2>2. Fresh(z)
      BY <1>1, <2>1 DEF Knows
  <2>3. z.pc # "idle"
      BY <2>1 DEF Handling
  <2>4. /\ z.call \in Calls[u] /\ z.call.request \in Requests
        /\ requests[z.call.request] \in RequestType
      BY <1>1, <2>1, <2>3, Serving DEF Id
  <2>5. requests'[z.call.request] = requests[z.call.request]
    <3>1. CASE CommitJob(t)
        BY <3>1 DEF CommitJob
    <3>2. CASE CommitRequest(t)
      <4>1. /\ tx[t].call.op \in {"submit", "approve", "deny", "cancel"}
            /\ Id(t) = tx[t].call.request /\ tx[t].call \in Calls[t]
          BY <1>1, <1>2, <3>2, RowsAfter, AtCommit, Serving
      <4>2. CASE tx[t].call.op = "submit"
        <5>1. requests[Id(t)] = None
            BY <1>1, <3>2, <4>2, RowsAfter
        <5>2. Id(t) # z.call.request
            BY <2>4, <5>1, ParameterAssumption
        <5> QED
            BY <1>1, <2>4, <3>2, <5>2, RowsAfter
      <4>3. CASE tx[t].call.op # "submit"
        <5>1. Id(t) # z.call.request
            BY <1>2, <2>1, <4>1, <4>3 DEF CancelsUnrivalled
        <5> QED
            BY <1>1, <2>4, <3>2, <5>1, RowsAfter
      <4> QED
          BY <4>2, <4>3
    <3> QED
        BY <3>1, <3>2
  <2> QED
      BY <1>2, <2>2, <2>5 DEF Fresh
<1> QED
    BY <1>3, <1>4, <1>5 DEF Knows

LEMMA CommitKnows ==
    ASSUME SerialInv, TxInv', CancelsUnrivalled, NEW t \in Txns, CommitRequest(t) \/ CommitJob(t)
    PROVE  SerialInv'
<1>1. /\ tx \in [Txns -> TxType] /\ TxInv /\ Origins
      /\ tx[t].pc = "commit" /\ End(t, "committed")
    BY SerialParts DEF CommitRequest, CommitJob
<1>2. /\ \A u \in Txns \ {t} : tx'[u] = tx[u]
      /\ tx'[t].pc = "committed" /\ tx'[t].call = tx[t].call
    BY <1>1 DEF End, NoTx
<1>3. EachKnows'
  <2>1. ASSUME NEW u \in Txns, NEW z \in TxType, z = tx'[u]
        PROVE  Knows(z)'
    <3>1. CASE u = t
      <4>1. \A y \in TxType : y = tx'[t] => Shaped(t, y)
          BY DEF TxInv, TypeInv, Shaped, TxType
      <4> QED
          BY <1>2, <2>1, <3>1, <4>1, EndedKnows DEF Ended
    <3>2. CASE u # t
        BY <1>2, <2>1, <3>2, OthersKnow
    <3> QED
        BY <3>1, <3>2
  <2> QED
      BY <2>1 DEF EachKnows, TxType
<1>4. Origins'
  <2>1. CASE CommitJob(t)
      BY <1>1, <2>1 DEF CommitJob, Origins
  <2>2. CASE CommitRequest(t)
    <3>1. /\ \A q \in Requests \ {Id(t)} : requests'[q] = requests[q] /\ events'[q] = events[q]
          /\ requests'[Id(t)] # None
        BY <1>1, <2>2, RowsAfter, HistoryAfter
    <3> QED
        BY <1>1, <3>1 DEF Origins
  <2> QED
      BY <2>1, <2>2
<1> QED
    BY <1>3, <1>4, SerialOf, PTL

LEMMA SerialInitially == TxInit => SerialInv
<1> SUFFICES ASSUME TxInit PROVE SerialInv
    OBVIOUS
<1>1. TxInv /\ Init /\ tx = [t \in Txns |-> NoTx]
    BY TxInitially DEF TxInit
<1>2. Origins
    BY <1>1 DEF Init, Origins
<1>3. \A t \in Txns : tx[t].pc = "idle"
    BY <1>1 DEF NoTx
<1>4. \A t \in Txns : Knows(tx[t])
    BY <1>3 DEF Knows, Placed, HoldsKept, Fresh, Handling
<1> QED
    BY <1>1, <1>2, <1>4 DEF SerialInv

LEMMA SerialStep == SerialInv /\ CancelsUnrivalled /\ [TxNext]_txVars => SerialInv'
<1> SUFFICES ASSUME SerialInv, CancelsUnrivalled, [TxNext]_txVars PROVE SerialInv'
    OBVIOUS
<1>1. TxInv'
    BY SerialParts, TxStep
<1>2. ASSUME UNCHANGED txVars PROVE SerialInv'
  <2>1. tx' = tx /\ UNCHANGED vars
      BY <1>2 DEF txVars
  <2>2. Origins'
      BY <2>1, SerialParts DEF Origins, vars
  <2>3. EachKnows'
    <3>1. ASSUME NEW u \in Txns, NEW z \in TxType, z = tx'[u]
          PROVE  Knows(z)'
      <4>1. Knows(z)
          BY <2>1, <3>1, SerialParts
      <4> QED
          BY <2>1, <4>1 DEF Knows, Placed, HoldsKept, Fresh, NewRequest, vars
    <3> QED
        BY <3>1 DEF EachKnows, TxType
  <2> QED
      BY <1>1, <2>2, <2>3, SerialOf, PTL
<1>3. ASSUME NEW t \in Txns, Begin(t) PROVE SerialInv'
    BY <1>1, <1>3, BeginKnows
<1>4. ASSUME NEW t \in Txns, Work(t) PROVE SerialInv'
  <2>1. CASE \/ LockRequest(t) \/ LockSnapshot(t) \/ MissSnapshot(t) \/ InsertSnapshot(t)
             \/ CheckSubmit(t) \/ CheckApprove(t) \/ CheckDeny(t) \/ CheckCancel(t) \/ Flush(t)
      BY <1>1, <2>1, HandlersKnow
  <2>2. CASE JobInsert(t) \/ JobUpsert(t)
      BY <1>1, <2>2, JobsKnow
  <2>3. CASE CommitRequest(t) \/ CommitJob(t)
      BY <1>1, <2>3, CommitKnows
  <2> QED
      BY <1>4, <2>1, <2>2, <2>3 DEF Work
<1>5. ASSUME NEW t \in Txns, Crash(t) \/ AbortDeadlocked(t) PROVE SerialInv'
    BY <1>1, <1>5, EndKnows DEF Crash, AbortDeadlocked
<1> QED
    BY <1>2, <1>3, <1>4, <1>5 DEF TxNext, AllServed

LEMMA SerialAlways == TxSpec /\ []CancelsUnrivalled => []SerialInv
<1>1. TxInit => SerialInv
    BY SerialInitially
<1>2. SerialInv /\ CancelsUnrivalled /\ [TxNext]_txVars => SerialInv'
    BY SerialStep
<1> QED
    BY <1>1, <1>2, PTL DEF TxSpec

-----------------------------------------------------------------------------
(* Commits as serial calls. *)

LEMMA ChargedIsRefreshed ==
    ASSUME TypeOK, NEW a \in Accounts, NEW legs, NEW minutes \in Int
    PROVE  /\ Charged(a, legs, minutes) =
                 [Refreshed(Snapshot(a), a, legs) EXCEPT !.hold = @ + minutes]
           /\ ledger \cup (Post(ledger, legs) \ ledger) = Post(ledger, legs)
           /\ Charged(a, legs, 0) = Refreshed(Snapshot(a), a, legs)
<1>1. PICK row \in SnapshotType : row = Snapshot(a)
    BY SnapshotRowType
<1>2. ledger \cup (Post(ledger, legs) \ ledger) = Post(ledger, legs)
    BY DEF Post
<1>3. Post(ledger, legs) \ ledger = {} <=> Post(ledger, legs) = ledger
    BY <1>2
<1>4. PICK balance : balance = Balance(Post(ledger, legs), a)
    OBVIOUS
<1>5. ASSUME NEW m \in Int
      PROVE  Charged(a, legs, m) =
                IF Post(ledger, legs) = ledger THEN [row EXCEPT !.hold = @ + m]
                ELSE [[row EXCEPT !.hold = @ + m] EXCEPT !.balance = balance]
    BY <1>1, <1>2, <1>3, <1>4 DEF Charged, Moved
<1>6. Refreshed(Snapshot(a), a, legs) =
          IF Post(ledger, legs) = ledger THEN row ELSE [row EXCEPT !.balance = balance]
    BY <1>1, <1>4 DEF Refreshed
<1>7. \A m \in Int : [[row EXCEPT !.hold = @ + m] EXCEPT !.balance = balance] =
                         [[row EXCEPT !.balance = balance] EXCEPT !.hold = @ + m]
    BY DEF SnapshotType
<1>8. [row EXCEPT !.hold = @ + 0] = row
    BY DEF SnapshotType
<1>9. [[row EXCEPT !.balance = balance] EXCEPT !.hold = @ + 0] = [row EXCEPT !.balance = balance]
  <2>1. PICK B : B = {balance}
      OBVIOUS
  <2>2. PICK inner : inner = [row EXCEPT !.balance = balance]
      OBVIOUS
  <2>3. inner \in [balance : B, hold : Int]
      BY <2>1, <2>2 DEF SnapshotType
  <2>4. [inner EXCEPT !.hold = @ + 0] = inner
      BY <2>3
  <2> QED
      BY <2>2, <2>4
<1>10. CASE Post(ledger, legs) = ledger
  <2>1. Charged(a, legs, minutes) = [row EXCEPT !.hold = @ + minutes]
      BY <1>5, <1>10
  <2>2. Charged(a, legs, 0) = [row EXCEPT !.hold = @ + 0]
      BY <1>5, <1>10
  <2>3. Refreshed(Snapshot(a), a, legs) = row
      BY <1>6, <1>10
  <2> QED
      BY <1>2, <1>8, <2>1, <2>2, <2>3
<1>11. CASE Post(ledger, legs) # ledger
  <2>1. Charged(a, legs, minutes) = [[row EXCEPT !.hold = @ + minutes] EXCEPT !.balance = balance]
      BY <1>5, <1>11
  <2>2. Charged(a, legs, 0) = [[row EXCEPT !.hold = @ + 0] EXCEPT !.balance = balance]
    <3>1. PICK m \in Int : m = 0
        OBVIOUS
    <3>2. Charged(a, legs, m) = [[row EXCEPT !.hold = @ + m] EXCEPT !.balance = balance]
        BY <1>5, <1>11
    <3> QED
        BY <3>1, <3>2
  <2>3. Refreshed(Snapshot(a), a, legs) = [row EXCEPT !.balance = balance]
      BY <1>6, <1>11
  <2>4. Charged(a, legs, minutes) = [Refreshed(Snapshot(a), a, legs) EXCEPT !.hold = @ + minutes]
      BY <1>7, <2>1, <2>3
  <2>5. Charged(a, legs, 0) = Refreshed(Snapshot(a), a, legs)
      BY <1>8, <2>2, <2>3
  <2> QED
      BY <1>2, <2>4, <2>5
<1> QED
    BY <1>10, <1>11

(* What a handler's commit makes of request r on account a. *)
LEMMA CommitIs ==
    ASSUME TxInv, NEW t \in Txns, CommitRequest(t)
    PROVE  /\ UNCHANGED <<today, versions, holidays>>
           /\ ledger' = ledger \cup tx[t].entries
           /\ snapshots' = [snapshots EXCEPT ![tx[t].row.account] = tx[t].mine[tx[t].row.account]]
           /\ Writes(tx[t]) /\ tx[t].row \in RequestType /\ tx[t].row.account \in Accounts
           /\ Snapshot(tx[t].row.account) \in SnapshotType
           /\ tx[t].call.op \in {"submit", "approve", "deny", "cancel"} /\ Id(t) \in Requests
           /\ Id(t) = tx[t].call.request /\ Op(t) = tx[t].call.op /\ TypeOK
           /\ tx[t].pc = "commit"
<1>1. tx[t].pc = "commit" /\ tx[t].call.op # "job" /\ TypeOK
    BY RowsAfter
<1>2. /\ tx[t].row \in RequestType /\ Writes(tx[t]) /\ Account(t) \in Accounts
      /\ Account(t) = tx[t].row.account
      /\ tx[t].call.op \in {"submit", "approve", "deny", "cancel"} /\ Id(t) \in Requests
      /\ Id(t) = tx[t].call.request /\ Op(t) = tx[t].call.op
    BY <1>1, AtCommit
<1>3. Snapshot(tx[t].row.account) \in SnapshotType
    BY <1>1, <1>2, SnapshotRowType
<1> QED
    BY <1>1, <1>2, <1>3 DEF CommitRequest

(* The status and the history a decision or a cancellation leaves.         *)
LEMMA CommitMoves ==
    ASSUME TxInv, NEW t \in Txns, CommitRequest(t), NEW r \in Requests, r = Id(t),
           tx[t].call.op # "submit", tx[t].row = requests[r]
    PROVE  Move(r, Target(t))
<1>1. /\ requests' = [requests EXCEPT ![r] = [requests[r] EXCEPT !.status = Target(t)]]
      /\ events' = [events EXCEPT ![r] = Append(events[r], EventOf(t))]
    BY CommitIs DEF CommitRequest, RowAfter
<1>2. EventOf(t) = [from |-> requests[r].status, to |-> Target(t)]
    BY CommitIs DEF EventOf
<1> QED
    BY <1>1, <1>2 DEF Move

LEMMA DecisionIsSerial ==
    ASSUME TxInv, NEW t \in Txns, CommitRequest(t)
    PROVE  /\ Op(t) = "approve" => Approve(Id(t))
           /\ Op(t) = "deny" => Deny(Id(t))
<1>1. PICK r \in Requests : r = Id(t)
    BY CommitIs
<1>2. PICK x : x = tx[t]
    OBVIOUS
<1>3. /\ UNCHANGED <<today, versions, holidays>>
      /\ ledger' = ledger \cup x.entries
      /\ snapshots' = [snapshots EXCEPT ![x.row.account] = x.mine[x.row.account]]
      /\ Writes(x) /\ x.row \in RequestType /\ x.row.account \in Accounts
      /\ Snapshot(x.row.account) \in SnapshotType
      /\ Op(t) = x.call.op /\ TypeOK /\ x.call.request = r /\ x.pc = "commit"
    BY <1>1, <1>2, CommitIs
<1>4. Fits(t, x)
    BY <1>2, AllFit
<1>5. PICK total \in Nat : total = Total(x.row)
    BY <1>3, CostType
<1>6. ASSUME Op(t) \in {"approve", "deny"}
      PROVE  /\ x.row = requests[r] /\ IsPending(r) /\ Move(r, Target(t))
  <2>1. x.row = requests[r] /\ x.row.status = "PENDING"
      BY <1>3, <1>4, <1>6 DEF Fits, Agrees, Ready, Handling
  <2>2. requests[r] # None
      BY <1>3, <2>1, ParameterAssumption
  <2> QED
      BY <1>1, <1>2, <1>3, <1>6, <2>1, <2>2, CommitMoves DEF IsPending
<1>7. CASE Op(t) = "deny"
  <2>1. x.entries = {} /\ x.mine[x.row.account] = Moved(x.row.account, -HeldCost(x.row))
      BY <1>3, <1>7 DEF Writes, Holds
  <2>2. x.mine[x.row.account] =
           IF Unlimited(x.row.version) THEN Snapshot(x.row.account)
           ELSE [Snapshot(x.row.account) EXCEPT !.hold = @ - Total(x.row)]
      BY <1>3, <1>5, <2>1 DEF Moved, HeldCost, SnapshotType
  <2>3. Target(t) = "DENIED"
      BY <1>7 DEF Target
  <2>4. Deny(r)
      BY <1>3, <1>6, <1>7, <2>1, <2>2, <2>3 DEF Deny
  <2> QED
      BY <1>1, <1>7, <2>4
<1>8. CASE Op(t) = "approve"
  <2>1. Target(t) = "APPROVED"
      BY <1>8 DEF Target
  <2>2. StillCovered(Snapshot(x.row.account), x.row)
      BY <1>3, <1>8 DEF Writes
  <2>3. CASE Unlimited(x.row.version)
    <3>1. x.entries = {} /\ x.mine[x.row.account] = Moved(x.row.account, 0)
        BY <1>3, <1>8, <2>3 DEF Writes, Holds
    <3>2. x.mine[x.row.account] = Snapshot(x.row.account)
        BY <1>3, <3>1 DEF Moved, SnapshotType
    <3>3. Approve(r)
        BY <1>3, <1>6, <1>8, <2>1, <2>2, <2>3, <3>1, <3>2 DEF Approve
    <3> QED
        BY <1>1, <1>8, <3>3
  <2>4. CASE ~ Unlimited(x.row.version)
    <3>1. PICK legs : legs = DebitLegs(r, x.row)
        OBVIOUS
    <3>2. PICK back \in Int : back = -total
        OBVIOUS
    <3>3. x.entries = Post(ledger, legs) \ ledger
          /\ x.mine[x.row.account] = Charged(x.row.account, legs, back)
        BY <1>3, <1>5, <1>8, <2>4, <3>1, <3>2 DEF Writes, Posts
    <3>4. PICK a \in Accounts : a = x.row.account
        BY <1>3
    <3>5. /\ Charged(a, legs, back) = [Refreshed(Snapshot(a), a, legs) EXCEPT !.hold = @ + back]
          /\ ledger \cup (Post(ledger, legs) \ ledger) = Post(ledger, legs)
        BY <1>3, ChargedIsRefreshed
    <3>6. PICK fresh \in SnapshotType : fresh = Refreshed(Snapshot(a), a, legs)
      <4>1. legs \in SUBSET EntryType /\ IsFiniteSet(legs)
          BY <1>3, <3>1, LegsType DEF DebitLegs
      <4>2. PICK row \in SnapshotType : row = Snapshot(a)
          BY <1>3, <3>4
      <4> QED
          BY <1>3, <4>1, <4>2, RefreshedType
    <3>7. [fresh EXCEPT !.hold = @ + back] = [fresh EXCEPT !.hold = @ - total]
        BY <3>2 DEF SnapshotType
    <3>8. ledger' = Post(ledger, legs)
        BY <1>3, <3>3, <3>5
    <3>9. snapshots' = [snapshots EXCEPT ![a] =
              [Refreshed(Snapshot(a), a, legs) EXCEPT !.hold = @ - Total(x.row)]]
        BY <1>3, <1>5, <3>3, <3>4, <3>5, <3>6, <3>7
    <3>10. Approve(r)
        BY <1>3, <1>6, <1>8, <2>1, <2>2, <2>4, <3>1, <3>4, <3>8, <3>9 DEF Approve
    <3> QED
        BY <1>1, <1>8, <3>10
  <2> QED
      BY <2>3, <2>4
<1> QED
    BY <1>7, <1>8

LEMMA CancelIsSerial ==
    ASSUME SerialInv, NEW t \in Txns, CommitRequest(t), Op(t) = "cancel"
    PROVE  Cancel(Id(t))
<1>1. PICK r \in Requests : r = Id(t)
    BY SerialParts, CommitIs
<1>2. PICK x : x = tx[t]
    OBVIOUS
<1>3. /\ UNCHANGED <<today, versions, holidays>> /\ TypeOK
      /\ ledger' = ledger \cup x.entries
      /\ snapshots' = [snapshots EXCEPT ![x.row.account] = x.mine[x.row.account]]
      /\ Writes(x) /\ x.row \in RequestType /\ x.row.account \in Accounts
      /\ Snapshot(x.row.account) \in SnapshotType
      /\ Op(t) = x.call.op /\ x.call.request = r /\ x.pc = "commit"
    BY <1>1, <1>2, SerialParts, CommitIs
<1>4. x.row = requests[r] /\ x.row.status \in Live /\ today < x.row.start
    BY <1>2, <1>3, SerialParts DEF Knows, Fresh, Handling
<1>5. requests[r] # None
    BY <1>3, <1>4, ParameterAssumption
<1>6. Move(r, "CANCELLED")
  <2>1. Target(t) = "CANCELLED"
      BY DEF Target
  <2> QED
      BY <1>1, <1>2, <1>3, <1>4, <2>1, SerialParts, CommitMoves
<1>7. CASE x.row.status = "PENDING"
  <2>1. PICK total \in Nat : total = Total(x.row)
      BY <1>3, CostType
  <2>2. x.entries = {} /\ x.mine[x.row.account] = Moved(x.row.account, -total)
      BY <1>3, <1>7, <2>1 DEF Writes, Holds
  <2>3. x.mine[x.row.account] = [Snapshot(x.row.account) EXCEPT !.hold = @ - Total(x.row)]
      BY <1>3, <2>1, <2>2 DEF Moved, SnapshotType
  <2>4. Cancel(r)
      BY <1>3, <1>4, <1>5, <1>6, <1>7, <2>2, <2>3 DEF Cancel
  <2> QED
      BY <1>1, <2>4
<1>8. CASE x.row.status # "PENDING"
  <2>1. PICK legs : legs = ReversalLegs(r, x.row)
      OBVIOUS
  <2>2. PICK a \in Accounts : a = x.row.account
      BY <1>3
  <2>3. x.entries = Post(ledger, legs) \ ledger /\ x.mine[a] = Charged(a, legs, 0)
      BY <1>3, <1>8, <2>1, <2>2 DEF Writes, Posts
  <2>4. /\ Charged(a, legs, 0) = Refreshed(Snapshot(a), a, legs)
        /\ ledger \cup (Post(ledger, legs) \ ledger) = Post(ledger, legs)
    <3>1. PICK m \in Int : m = 0
        OBVIOUS
    <3> QED
        BY <1>3, <3>1, ChargedIsRefreshed
  <2>5. /\ ledger' = Post(ledger, legs)
        /\ snapshots' = [snapshots EXCEPT ![a] = Refreshed(Snapshot(a), a, legs)]
      BY <1>3, <2>2, <2>3, <2>4
  <2>6. Cancel(r)
      BY <1>3, <1>4, <1>5, <1>6, <1>8, <2>1, <2>2, <2>5 DEF Cancel
  <2> QED
      BY <1>1, <2>6
<1> QED
    BY <1>7, <1>8

LEMMA SubmitIsSerial ==
    ASSUME SerialInv, NEW t \in Txns, CommitRequest(t), Op(t) = "submit", Free(tx[t])
    PROVE  \E r \in Requests, e \in Employees, c \in Categories, start, end \in Dates,
              partial \in Partials : Submit(r, e, c, start, end, partial)
<1>1. PICK x : x = tx[t]
    OBVIOUS
<1>2. /\ UNCHANGED <<today, versions, holidays>> /\ TypeOK
      /\ ledger' = ledger \cup x.entries
      /\ snapshots' = [snapshots EXCEPT ![x.row.account] = x.mine[x.row.account]]
      /\ Writes(x) /\ x.row \in RequestType /\ x.row.account \in Accounts
      /\ Snapshot(x.row.account) \in SnapshotType
      /\ x.call.op = "submit" /\ x.pc = "commit" /\ Id(t) \in Requests /\ Id(t) = x.call.request
    BY <1>1, SerialParts, CommitIs
<1>3. x.call \in Submissions
    BY <1>1, <1>2, SerialParts, Serving, CallKinds
<1>4. PICK c : c = x.call
    OBVIOUS
<1>5. /\ c.request \in Requests /\ c.employee \in Employees /\ c.category \in Categories
      /\ c.start \in Dates /\ c.end \in Dates /\ c.partial \in Partials
      /\ c.start <= c.end /\ ValidPartial(c.start, c.end, c.partial)
    BY <1>3, <1>4 DEF Submissions
<1>6. PICK r \in Requests : r = c.request
    BY <1>5
<1>7. /\ requests[r] = None /\ requests' = [requests EXCEPT ![r] = x.row]
      /\ events' = [events EXCEPT ![r] = Append(events[r], [from |-> None, to |-> "PENDING"])]
    BY <1>1, <1>2, <1>4, <1>6, SerialParts, RowsAfter DEF CommitRequest, RowAfter, EventOf
<1>8. events' = [events EXCEPT ![r] = <<[from |-> None, to |-> "PENDING"]>>]
  <2>1. events[r] = <<>>
      BY <1>7, SerialParts DEF Origins
  <2> QED
      BY <1>7, <2>1
<1>9. x.entries = {} /\ Affordable(Snapshot(x.row.account), x.row)
      /\ x.mine[x.row.account] = Moved(x.row.account, HeldCost(x.row))
    BY <1>2 DEF Writes, Holds
<1>10. x.mine[x.row.account] =
          IF Unlimited(x.row.version) THEN Snapshot(x.row.account)
          ELSE [Snapshot(x.row.account) EXCEPT !.hold = @ + Total(x.row)]
    BY <1>2, <1>9 DEF Moved, HeldCost, SnapshotType
<1>11. PICK a \in Assignments : \E version \in versions[a.policy] :
            /\ Covers(a, c.employee, c.category, c.start, c.end)
            /\ IsEffectiveOn(version, versions[a.policy], c.start)
            /\ x.row = NewRequest(c.employee, a.policy, version, c.start, c.end, c.partial)
            /\ x.row.dates # {}
    BY <1>1, <1>2, <1>4, SerialParts DEF Knows, Placed, Handling
<1>12. PICK version \in versions[a.policy] :
            /\ Covers(a, c.employee, c.category, c.start, c.end)
            /\ IsEffectiveOn(version, versions[a.policy], c.start)
            /\ x.row = NewRequest(c.employee, a.policy, version, c.start, c.end, c.partial)
            /\ x.row.dates # {}
    BY <1>11
<1>13. x.row.version = version
    BY <1>12 DEF NewRequest
<1>14. FreeOfOverlap(c.employee, c.start, c.end)
    BY <1>1, <1>2, <1>4 DEF Free, Handling
<1>15. ledger' = ledger
    BY <1>2, <1>9
<1>16. Submit(r, c.employee, c.category, c.start, c.end, c.partial)
  <2>1. LET request == NewRequest(c.employee, a.policy, version, c.start, c.end, c.partial)
            account == request.account
            row == Snapshot(account)
        IN  /\ Covers(a, c.employee, c.category, c.start, c.end)
            /\ IsEffectiveOn(version, versions[a.policy], c.start)
            /\ request.dates # {}
            /\ FreeOfOverlap(c.employee, c.start, c.end)
            /\ Affordable(row, request)
            /\ requests' = [requests EXCEPT ![r] = request]
            /\ snapshots' = [snapshots EXCEPT ![account] =
                  IF Unlimited(version) THEN row ELSE [row EXCEPT !.hold = @ + Total(request)]]
      BY <1>2, <1>7, <1>9, <1>10, <1>12, <1>13, <1>14
  <2> QED
      BY <1>2, <1>5, <1>7, <1>8, <1>15, <2>1 DEF Submit
<1> QED
    BY <1>5, <1>16

(* Decisions and cancellations take no dates. *)
LEMMA FreeAfterCommit ==
    ASSUME TxInv, NEW t \in Txns, CommitRequest(t), tx[t].call.op # "submit",
           NEW e, NEW start, NEW end, FreeOfOverlap(e, start, end)
    PROVE  FreeOfOverlap(e, start, end)'
<1>1. /\ \A q \in Requests \ {Id(t)} : requests'[q] = requests[q]
      /\ requests[Id(t)] \in RequestType /\ Id(t) \in Requests
      /\ requests'[Id(t)] = [requests[Id(t)] EXCEPT !.status = Target(t)]
    BY CommitIs, RowsAfter
<1>2. PICK r \in Requests : r = Id(t)
    BY <1>1
<1>3. PICK q \in RequestType : q = requests[r]
    BY <1>1, <1>2
<1>4. Target(t) \in Live => q.status \in Live
  <2>1. tx[t].call.op \in {"approve", "deny", "cancel"} /\ tx[t].pc = "commit" /\ Fits(t, tx[t])
        /\ tx[t].call.request = r
      BY <1>2, CommitIs, AllFit
  <2>2. CASE tx[t].call.op \in {"approve", "deny"}
      BY <1>3, <2>1, <2>2 DEF Fits, Agrees, Ready, Handling, Live
  <2>3. CASE tx[t].call.op = "cancel"
      BY <2>3 DEF Target, Op, Live
  <2> QED
      BY <2>1, <2>2, <2>3
<1>5. ASSUME NEW p \in Requests, requests'[p] # None, requests'[p].employee = e,
             requests'[p].status \in Live
      PROVE  ~ Overlaps(requests'[p], start, end)
  <2>1. CASE p # r
      BY <1>1, <1>2, <1>5, <2>1 DEF FreeOfOverlap, LiveRequests
  <2>2. CASE p = r
    <3>1. PICK s : s = Target(t)
        OBVIOUS
    <3>2. requests'[r] = [q EXCEPT !.status = s]
        BY <1>1, <1>2, <1>3, <3>1
    <3>3. /\ requests'[r].employee = q.employee /\ requests'[r].status = s
          /\ requests'[r].start = q.start /\ requests'[r].end = q.end
        BY <3>2 DEF RequestType
    <3>4. r \in LiveRequests(e)
        BY <1>3, <1>4, <1>5, <2>2, <3>1, <3>3, ParameterAssumption DEF LiveRequests
    <3> QED
        BY <1>3, <2>2, <3>3, <3>4 DEF FreeOfOverlap, Overlaps
  <2> QED
      BY <2>1, <2>2
<1> QED
    BY <1>5 DEF FreeOfOverlap, LiveRequests

-----------------------------------------------------------------------------
(* Submissions keep finding their dates free. *)

FreeInv == \A u \in Txns : Free(tx[u])

EachFree == \A u \in Txns : \A z \in TxType : z = tx[u] => Free(z)

LEMMA FreeOf == TxInv /\ EachFree => FreeInv
BY DEF TxInv, TypeInv, EachFree, FreeInv

LEMMA FreeQuietly ==
    ASSUME TxInv, TxInv', FreeInv, NEW t \in Txns, UNCHANGED vars,
           \A u \in Txns \ {t} : tx'[u] = tx[u],
           \A y \in TxType : y = tx'[t] => Free(y)
    PROVE  FreeInv'
<1>1. ASSUME NEW u \in Txns, NEW z \in TxType, z = tx'[u]
      PROVE  Free(z)'
  <2>1. Free(z)
      BY <1>1 DEF FreeInv
  <2> QED
      BY <2>1 DEF Free, FreeOfOverlap, LiveRequests, vars
<1>2. EachFree'
    BY <1>1 DEF EachFree, TxType
<1> QED
    BY <1>2, FreeOf, PTL

LEMMA BeginFree ==
    ASSUME TxInv, TxInv', FreeInv, NEW t \in Txns, Begin(t)
    PROVE  FreeInv'
<1>1. PICK c \in Calls[t] : BeginSubmit(t, c) \/ BeginDecide(t, c) \/ BeginCancel(t, c) \/ BeginJob(t, c)
    BY DEF Begin
<1>2. UNCHANGED vars /\ tx \in [Txns -> TxType] /\ tx[t] \in TxType
    BY <1>1 DEF BeginSubmit, BeginDecide, BeginCancel, BeginJob, TxInv, TypeInv
<1>3. \A u \in Txns \ {t} : tx'[u] = tx[u]
    BY <1>1, <1>2 DEF BeginSubmit, BeginDecide, BeginCancel, BeginJob
<1>4. ASSUME NEW y \in TxType, y = tx'[t]
      PROVE  Free(y)
  <2>1. CASE BeginSubmit(t, c)
    <3>1. \E row : \/ /\ tx'[t] = [tx[t] EXCEPT !.call = c, !.row = row, !.pc = "snapshot"]
                      /\ FreeOfOverlap(c.employee, c.start, c.end)
                   \/ tx'[t] = [tx[t] EXCEPT !.call = c, !.pc = "failed"]
        BY <1>2, <2>1 DEF BeginSubmit
    <3>2. CASE y.pc = "failed"
        BY <3>2 DEF Free, Handling
    <3>3. CASE y.pc # "failed"
      <4>1. PICK row : /\ tx'[t] = [tx[t] EXCEPT !.call = c, !.row = row, !.pc = "snapshot"]
                       /\ FreeOfOverlap(c.employee, c.start, c.end)
          BY <1>2, <1>4, <3>1, <3>3 DEF TxType
      <4>2. y.call = c
          BY <1>2, <1>4, <4>1 DEF TxType
      <4> QED
          BY <4>1, <4>2 DEF Free
    <3> QED
        BY <3>2, <3>3
  <2>2. CASE BeginDecide(t, c) \/ BeginCancel(t, c) \/ BeginJob(t, c)
    <3>1. c.op # "submit"
        BY <2>2 DEF BeginDecide, BeginCancel, BeginJob
    <3>2. y.call = c
      <4>1. CASE BeginDecide(t, c)
          BY <1>2, <1>4, <4>1 DEF BeginDecide, TxType
      <4>2. CASE BeginCancel(t, c)
        <5>1. \/ tx'[t] = [tx[t] EXCEPT !.call = c, !.row = requests[c.request], !.pc = "snapshot"]
              \/ tx'[t] = [tx[t] EXCEPT !.call = c, !.pc = "failed"]
            BY <1>2, <4>2 DEF BeginCancel
        <5> QED
            BY <1>2, <1>4, <5>1 DEF TxType
      <4>3. CASE BeginJob(t, c)
          BY <1>2, <1>4, <4>3 DEF BeginJob, TxType
      <4> QED
          BY <2>2, <4>1, <4>2, <4>3
    <3> QED
        BY <3>1, <3>2 DEF Free
  <2> QED
      BY <1>1, <2>1, <2>2
<1> QED
    BY <1>2, <1>3, <1>4, FreeQuietly

LEMMA EndFree ==
    ASSUME TxInv, TxInv', FreeInv, NEW t \in Txns, End(t, "failed"), UNCHANGED vars
    PROVE  FreeInv'
<1>1. tx \in [Txns -> TxType]
    BY DEF TxInv, TypeInv
<1>2. /\ \A u \in Txns \ {t} : tx'[u] = tx[u]
      /\ tx'[t].pc = "failed"
    BY <1>1 DEF End, NoTx
<1>3. \A y \in TxType : y = tx'[t] => Free(y)
    BY <1>2 DEF Free, Handling
<1> QED
    BY <1>2, <1>3, FreeQuietly

LEMMA StatementsFree ==
    ASSUME TxInv, TxInv', FreeInv, NEW t \in Txns,
           \/ LockRequest(t) \/ LockSnapshot(t) \/ MissSnapshot(t) \/ InsertSnapshot(t)
           \/ CheckSubmit(t) \/ CheckApprove(t) \/ CheckDeny(t) \/ CheckCancel(t) \/ Flush(t)
    PROVE  FreeInv'
<1>1. tx[t].pc \in {"request", "snapshot", "insert", "check", "flush"} /\ UNCHANGED vars
    BY DEF LockRequest, LockSnapshot, MissSnapshot, InsertSnapshot, CheckSubmit, CheckApprove,
           CheckDeny, CheckCancel, Flush
<1>2. tx \in [Txns -> TxType] /\ Free(tx[t]) /\ Shaped(t, tx[t]) /\ tx[t] \in TxType
    BY <1>1 DEF TxInv, TypeInv, FreeInv
<1>3. tx[t].pc = "request" => tx[t].call.op # "submit"
    BY <1>2 DEF Shaped
<1>4. CASE End(t, "failed")
    BY <1>1, <1>4, EndFree
<1>5. CASE ~ End(t, "failed")
  <2>1. PICK y : /\ tx' = [tx EXCEPT ![t] = y]
                 /\ y.call = tx[t].call /\ (y.row = tx[t].row \/ tx[t].pc = "request")
      BY <1>2, <1>5, StatementIs
  <2>2. tx'[t] = y /\ \A u \in Txns \ {t} : tx'[u] = tx[u]
      BY <1>2, <2>1
  <2>3. Free(y)
      BY <1>1, <1>2, <1>3, <2>1 DEF Free, Handling
  <2>4. \A z \in TxType : z = tx'[t] => Free(z)
      BY <2>2, <2>3
  <2> QED
      BY <1>1, <2>2, <2>4, FreeQuietly
<1> QED
    BY <1>4, <1>5

LEMMA CommitFree ==
    ASSUME TxInv, TxInv', FreeInv, SubmissionsApart, NEW t \in Txns,
           CommitRequest(t), Placed(tx[t])
    PROVE  FreeInv'
<1>1. /\ tx \in [Txns -> TxType] /\ tx[t].pc = "commit" /\ End(t, "committed")
      /\ Id(t) \in Requests /\ tx[t].call.op \in {"submit", "approve", "deny", "cancel"}
    BY CommitIs DEF CommitRequest, TxInv, TypeInv
<1>2. /\ \A u \in Txns \ {t} : tx'[u] = tx[u]
      /\ tx'[t].pc = "committed"
    BY <1>1 DEF End, NoTx
<1>3. ASSUME NEW u \in Txns \ {t}, NEW z \in TxType, z = tx[u]
      PROVE  Free(z)'
  <2>1. SUFFICES ASSUME z.pc \in Handling, z.call.op = "submit"
                 PROVE  FreeOfOverlap(z.call.employee, z.call.start, z.call.end)'
      BY DEF Free
  <2>2. FreeOfOverlap(z.call.employee, z.call.start, z.call.end)
      BY <1>3, <2>1 DEF FreeInv, Free
  <2>3. CASE tx[t].call.op # "submit"
    <3>1. PICK e, start, end : e = z.call.employee /\ start = z.call.start /\ end = z.call.end
        OBVIOUS
    <3>2. FreeOfOverlap(e, start, end)'
        BY <2>2, <2>3, <3>1, FreeAfterCommit
    <3> QED
        BY <3>1, <3>2 DEF FreeOfOverlap
  <2>4. CASE tx[t].call.op = "submit"
    <3>1. /\ \A q \in Requests \ {Id(t)} : requests'[q] = requests[q]
          /\ requests'[Id(t)] = tx[t].row
        BY <2>4, RowsAfter
    <3>2. PICK r \in Requests : r = Id(t)
        BY <1>1
    <3>3. PICK c : c = tx[t].call
        OBVIOUS
    <3>4. /\ tx[t].row.employee = c.employee
          /\ tx[t].row.start = c.start /\ tx[t].row.end = c.end
      <4>1. PICK a \in Assignments, version \in UNION {versions[b.policy] : b \in Assignments} :
                tx[t].row = NewRequest(c.employee, a.policy, version, c.start, c.end, c.partial)
          BY <1>1, <2>4, <3>3 DEF Placed, Handling
      <4> QED
          BY <4>1 DEF NewRequest
    <3>5. z.call.employee = c.employee => z.call.end < c.start \/ c.end < z.call.start
        BY <1>1, <1>3, <2>1, <2>4, <3>3 DEF SubmissionsApart
    <3>6. c \in Submissions /\ z.call \in Submissions
      <4>1. z.pc # "idle" /\ tx[t].pc # "idle"
          BY <1>1, <2>1 DEF Handling
      <4>2. tx[t].call \in Calls[t] /\ z.call \in Calls[u]
          BY <1>3, <4>1, Serving
      <4> QED
          BY <2>1, <2>4, <3>3, <4>2, CallKinds
    <3>7. /\ c.start \in Dates /\ c.end \in Dates /\ z.call.start \in Dates /\ z.call.end \in Dates
        BY <3>6 DEF Submissions
    <3>8. Dates \subseteq Int
        BY CalendarAssumption DEF Dates
    <3>9. PICK e, start, end : e = z.call.employee /\ start = z.call.start /\ end = z.call.end
        OBVIOUS
    <3>10. c.employee = e => ~ Overlaps(tx[t].row, start, end)
      <4>1. PICK q : q = tx[t].row
          OBVIOUS
      <4>2. /\ q.start = c.start /\ q.end = c.end
            /\ q.start \in Int /\ q.end \in Int /\ start \in Int /\ end \in Int
          BY <3>4, <3>7, <3>8, <3>9, <4>1
      <4>3. c.employee = e => end < q.start \/ q.end < start
          BY <3>5, <3>9, <4>2
      <4>4. c.employee = e => ~ Overlaps(q, start, end)
          BY <4>2, <4>3 DEF Overlaps
      <4> QED
          BY <4>1, <4>4
    <3>11. ASSUME NEW p \in Requests, requests'[p] # None, requests'[p].employee = e,
                  requests'[p].status \in Live
           PROVE  ~ Overlaps(requests'[p], start, end)
      <4>1. CASE p # r
          BY <2>2, <3>1, <3>2, <3>9, <3>11, <4>1 DEF FreeOfOverlap, LiveRequests
      <4>2. CASE p = r
        <5>1. requests'[p] = tx[t].row
            BY <3>1, <3>2, <4>2
        <5> QED
            BY <3>4, <3>10, <3>11, <5>1
      <4> QED
          BY <4>1, <4>2
    <3> QED
        BY <3>9, <3>11 DEF FreeOfOverlap, LiveRequests
  <2> QED
      BY <2>3, <2>4
<1>4. EachFree'
  <2>1. ASSUME NEW u \in Txns, NEW z \in TxType, z = tx'[u]
        PROVE  Free(z)'
    <3>1. CASE u = t
        BY <1>2, <2>1, <3>1 DEF Free, Handling
    <3>2. CASE u # t
        BY <1>2, <1>3, <2>1, <3>2
    <3> QED
        BY <3>1, <3>2
  <2> QED
      BY <2>1 DEF EachFree, TxType
<1> QED
    BY <1>4, FreeOf, PTL

LEMMA JobsFree ==
    ASSUME TxInv, TxInv', FreeInv, NEW t \in Txns, JobInsert(t) \/ JobUpsert(t) \/ CommitJob(t)
    PROVE  FreeInv'
<1>1. /\ tx \in [Txns -> TxType] /\ tx[t].pc \in {"job", "upsert", "commit"}
      /\ UNCHANGED <<requests, events>>
    BY DEF TxInv, TypeInv, JobInsert, JobUpsert, CommitJob, vars
<1>2. tx[t].call.op = "job"
    BY <1>1, AtPost DEF CommitJob, Op, JobInsert, JobUpsert
<1>3. /\ \A u \in Txns \ {t} : tx'[u] = tx[u]
      /\ tx'[t].call = tx[t].call
  <2>1. CASE JobInsert(t)
    <3>1. \/ \E next, pc : tx' = [tx EXCEPT ![t] = [tx[t] EXCEPT !.next = next, !.pc = pc]]
          \/ \E entries, sum :
                tx' = [tx EXCEPT ![t] = [tx[t] EXCEPT !.entries = entries, !.sum = sum,
                                                      !.pc = "upsert"]]
        BY <2>1 DEF JobInsert
    <3> QED
        BY <1>1, <3>1 DEF TxType
  <2>2. CASE JobUpsert(t)
    <3>1. \E a, row, next, pc : tx' = [tx EXCEPT ![t] =
              [tx[t] EXCEPT !.mine[a] = row, !.next = next, !.pc = pc]]
        BY <2>2 DEF JobUpsert
    <3> QED
        BY <1>1, <3>1 DEF TxType
  <2>3. CASE CommitJob(t)
      BY <1>1, <2>3 DEF CommitJob, End, NoTx
  <2> QED
      BY <2>1, <2>2, <2>3
<1>4. ASSUME NEW u \in Txns, NEW z \in TxType, z = tx'[u]
      PROVE  Free(z)'
  <2>1. CASE u = t
      BY <1>2, <1>3, <1>4, <2>1 DEF Free
  <2>2. CASE u # t
    <3>1. Free(z)
        BY <1>3, <1>4, <2>2 DEF FreeInv
    <3> QED
        BY <1>1, <3>1 DEF Free, FreeOfOverlap, LiveRequests
  <2> QED
      BY <2>1, <2>2
<1>5. EachFree'
    BY <1>4 DEF EachFree, TxType
<1> QED
    BY <1>5, FreeOf, PTL

LEMMA FreeInitially == TxInit => FreeInv
<1>1. TxInit => \A t \in Txns : tx[t].pc = "idle"
    BY DEF TxInit, NoTx
<1> QED
    BY <1>1 DEF FreeInv, Free, Handling

LEMMA FreeStep == SerialInv /\ FreeInv /\ SubmissionsApart /\ [TxNext]_txVars => FreeInv'
<1> SUFFICES ASSUME SerialInv, FreeInv, SubmissionsApart, [TxNext]_txVars PROVE FreeInv'
    OBVIOUS
<1>1. TxInv /\ TxInv'
    BY SerialParts, TxStep
<1>2. ASSUME UNCHANGED txVars PROVE FreeInv'
    BY <1>2 DEF FreeInv, Free, FreeOfOverlap, LiveRequests, txVars, vars
<1>3. ASSUME NEW t \in Txns, Begin(t) PROVE FreeInv'
    BY <1>1, <1>3, BeginFree
<1>4. ASSUME NEW t \in Txns, Work(t) PROVE FreeInv'
  <2>1. CASE \/ LockRequest(t) \/ LockSnapshot(t) \/ MissSnapshot(t) \/ InsertSnapshot(t)
             \/ CheckSubmit(t) \/ CheckApprove(t) \/ CheckDeny(t) \/ CheckCancel(t) \/ Flush(t)
      BY <1>1, <2>1, StatementsFree
  <2>2. CASE JobInsert(t) \/ JobUpsert(t)
      BY <1>1, <2>2, JobsFree
  <2>3. CASE CommitRequest(t)
    <3>1. Placed(tx[t])
        BY SerialParts DEF Knows
    <3> QED
        BY <1>1, <2>3, <3>1, CommitFree
  <2>4. CASE CommitJob(t)
      BY <1>1, <2>4, JobsFree
  <2> QED
      BY <1>4, <2>1, <2>2, <2>3, <2>4 DEF Work
<1>5. ASSUME NEW t \in Txns, Crash(t) \/ AbortDeadlocked(t) PROVE FreeInv'
    BY <1>1, <1>5, EndFree DEF Crash, AbortDeadlocked
<1> QED
    BY <1>2, <1>3, <1>4, <1>5 DEF TxNext, AllServed

-----------------------------------------------------------------------------
(* The theorems. *)

(* Every decision that commits is the serial decision on the committed     *)
(* rows of that moment, balance check, debits, hold and status together:   *)
(* whatever ran beside it, submissions, jobs and even cancellations, none  *)
(* of it is lost or overwritten.                                           *)
DecisionsAreSerial ==
    [][\A t \in Txns : CommitRequest(t) =>
         /\ Op(t) = "approve" => Approve(Id(t))
         /\ Op(t) = "deny" => Deny(Id(t))]_txVars

THEOREM DecisionsStandAlone == TxSpec => DecisionsAreSerial
<1>1. ASSUME TxInv
      PROVE  \A t \in Txns : CommitRequest(t) => /\ Op(t) = "approve" => Approve(Id(t))
                                                 /\ Op(t) = "deny" => Deny(Id(t))
    BY <1>1, DecisionIsSerial
<1> QED
    BY <1>1, TxAlways, PTL DEF TxSpec, DecisionsAreSerial

(* Whatever commits nothing is not seen. *)
LEMMA QuietWork ==
    ASSUME NEW t \in Txns, \/ Begin(t) \/ Crash(t) \/ AbortDeadlocked(t)
                           \/ Work(t) /\ ~ CommitRequest(t) /\ ~ CommitJob(t)
    PROVE  UNCHANGED vars
BY DEF Begin, BeginSubmit, BeginDecide, BeginCancel, BeginJob, Crash, AbortDeadlocked,
       Work, LockRequest, LockSnapshot, MissSnapshot, InsertSnapshot, CheckSubmit, CheckApprove,
       CheckDeny, CheckCancel, Flush, JobInsert, JobUpsert

LEMMA ServedStep ==
    ASSUME NoJobs, SerialInv, FreeInv, [TxNext]_txVars
    PROVE  [Next]_vars
<1>1. ASSUME NEW t \in Txns, Begin(t) \/ Crash(t) \/ AbortDeadlocked(t) PROVE UNCHANGED vars
    BY <1>1, QuietWork
<1>2. ASSUME NEW t \in Txns, Work(t) PROVE [Next]_vars
  <2>1. CASE CommitRequest(t)
    <3>1. Op(t) \in {"submit", "approve", "deny", "cancel"} /\ Id(t) \in Requests
        BY <2>1, SerialParts, CommitIs
    <3>2. CASE Op(t) = "submit"
      <4>1. Free(tx[t])
          BY DEF FreeInv
      <4> QED
          BY <2>1, <3>2, <4>1, SubmitIsSerial DEF Next
    <3>3. CASE Op(t) = "cancel"
        BY <2>1, <3>1, <3>3, CancelIsSerial DEF Next
    <3>4. CASE Op(t) \in {"approve", "deny"}
        BY <2>1, <3>1, <3>4, SerialParts, DecisionIsSerial DEF Next
    <3> QED
        BY <3>1, <3>2, <3>3, <3>4
  <2>2. CASE CommitJob(t)
    <3>1. tx[t].pc # "idle" /\ tx[t].call.op = "job"
        BY <2>2 DEF CommitJob, Op
    <3>2. tx[t].call \in Calls[t]
        BY <3>1, SerialParts, Serving
    <3> QED
        BY <3>1, <3>2 DEF NoJobs
  <2>3. CASE ~ CommitRequest(t) /\ ~ CommitJob(t)
      BY <1>2, <2>3, QuietWork
  <2> QED
      BY <2>1, <2>2, <2>3
<1> QED
    BY <1>1, <1>2 DEF TxNext, AllServed, txVars

(* Without jobs, the server serves the calls as if one after the other:    *)
(* the committed rows of every behaviour are a behaviour of the serial     *)
(* workflow, wherever threads interleave, wait, deadlock or die, as long   *)
(* as nobody decides a request while it is cancelled and nobody asks twice *)
(* at a time for the same date.                                            *)
THEOREM ServedOneByOne ==
    ASSUME NoJobs
    PROVE  TxSpec /\ []CancelsUnrivalled /\ []SubmissionsApart => ImplementsSerial
<1>1. TxInit => Init /\ FreeInv
    BY FreeInitially DEF TxInit
<1>2. SerialInv /\ FreeInv /\ SubmissionsApart /\ [TxNext]_txVars => FreeInv'
    BY FreeStep
<1>3. SerialInv /\ FreeInv /\ [TxNext]_txVars => [Next]_vars
    BY ServedStep
<1> QED
    BY <1>1, <1>2, <1>3, SerialAlways, PTL DEF TxSpec, Spec, ImplementsSerial

(* Calls that are apart by who asks for what: no two transactions serve    *)
(* submissions of one employee for one date, and none cancels what another *)
(* decides or cancels.                                                     *)
CallsApart ==
    \A t, u \in Txns : \A c \in Calls[t], d \in Calls[u] : t # u =>
        /\ c.op = "cancel" /\ d.op \in {"approve", "deny", "cancel"} => c.request # d.request
        /\ c.op = "submit" /\ d.op = "submit" /\ c.employee = d.employee =>
              c.end < d.start \/ d.end < c.start

(* Such calls the server always serves as if one after the other.          *)
THEOREM ApartCallsAreSerial ==
    ASSUME NoJobs, CallsApart
    PROVE  TxSpec => ImplementsSerial
<1>1. ASSUME TxInv PROVE CancelsUnrivalled /\ SubmissionsApart
  <2>1. \A t \in Txns : tx[t].pc \in Handling => tx[t].call \in Calls[t]
      BY <1>1, Serving DEF Handling
  <2> QED
      BY <2>1 DEF CallsApart, CancelsUnrivalled, SubmissionsApart, Handling
<1> QED
    BY <1>1, TxAlways, ServedOneByOne, PTL

-----------------------------------------------------------------------------
(* Holds. *)

(* A job writes balances and keeps the holds, other handlers' included.    *)
LEMMA JobsKeepHolds ==
    ASSUME SerialInv, HoldIsPendingCost, NEW t \in Txns, CommitJob(t)
    PROVE  HoldIsPendingCost'
<1>1. requests' = requests /\ TypeOK
    BY SerialParts DEF CommitJob, TxInv, TypeInv
<1>2. tx[t].pc # "idle" /\ tx[t].call.op = "job"
    BY DEF CommitJob, Op
<1>3. HoldsKept(tx[t])
    BY SerialParts DEF Knows
<1>4. ASSUME NEW a \in Accounts
      PROVE  HoldOf(snapshots'[a]) = HoldOf(snapshots[a])
  <2>1. snapshots'[a] = IF tx[t].mine[a] = None THEN snapshots[a] ELSE tx[t].mine[a]
      BY DEF CommitJob
  <2> QED
      BY <1>2, <1>3, <2>1 DEF HoldsKept, HoldOf
<1> QED
    BY <1>1, <1>4 DEF HoldIsPendingCost, HoldOf, Metered, CostOf, PendingOn, RequestsOn

LEMMA SubmissionsHold ==
    ASSUME TxInv, HoldIsPendingCost, NEW t \in Txns, CommitRequest(t), tx[t].call.op = "submit",
           Placed(tx[t])
    PROVE  HoldIsPendingCost'
<1>1. PICK q \in RequestType : q = tx[t].row
    BY CommitIs
<1>2. PICK r \in Requests : r = Id(t)
    BY CommitIs
<1>3. PICK a \in Accounts : a = q.account
    BY <1>1, CommitIs
<1>4. PICK row : row = tx[t].mine[a]
    OBVIOUS
<1>5. /\ TypeOK /\ Writes(tx[t]) /\ snapshots' = [snapshots EXCEPT ![a] = row]
      /\ Snapshot(a) \in SnapshotType /\ tx[t].pc = "commit"
    BY <1>1, <1>3, <1>4, CommitIs
<1>6. /\ requests[r] = None /\ requests'[r] = q
      /\ \A p \in Requests \ {r} : requests'[p] = requests[p]
    BY <1>1, <1>2, RowsAfter
<1>7. row = Moved(a, HeldCost(q))
    BY <1>1, <1>3, <1>4, <1>5 DEF Writes, Holds
<1>8. PICK cost \in Nat : cost = HeldCost(q)
  <2>1. Total(q) \in Nat
      BY CostType
  <2> QED
      BY <2>1 DEF HeldCost
<1>9. row \in SnapshotType /\ row.hold = Snapshot(a).hold + cost
    BY <1>5, <1>7, <1>8 DEF Moved, SnapshotType
<1>10. q.status = "PENDING"
  <2>1. PICK b \in Assignments, version \in UNION {versions[c.policy] : c \in Assignments} :
            tx[t].row = NewRequest(tx[t].call.employee, b.policy, version, tx[t].call.start,
                                   tx[t].call.end, tx[t].call.partial)
      BY <1>5 DEF Placed, Handling
  <2> QED
      BY <1>1, <2>1 DEF NewRequest
<1>11. OnlyMoves(r, a)
    BY <1>3, <1>5, <1>6 DEF OnlyMoves, TypeOK
<1>12. HoldRight(a) /\ Snapshot(a).hold = HoldOf(snapshots[a])
    BY HoldsByAccount, SnapshotHold
<1>13. ~ Unlimited(q.version) => row.hold = HoldOf(snapshots[a]) + Total(requests'[r])
    BY <1>6, <1>8, <1>9, <1>12 DEF HeldCost
<1>14. row # None /\ snapshots'[a] = row
    BY <1>5, <1>9, ParameterAssumption DEF TypeOK
<1>15. HoldRight(a)'
    BY <1>5, <1>6, <1>10, <1>11, <1>12, <1>13, <1>14, HoldHere
<1> QED
    BY <1>5, <1>11, <1>15, HoldEverywhere

(* What the committed rows can see of a step. *)
LEMMA StepsSeen ==
    ASSUME SerialInv, [TxNext]_txVars
    PROVE  \/ UNCHANGED vars
           \/ \E t \in Txns : CommitJob(t)
           \/ \E t \in Txns : CommitRequest(t) /\ tx[t].call.op = "submit" /\ Placed(tx[t])
           \/ \E r \in Requests : Approve(r) \/ Deny(r) \/ Cancel(r)
<1>1. ASSUME NEW t \in Txns, CommitRequest(t)
      PROVE  \/ tx[t].call.op = "submit" /\ Placed(tx[t])
             \/ \E r \in Requests : Approve(r) \/ Deny(r) \/ Cancel(r)
  <2>1. /\ Op(t) \in {"submit", "approve", "deny", "cancel"} /\ Id(t) \in Requests
        /\ Op(t) = tx[t].call.op /\ Placed(tx[t])
      BY <1>1, SerialParts, CommitIs DEF Knows
  <2>2. /\ Op(t) = "approve" => Approve(Id(t))
        /\ Op(t) = "deny" => Deny(Id(t))
        /\ Op(t) = "cancel" => Cancel(Id(t))
      BY <1>1, SerialParts, DecisionIsSerial, CancelIsSerial
  <2> QED
      BY <2>1, <2>2
<1> QED
    BY <1>1, QuietWork DEF TxNext, Work, AllServed, txVars

LEMMA HoldsStay ==
    SerialInv /\ HoldIsPendingCost /\ [TxNext]_txVars => HoldIsPendingCost'
<1> SUFFICES ASSUME SerialInv, HoldIsPendingCost, [TxNext]_txVars PROVE HoldIsPendingCost'
    OBVIOUS
<1>1. TxInv /\ TypeOK
    BY SerialParts DEF TxInv, TypeInv
<1>2. CASE UNCHANGED vars \/ \E r \in Requests : Approve(r) \/ Deny(r) \/ Cancel(r)
    BY <1>1, <1>2, HoldStep DEF Next
<1>3. CASE \E t \in Txns : CommitJob(t)
    BY <1>3, JobsKeepHolds
<1>4. CASE \E t \in Txns : CommitRequest(t) /\ tx[t].call.op = "submit" /\ Placed(tx[t])
    BY <1>1, <1>4, SubmissionsHold
<1> QED
    BY <1>2, <1>3, <1>4, StepsSeen

(* However submissions, decisions and jobs interleave, wait and die, the   *)
(* hold of a metered account is what its pending requests cost, as long as *)
(* nobody decides a request while it is cancelled: the sum a job writes to *)
(* a snapshot may be stale, the hold beside it never is.                   *)
THEOREM HoldsSurviveJobs == TxSpec /\ []CancelsUnrivalled => []HoldIsPendingCost
<1>1. TxInit => HoldIsPendingCost
    BY HoldInit DEF TxInit
<1> QED
    BY <1>1, HoldsStay, SerialAlways, PTL DEF TxSpec

-----------------------------------------------------------------------------
(* Debits and reversals. *)

(* A job's entries are no legs of requests. *)
LEMMA JobsKeepLegs ==
    ASSUME TxInv, LedgerInv, NEW t \in Txns, CommitJob(t)
    PROVE  LedgerInv'
<1>1. UNCHANGED requests /\ ledger' = ledger \cup tx[t].entries
    BY DEF CommitJob
<1>2. tx[t].pc # "idle" /\ tx[t].call.op = "job"
    BY DEF CommitJob, Op
<1>3. \A x \in tx[t].entries : x.source[1] = "JOB"
    BY <1>2, AllFit DEF Fits, Agrees, JobRows
<1>4. \A r \in Requests : \A type \in {"REQUEST", "REQUEST_CANCELLATION"} :
          LegsOf(r, type)' = LegsOf(r, type)
    BY <1>1, <1>3 DEF LegsOf
<1>5. LedgerFollowsStatus'
    BY <1>1, <1>4 DEF LedgerInv, LedgerFollowsStatus
<1>6. ChargesDates'
    BY <1>1 DEF LedgerInv, ChargesDates
<1>7. LegsOnAccount'
    BY <1>1, <1>3 DEF LedgerInv, LegsOnAccount
<1> QED
    BY <1>5, <1>6, <1>7 DEF LedgerInv

LEMMA SubmissionsFollow ==
    ASSUME TxInv, LedgerInv, NEW t \in Txns, CommitRequest(t), tx[t].call.op = "submit",
           Placed(tx[t])
    PROVE  LedgerInv'
<1>1. PICK q \in RequestType : q = tx[t].row
    BY CommitIs
<1>2. PICK r \in Requests : r = Id(t)
    BY CommitIs
<1>3. /\ TypeOK /\ ledger' = ledger \cup tx[t].entries /\ Writes(tx[t]) /\ tx[t].pc = "commit"
    BY CommitIs
<1>4. tx[t].entries = {}
    BY <1>3 DEF Writes, Holds
<1>5. /\ requests[r] = None /\ requests'[r] = q /\ q # None
      /\ requests' \in [Requests -> RequestType \cup {None}]
      /\ \A p \in Requests \ {r} : requests'[p] = requests[p]
    BY <1>1, <1>2, RowsAfter, ParameterAssumption
<1>6. q.status = "PENDING" /\ q.dates # {} /\ q.dates \subseteq WorkDates
  <2>1. PICK b \in Assignments, version \in UNION {versions[c.policy] : c \in Assignments} :
            /\ tx[t].row = NewRequest(tx[t].call.employee, b.policy, version, tx[t].call.start,
                                      tx[t].call.end, tx[t].call.partial)
            /\ tx[t].row.dates # {}
      BY <1>3 DEF Placed, Handling
  <2> QED
      BY <1>1, <2>1 DEF NewRequest, ChargedDates
<1>7. ledger' = ledger
    BY <1>3, <1>4
<1>8. FollowsIn(ledger', requests', r)
  <2>1. FollowsIn(ledger, requests, r)
      BY FollowsByRequest DEF LedgerInv
  <2>2. LegsIn(ledger, r, "REQUEST") = {} /\ LegsIn(ledger, r, "REQUEST_CANCELLATION") = {}
      BY <1>5, <2>1 DEF FollowsIn, Follows
  <2> QED
      BY <1>5, <1>6, <1>7, <2>2 DEF FollowsIn, Follows
<1>9. PICK E : E = {} /\ AreLegs(E, r, "REQUEST") /\ \A x \in E : x.account = q.account
  <2>1. AreLegs({}, r, "REQUEST")
      BY DEF AreLegs
  <2> QED
      BY <2>1
<1>10. ledger' = Post(ledger, E)
    BY <1>7, <1>9, PostNothing
<1> QED
    BY <1>3, <1>5, <1>6, <1>8, <1>9, <1>10, LedgerStepOf

LEMMA LegsStay == SerialInv /\ LedgerInv /\ [TxNext]_txVars => LedgerInv'
<1> SUFFICES ASSUME SerialInv, LedgerInv, [TxNext]_txVars PROVE LedgerInv'
    OBVIOUS
<1>1. TxInv /\ TypeOK
    BY SerialParts DEF TxInv, TypeInv
<1>2. CASE UNCHANGED vars \/ \E r \in Requests : Approve(r) \/ Deny(r) \/ Cancel(r)
    BY <1>1, <1>2, LedgerStep DEF Next
<1>3. CASE \E t \in Txns : CommitJob(t)
    BY <1>1, <1>3, JobsKeepLegs
<1>4. CASE \E t \in Txns : CommitRequest(t) /\ tx[t].call.op = "submit" /\ Placed(tx[t])
    BY <1>1, <1>4, SubmissionsFollow
<1> QED
    BY <1>2, <1>3, <1>4, StepsSeen

LEMMA LegsAlways == TxSpec /\ []CancelsUnrivalled => [](TypeOK /\ LedgerInv)
<1>1. TxInit => LedgerInv
    BY LedgerInit DEF TxInit
<1>2. SerialInv => TypeOK
    BY DEF SerialInv, TxInv, TypeInv
<1> QED
    BY <1>1, <1>2, LegsStay, SerialAlways, PTL DEF TxSpec

(* The race the model checker shows is the only way to a cancelled request *)
(* that still costs something: as long as nobody decides a request while   *)
(* it is cancelled, a metered request's debits and reversals agree with    *)
(* its status and sum to nothing once it is cancelled, whatever jobs run   *)
(* and whichever other calls interleave.                                   *)
THEOREM LegsFollowInTransactions ==
    TxSpec /\ []CancelsUnrivalled => [](LedgerFollowsStatus /\ LegsSumToTotal)
<1>1. TypeOK /\ LedgerInv => LedgerFollowsStatus /\ LegsSumToTotal
    BY LegsOfBothSum DEF LedgerInv, LegsSumToTotal, LegsOfBoth
<1> QED
    BY <1>1, LegsAlways, PTL

-----------------------------------------------------------------------------
(* Balances. *)

(* What a handler writes keeps the cached balances right. *)
LEMMA HandlersKeepSums ==
    ASSUME TxInv, SnapshotIsLedgerSum, NEW t \in Txns, CommitRequest(t)
    PROVE  SnapshotIsLedgerSum'
<1>1. PICK x : x = tx[t]
    OBVIOUS
<1>2. PICK a \in Accounts : a = x.row.account
    BY <1>1, CommitIs
<1>3. PICK row : row = x.mine[a]
    OBVIOUS
<1>4. /\ TypeOK /\ Writes(x) /\ x.row \in RequestType
      /\ ledger' = ledger \cup x.entries /\ snapshots' = [snapshots EXCEPT ![a] = row]
      /\ x.call.op \in {"submit", "approve", "deny", "cancel"}
    BY <1>1, <1>2, <1>3, CommitIs
<1>5. Snapshot(a) \in SnapshotType /\ Snapshot(a).balance = Balance(ledger, a)
    BY <1>4, SnapshotRowType, SnapshotSum
<1>6. Total(x.row) \in Int /\ HeldCost(x.row) \in Int
    BY <1>4, CostType DEF HeldCost
<1>7. ASSUME NEW minutes \in Int, Holds(x, minutes)
      PROVE  SnapshotIsLedgerSum'
  <2>1. row \in SnapshotType /\ row.balance = Balance(ledger, a)
      BY <1>2, <1>3, <1>5, <1>7 DEF Holds, Moved, SnapshotType
  <2>2. ledger' = ledger
      BY <1>4, <1>7 DEF Holds
  <2> QED
      BY <1>4, <2>1, <2>2, StoringKeepsSums
<1>8. ASSUME NEW minutes \in Int, NEW legs \in SUBSET EntryType, IsFiniteSet(legs),
             OneEntryPerSource(legs), \A y \in legs : y.account = a, Posts(x, legs, minutes)
      PROVE  SnapshotIsLedgerSum'
  <2>1. row = Charged(a, legs, minutes) /\ x.entries = Post(ledger, legs) \ ledger
      BY <1>2, <1>3, <1>8 DEF Posts
  <2>2. /\ row = [Refreshed(Snapshot(a), a, legs) EXCEPT !.hold = @ + minutes]
        /\ ledger \cup (Post(ledger, legs) \ ledger) = Post(ledger, legs)
      BY <1>4, <2>1, ChargedIsRefreshed
  <2>3. PICK fresh \in SnapshotType : fresh = Refreshed(Snapshot(a), a, legs)
    <3>1. PICK shown \in SnapshotType : shown = Snapshot(a)
        BY <1>5
    <3> QED
        BY <1>4, <1>8, <3>1, RefreshedType
  <2>4. fresh.balance = Balance(Post(ledger, legs), a)
    <3>1. PICK shown \in SnapshotType : shown = Snapshot(a)
        BY <1>5
    <3> QED
        BY <1>5, <2>3, <3>1, RefreshedSum
  <2>5. row \in SnapshotType /\ row.balance = Balance(Post(ledger, legs), a)
      BY <2>2, <2>3, <2>4 DEF SnapshotType
  <2>6. ledger' = Post(ledger, legs)
      BY <1>4, <2>1, <2>2
  <2> QED
      BY <1>4, <1>8, <2>5, <2>6, PostingKeepsSums
<1>9. ASSUME NEW type \in {"REQUEST", "REQUEST_CANCELLATION"}, NEW sign \in {-1, 1},
             NEW r \in Requests, NEW minutes \in Int, Posts(x, Legs(type, r, x.row, sign), minutes)
      PROVE  SnapshotIsLedgerSum'
  <2>1. PICK legs : legs = Legs(type, r, x.row, sign)
      OBVIOUS
  <2>2. PICK q \in RequestType : q = x.row
      BY <1>4
  <2>3. /\ legs \in SUBSET EntryType /\ IsFiniteSet(legs)
        /\ \A y \in legs : y.account = a
      BY <1>2, <1>4, <2>1, <2>2, LegsType
  <2>4. OneEntryPerSource(legs)
      BY <2>1, <2>2, LegsOnePerSource
  <2> QED
      BY <1>8, <1>9, <2>1, <2>3, <2>4
<1>10. PICK r \in Requests : r = x.call.request
    BY <1>1, CommitIs
<1>11. PICK total \in Int : total = Total(x.row)
    BY <1>6
<1>12. CASE x.call.op = "submit"
    BY <1>4, <1>6, <1>7, <1>12 DEF Writes
<1>13. CASE x.call.op = "deny"
  <2>1. -HeldCost(x.row) \in Int
      BY <1>6
  <2> QED
      BY <1>4, <1>7, <1>13, <2>1 DEF Writes
<1>14. CASE x.call.op = "approve"
  <2>1. CASE Unlimited(x.row.version)
      BY <1>4, <1>7, <1>14, <2>1 DEF Writes
  <2>2. CASE ~ Unlimited(x.row.version)
    <3>1. PICK back \in Int : back = -Total(x.row)
        BY <1>6
    <3>2. Posts(x, Legs("REQUEST", r, x.row, -1), back)
        BY <1>4, <1>10, <1>14, <2>2, <3>1 DEF Writes, DebitLegs
    <3> QED
        BY <1>9, <3>2
  <2> QED
      BY <2>1, <2>2
<1>15. CASE x.call.op = "cancel"
  <2>1. CASE x.row.status = "PENDING"
    <3>1. PICK back \in Int : back = -Total(x.row)
        BY <1>6
    <3>2. Holds(x, back)
        BY <1>4, <1>15, <2>1, <3>1 DEF Writes
    <3> QED
        BY <1>7, <3>2
  <2>2. CASE x.row.status # "PENDING"
    <3>1. Posts(x, Legs("REQUEST_CANCELLATION", r, x.row, 1), 0)
        BY <1>4, <1>10, <1>15, <2>2 DEF Writes, ReversalLegs
    <3> QED
        BY <1>9, <3>1
  <2> QED
      BY <2>1, <2>2
<1> QED
    BY <1>4, <1>12, <1>13, <1>14, <1>15

(* Without jobs the cached balances stay the sums of the ledger, whatever  *)
(* else interleaves, racing cancellations and overlapping submissions      *)
(* included: whoever posts holds the snapshot from before the sum is read. *)
THEOREM BalancesStayWithoutJobs ==
    ASSUME NoJobs
    PROVE  TxSpec => []SnapshotIsLedgerSum
<1>1. TxInit => SnapshotIsLedgerSum
    BY SumsInit DEF TxInit
<1>2. ASSUME TxInv, SnapshotIsLedgerSum, [TxNext]_txVars
      PROVE  SnapshotIsLedgerSum'
  <2>1. CASE UNCHANGED vars
      BY <1>2, <2>1 DEF SnapshotIsLedgerSum, vars
  <2>2. ASSUME NEW t \in Txns, CommitRequest(t) PROVE SnapshotIsLedgerSum'
      BY <1>2, <2>2, HandlersKeepSums
  <2>3. ASSUME NEW t \in Txns PROVE ~ CommitJob(t)
    <3>1. SUFFICES ASSUME CommitJob(t) PROVE FALSE
        OBVIOUS
    <3>2. tx[t].pc # "idle" /\ tx[t].call.op = "job"
        BY <3>1 DEF CommitJob, Op
    <3>3. tx[t].call \in Calls[t]
        BY <1>2, <3>2, Serving
    <3> QED
        BY <3>2, <3>3 DEF NoJobs
  <2> QED
      BY <1>2, <2>1, <2>2, <2>3, QuietWork DEF TxNext, AllServed, txVars
<1> QED
    BY <1>1, <1>2, TxAlways, PTL DEF TxSpec

-----------------------------------------------------------------------------
(* What balances count beside jobs. *)

(* No key is posted twice, also if every open transaction commits. *)
KeysInv ==
    /\ OneEntryPerSource(ledger)
    /\ \A t \in Txns : OneEntryPerSource(ledger \cup tx[t].entries)
    /\ \A t, u \in Txns : t # u =>
          \A x \in tx[t].entries, y \in tx[u].entries : x.source # y.source

(* The amount n is that of some entries of the account, one at least. *)
CountsIn(L, a, n) == \E C \in (SUBSET EntriesOf(L, a)) \ {{}} : n = SumAmounts(C)

(* Each account with entries has a snapshot that counts some of them. *)
Shown(a) ==
    EntriesOf(ledger, a) # {} =>
        snapshots[a] # None /\ CountsIn(ledger, a, snapshots[a].balance)

(* What a job has summed, and the rows it has written, count its entries   *)
(* and others that are committed.                                          *)
JobCounts(L, x) ==
    x.pc # "idle" /\ x.call.op = "job" =>
        /\ x.pc = "upsert" =>
              CountsIn(L \cup x.entries, x.call.posts[x.next].account, x.sum)
        /\ \A a \in Accounts : x.mine[a] # None =>
              CountsIn(L \cup x.entries, a, x.mine[a].balance)

CountInv ==
    /\ \A a \in Accounts : Shown(a)
    /\ \A t \in Txns : JobCounts(ledger, tx[t])

LEMMA CountsGrow ==
    ASSUME NEW L, NEW M, L \subseteq M, NEW a, NEW n, CountsIn(L, a, n)
    PROVE  CountsIn(M, a, n)
BY DEF CountsIn, EntriesOf

LEMMA AllCount ==
    ASSUME NEW L, NEW a, EntriesOf(L, a) # {}
    PROVE  CountsIn(L, a, Balance(L, a))
<1>1. PICK C, n : C = EntriesOf(L, a) /\ n = SumAmounts(C)
    OBVIOUS
<1>2. C # {} /\ C \in SUBSET C
    BY <1>1
<1>3. C \in (SUBSET C) \ {{}}
    BY <1>2
<1>4. \E D \in (SUBSET C) \ {{}} : n = SumAmounts(D)
    BY <1>1, <1>3
<1> QED
    BY <1>1, <1>4 DEF CountsIn, Balance

LEMMA JobCountsGrow ==
    ASSUME NEW L, NEW M, L \subseteq M, NEW x, JobCounts(L, x)
    PROVE  JobCounts(M, x)
<1>1. \A a, n : CountsIn(L \cup x.entries, a, n) => CountsIn(M \cup x.entries, a, n)
    BY CountsGrow
<1> QED
    BY <1>1 DEF JobCounts

(* A statement of a handler adds no entries but legs, with free sources.   *)
LEMMA HandlersPost ==
    ASSUME TxInv, NEW t \in Txns,
           \/ LockRequest(t) \/ LockSnapshot(t) \/ MissSnapshot(t) \/ InsertSnapshot(t)
           \/ CheckSubmit(t) \/ CheckApprove(t) \/ CheckDeny(t) \/ CheckCancel(t) \/ Flush(t)
    PROVE  /\ UNCHANGED vars /\ tx'[t].call.op # "job"
           /\ \A u \in Txns \ {t} : tx'[u] = tx[u]
           /\ \/ tx'[t].entries \subseteq tx[t].entries
              \/ \E legs : /\ tx'[t].entries \subseteq Post(ledger, legs)
                           /\ OneEntryPerSource(legs)
                           /\ \A x \in tx'[t].entries : x \in legs
                           /\ \A x \in legs : SourceFree(x.source, t)
<1>1. tx[t].pc \in {"request", "snapshot", "insert", "check", "flush"} /\ UNCHANGED vars
    BY DEF LockRequest, LockSnapshot, MissSnapshot, InsertSnapshot, CheckSubmit, CheckApprove,
           CheckDeny, CheckCancel, Flush
<1>2. /\ tx \in [Txns -> TxType] /\ tx[t] \in TxType /\ Shaped(t, tx[t]) /\ tx[t].call.op # "job"
      /\ Id(t) \in Requests /\ tx[t].row \in RequestType
    BY <1>1, Serving DEF Fits, Shaped, Handling
<1>3. CASE End(t, "failed")
  <2>1. /\ \A u \in Txns \ {t} : tx'[u] = tx[u]
        /\ tx'[t].entries = {} /\ tx'[t].call = tx[t].call
      BY <1>2, <1>3 DEF End, NoTx
  <2> QED
      BY <1>1, <1>2, <2>1
<1>4. ASSUME NEW y, tx' = [tx EXCEPT ![t] = y], y.call = tx[t].call, y.entries = tx[t].entries
      PROVE  /\ tx'[t].call.op # "job" /\ tx'[t].entries \subseteq tx[t].entries
             /\ \A u \in Txns \ {t} : tx'[u] = tx[u]
    BY <1>2, <1>4
<1>5. CASE LockRequest(t) /\ ~ End(t, "failed")
  <2>1. PICK y : y = [tx[t] EXCEPT !.row = requests[Id(t)], !.locked = {Id(t)}, !.pc = "snapshot"]
      OBVIOUS
  <2>2. tx' = [tx EXCEPT ![t] = y]
      BY <1>5, <2>1 DEF LockRequest
  <2>3. y.call = tx[t].call /\ y.entries = tx[t].entries
      BY <2>1, <1>2 DEF TxType
  <2> QED
      BY <1>1, <1>4, <2>2, <2>3
<1>6. CASE MissSnapshot(t)
  <2>1. PICK sum : tx' = [tx EXCEPT ![t] = [tx[t] EXCEPT !.sum = sum, !.pc = "insert"]]
      BY <1>6 DEF MissSnapshot
  <2>2. PICK y : y = [tx[t] EXCEPT !.sum = sum, !.pc = "insert"]
      OBVIOUS
  <2>3. y.call = tx[t].call /\ y.entries = tx[t].entries
      BY <2>2, <1>2 DEF TxType
  <2> QED
      BY <1>1, <1>4, <2>1, <2>2, <2>3
<1>7. CASE Flush(t)
  <2>1. PICK y : y = [tx[t] EXCEPT !.locked = {Id(t)}, !.pc = "commit"]
      OBVIOUS
  <2>2. y.call = tx[t].call /\ y.entries = tx[t].entries
      BY <2>1, <1>2 DEF TxType
  <2> QED
      BY <1>1, <1>4, <1>7, <2>1, <2>2 DEF Flush
<1>8. ASSUME NEW row, NEW label,
             tx' = [tx EXCEPT ![t] = [tx[t] EXCEPT !.mine[Account(t)] = row, !.pc = label]]
      PROVE  /\ tx'[t].call.op # "job" /\ tx'[t].entries \subseteq tx[t].entries
             /\ \A u \in Txns \ {t} : tx'[u] = tx[u]
  <2>1. PICK y : y = [tx[t] EXCEPT !.mine[Account(t)] = row, !.pc = label]
      OBVIOUS
  <2>2. y.call = tx[t].call /\ y.entries = tx[t].entries
      BY <2>1, <1>2 DEF TxType
  <2> QED
      BY <1>4, <1>8, <2>1, <2>2
<1>9. CASE (LockSnapshot(t) \/ InsertSnapshot(t)) /\ ~ End(t, "failed")
  <2>1. \E row : tx' = [tx EXCEPT ![t] = [tx[t] EXCEPT !.mine[Account(t)] = row, !.pc = "check"]]
      BY <1>9 DEF LockSnapshot, InsertSnapshot
  <2> QED
      BY <1>1, <1>8, <2>1
<1>10. ASSUME NEW minutes, NEW label, Hold(t, minutes, label)
       PROVE  /\ tx'[t].call.op # "job" /\ tx'[t].entries \subseteq tx[t].entries
              /\ \A u \in Txns \ {t} : tx'[u] = tx[u]
  <2>1. \E row : tx' = [tx EXCEPT ![t] = [tx[t] EXCEPT !.mine[Account(t)] = row, !.pc = label]]
      BY <1>10 DEF Hold
  <2> QED
      BY <1>8, <2>1
<1>11. ASSUME NEW type \in {"REQUEST", "REQUEST_CANCELLATION"}, NEW sign \in {-1, 1}, NEW minutes,
              NEW label, PostLegs(t, Legs(type, Id(t), tx[t].row, sign), minutes, label)
       PROVE  /\ tx'[t].call.op # "job"
              /\ \A u \in Txns \ {t} : tx'[u] = tx[u]
              /\ \E legs : /\ tx'[t].entries \subseteq Post(ledger, legs)
                           /\ OneEntryPerSource(legs)
                           /\ \A x \in tx'[t].entries : x \in legs
                           /\ \A x \in legs : SourceFree(x.source, t)
  <2>1. PICK legs : legs = Legs(type, Id(t), tx[t].row, sign)
      OBVIOUS
  <2>2. PICK posted : posted = Post(ledger, legs) \ ledger
      OBVIOUS
  <2>3. /\ \A x \in legs : SourceFree(x.source, t)
        /\ \E row : tx' = [tx EXCEPT ![t] = [tx[t] EXCEPT !.entries = posted, !.pc = label,
                                                          !.mine[Account(t)] = row]]
      BY <1>11, <2>1, <2>2 DEF PostLegs
  <2>4. PICK y : tx' = [tx EXCEPT ![t] = y] /\ y.entries = posted /\ y.call = tx[t].call
      BY <1>2, <2>3 DEF TxType
  <2>5. OneEntryPerSource(legs)
      BY <1>2, <2>1, LegsOnePerSource
  <2>6. posted \subseteq Post(ledger, legs) /\ \A x \in posted : x \in legs
      BY <2>2 DEF Post
  <2> QED
      BY <1>2, <2>3, <2>4, <2>5, <2>6
<1>12. CASE (CheckSubmit(t) \/ CheckDeny(t)) /\ ~ End(t, "failed")
  <2>1. \E minutes, label : Hold(t, minutes, label)
      BY <1>12 DEF CheckSubmit, CheckDeny
  <2> QED
      BY <1>1, <1>10, <2>1
<1>13. CASE CheckApprove(t) /\ ~ End(t, "failed")
  <2>1. \/ \E minutes, label : Hold(t, minutes, label)
        \/ \E minutes, label : PostLegs(t, Legs("REQUEST", Id(t), tx[t].row, -1), minutes, label)
      BY <1>13 DEF CheckApprove, DebitLegs
  <2> QED
      BY <1>1, <1>10, <1>11, <2>1
<1>14. CASE CheckCancel(t)
  <2>1. \/ \E minutes, label : Hold(t, minutes, label)
        \/ \E minutes, label :
              PostLegs(t, Legs("REQUEST_CANCELLATION", Id(t), tx[t].row, 1), minutes, label)
      BY <1>14 DEF CheckCancel, ReversalLegs
  <2> QED
      BY <1>1, <1>10, <1>11, <2>1
<1> QED
    BY <1>3, <1>5, <1>6, <1>7, <1>9, <1>12, <1>13, <1>14

LEMMA BeginPosts ==
    ASSUME TxInv, NEW t \in Txns, Begin(t) \/ Crash(t) \/ AbortDeadlocked(t)
    PROVE  /\ UNCHANGED vars /\ tx'[t].entries = {} /\ tx'[t].pc # "upsert"
           /\ \A a \in Accounts : tx'[t].mine[a] = None
           /\ \A u \in Txns \ {t} : tx'[u] = tx[u]
<1>1. tx \in [Txns -> TxType] /\ tx[t] \in TxType
    BY DEF TxInv, TypeInv
<1>2. CASE Crash(t) \/ AbortDeadlocked(t)
  <2>1. PICK y : y = [NoTx EXCEPT !.pc = "failed", !.call = tx[t].call]
      OBVIOUS
  <2>2. /\ y.entries = {} /\ y.pc = "failed" /\ \A a \in Accounts : y.mine[a] = None
      BY <2>1 DEF NoTx
  <2>3. tx' = [tx EXCEPT ![t] = y] /\ UNCHANGED vars
      BY <1>2, <2>1 DEF Crash, AbortDeadlocked, End
  <2> QED
      BY <1>1, <2>2, <2>3
<1>3. CASE Begin(t)
  <2>1. PICK c \in Calls[t] :
            BeginSubmit(t, c) \/ BeginDecide(t, c) \/ BeginCancel(t, c) \/ BeginJob(t, c)
      BY <1>3 DEF Begin
  <2>2. tx[t].entries = {} /\ UNCHANGED vars /\ \A a \in Accounts : tx[t].mine[a] = None
      BY <2>1, IdleHoldsNothing DEF BeginSubmit, BeginDecide, BeginCancel, BeginJob
  <2>3. ASSUME NEW y, tx' = [tx EXCEPT ![t] = y], y.entries = tx[t].entries, y.mine = tx[t].mine,
               y.pc # "upsert"
        PROVE  /\ tx'[t].entries = {} /\ tx'[t].pc # "upsert"
               /\ \A a \in Accounts : tx'[t].mine[a] = None
               /\ \A u \in Txns \ {t} : tx'[u] = tx[u]
      BY <1>1, <2>2, <2>3
  <2>4. \E row, pc : /\ pc # "upsert"
                     /\ \/ tx' = [tx EXCEPT ![t] = [tx[t] EXCEPT !.call = c, !.row = row, !.pc = pc]]
                        \/ tx' = [tx EXCEPT ![t] = [tx[t] EXCEPT !.call = c, !.pc = pc]]
    <3>1. CASE BeginSubmit(t, c)
      <4>1. \E row : \/ tx' = [tx EXCEPT ![t] =
                               [tx[t] EXCEPT !.call = c, !.row = row, !.pc = "snapshot"]]
                     \/ tx' = [tx EXCEPT ![t] = [tx[t] EXCEPT !.call = c, !.pc = "failed"]]
          BY <3>1 DEF BeginSubmit
      <4> QED
          BY <4>1
    <3>2. CASE BeginDecide(t, c) \/ BeginCancel(t, c) \/ BeginJob(t, c)
        BY <3>2 DEF BeginDecide, BeginCancel, BeginJob
    <3> QED
        BY <2>1, <3>1, <3>2
  <2>5. PICK row, pc : /\ pc # "upsert"
                       /\ \/ tx' = [tx EXCEPT ![t] =
                                [tx[t] EXCEPT !.call = c, !.row = row, !.pc = pc]]
                          \/ tx' = [tx EXCEPT ![t] = [tx[t] EXCEPT !.call = c, !.pc = pc]]
      BY <2>4
  <2>6. PICK y : /\ tx' = [tx EXCEPT ![t] = y] /\ y.entries = tx[t].entries
                 /\ y.mine = tx[t].mine /\ y.pc # "upsert"
    <3>1. CASE tx' = [tx EXCEPT ![t] = [tx[t] EXCEPT !.call = c, !.row = row, !.pc = pc]]
      <4>1. PICK y : y = [tx[t] EXCEPT !.call = c, !.row = row, !.pc = pc]
          OBVIOUS
      <4>2. y.entries = tx[t].entries /\ y.mine = tx[t].mine /\ y.pc = pc
          BY <1>1, <4>1 DEF TxType
      <4> QED
          BY <2>5, <3>1, <4>1, <4>2
    <3>2. CASE tx' = [tx EXCEPT ![t] = [tx[t] EXCEPT !.call = c, !.pc = pc]]
      <4>1. PICK y : y = [tx[t] EXCEPT !.call = c, !.pc = pc]
          OBVIOUS
      <4>2. y.entries = tx[t].entries /\ y.mine = tx[t].mine /\ y.pc = pc
          BY <1>1, <4>1 DEF TxType
      <4> QED
          BY <2>5, <3>2, <4>1, <4>2
    <3> QED
        BY <2>5, <3>1, <3>2
  <2> QED
      BY <2>2, <2>3, <2>6
<1> QED
    BY <1>2, <1>3

(* A job posts under a free key, and sums its own account with the entry.  *)
LEMMA InsertPosts ==
    ASSUME TxInv, NEW t \in Txns, JobInsert(t)
    PROVE  /\ UNCHANGED vars /\ \A u \in Txns \ {t} : tx'[u] = tx[u]
           /\ tx'[t].mine = tx[t].mine /\ tx'[t].call = tx[t].call
           /\ \/ tx'[t].entries = tx[t].entries /\ tx'[t].pc # "upsert"
              \/ \E entry : /\ ~ IsPosted(Own(t), entry.source) /\ SourceFree(entry.source, t)
                            /\ tx'[t].entries = tx[t].entries \cup {entry}
                            /\ entry.account = PostOf(t).account /\ tx'[t].next = tx[t].next
                            /\ tx'[t].sum = Balance(ledger \cup tx'[t].entries, entry.account)
<1>1. /\ tx[t].pc = "job" /\ UNCHANGED vars /\ tx[t] \in TxType /\ tx \in [Txns -> TxType]
    BY AtPost DEF JobInsert, TxInv, TypeInv
<1>2. PICK entry : entry = JobEntryOf(PostOf(t))
    OBVIOUS
<1>3. entry.account = PostOf(t).account
    BY <1>2 DEF JobEntryOf, JobEntry
<1>4. SourceFree(entry.source, t)
    BY <1>2 DEF JobInsert
<1>5. CASE Post(Own(t), {entry}) = Own(t)
  <2>1. PICK next, pc : pc # "upsert" /\ tx' = [tx EXCEPT ![t] = [tx[t] EXCEPT !.next = next, !.pc = pc]]
    <3>1. PICK next, pc : next = tx[t].next + 1 /\ pc = AfterPost(t, next)
        OBVIOUS
    <3>2. pc # "upsert"
        BY <3>1 DEF AfterPost
    <3>3. tx' = [tx EXCEPT ![t] = [tx[t] EXCEPT !.next = next, !.pc = pc]]
        BY <1>2, <1>5, <3>1 DEF JobInsert
    <3> QED
        BY <3>2, <3>3
  <2>2. PICK y : y = [tx[t] EXCEPT !.next = next, !.pc = pc]
      OBVIOUS
  <2>3. /\ y.mine = tx[t].mine /\ y.call = tx[t].call /\ y.entries = tx[t].entries /\ y.pc = pc
      BY <1>1, <2>2 DEF TxType
  <2> QED
      BY <1>1, <2>1, <2>2, <2>3
<1>6. CASE Post(Own(t), {entry}) # Own(t)
  <2>1. ~ IsPosted(Own(t), entry.source) /\ Post(Own(t), {entry}) = Own(t) \cup {entry}
      BY <1>6 DEF Post
  <2>2. PICK sum : sum = Balance(Own(t) \cup {entry}, entry.account)
      OBVIOUS
  <2>3. PICK y : y = [tx[t] EXCEPT !.entries = tx[t].entries \cup {entry}, !.sum = sum,
                                   !.pc = "upsert"]
      OBVIOUS
  <2>4. /\ y.mine = tx[t].mine /\ y.call = tx[t].call /\ y.next = tx[t].next
        /\ y.entries = tx[t].entries \cup {entry} /\ y.sum = sum
      BY <1>1, <2>3 DEF TxType
  <2>5. tx' = [tx EXCEPT ![t] = y]
      BY <1>2, <1>6, <2>1, <2>2, <2>3 DEF JobInsert
  <2>6. ledger \cup y.entries = Own(t) \cup {entry}
      BY <2>4 DEF Own
  <2>7. tx'[t] = y /\ \A u \in Txns \ {t} : tx'[u] = tx[u]
      BY <1>1, <2>5
  <2>8. tx'[t].sum = Balance(ledger \cup tx'[t].entries, entry.account)
      BY <2>2, <2>4, <2>6, <2>7
  <2> QED
      BY <1>1, <1>3, <1>4, <2>1, <2>4, <2>7, <2>8
<1> QED
    BY <1>5, <1>6

LEMMA UpsertPosts ==
    ASSUME TxInv, NEW t \in Txns, JobUpsert(t)
    PROVE  /\ UNCHANGED vars /\ \A u \in Txns \ {t} : tx'[u] = tx[u]
           /\ tx'[t].entries = tx[t].entries /\ tx'[t].call = tx[t].call
           /\ tx'[t].pc # "upsert" /\ tx[t].pc = "upsert"
           /\ tx'[t].mine[PostOf(t).account].balance = tx[t].sum
           /\ \A a \in Accounts : a # PostOf(t).account => tx'[t].mine[a] = tx[t].mine[a]
<1>1. /\ tx[t].pc = "upsert" /\ UNCHANGED vars /\ tx[t] \in TxType /\ tx \in [Txns -> TxType]
      /\ PostOf(t).account \in Accounts
    BY AtPost DEF JobUpsert, TxInv, TypeInv
<1>2. PICK a \in Accounts : a = PostOf(t).account
    BY <1>1
<1>3. PICK held : held = IF tx[t].mine[a] # None THEN tx[t].mine[a].hold
                         ELSE IF snapshots[a] # None THEN snapshots[a].hold ELSE 0
    OBVIOUS
<1>4. PICK row : row = [balance |-> tx[t].sum, hold |-> held]
    OBVIOUS
<1>5. PICK next, pc : /\ pc # "upsert"
                      /\ tx' = [tx EXCEPT ![t] =
                             [tx[t] EXCEPT !.mine[a] = row, !.next = next, !.pc = pc]]
  <2>1. PICK next, pc : next = tx[t].next + 1 /\ pc = AfterPost(t, next)
      OBVIOUS
  <2>2. pc # "upsert"
      BY <2>1 DEF AfterPost
  <2>3. tx' = [tx EXCEPT ![t] = [tx[t] EXCEPT !.mine[a] = row, !.next = next, !.pc = pc]]
      BY <1>2, <1>3, <1>4, <2>1 DEF JobUpsert
  <2> QED
      BY <2>2, <2>3
<1>6. PICK y : y = [tx[t] EXCEPT !.mine[a] = row, !.next = next, !.pc = pc]
    OBVIOUS
<1>7. /\ y.entries = tx[t].entries /\ y.call = tx[t].call /\ y.pc = pc /\ y.mine[a] = row
      /\ \A b \in Accounts : b # a => y.mine[b] = tx[t].mine[b]
    BY <1>1, <1>6 DEF TxType
<1>8. tx'[t] = y /\ \A u \in Txns \ {t} : tx'[u] = tx[u]
    BY <1>1, <1>5, <1>6
<1>9. row.balance = tx[t].sum
    BY <1>4
<1> QED
    BY <1>1, <1>2, <1>5, <1>7, <1>8, <1>9

LEMMA KeysQuietly ==
    ASSUME KeysInv, NEW t \in Txns, UNCHANGED ledger, \A u \in Txns \ {t} : tx'[u] = tx[u],
           OneEntryPerSource(ledger \cup tx'[t].entries),
           \A u \in Txns \ {t} : \A x \in tx'[t].entries, y \in tx[u].entries :
              x.source # y.source
    PROVE  KeysInv'
<1>1. OneEntryPerSource(ledger)'
    BY DEF KeysInv, OneEntryPerSource
<1>2. ASSUME NEW u \in Txns PROVE OneEntryPerSource(ledger \cup tx[u].entries)'
  <2>1. CASE u = t
      BY <2>1 DEF OneEntryPerSource
  <2>2. CASE u # t
      BY <2>2 DEF KeysInv, OneEntryPerSource
  <2> QED
      BY <2>1, <2>2
<1>3. ASSUME NEW u \in Txns, NEW w \in Txns, u # w,
             NEW x \in tx'[u].entries, NEW y \in tx'[w].entries
      PROVE  x.source # y.source
  <2>1. CASE u = t
      BY <1>3, <2>1
  <2>2. CASE w = t
      BY <1>3, <2>2
  <2>3. CASE u # t /\ w # t
      BY <1>3, <2>3 DEF KeysInv
  <2> QED
      BY <2>1, <2>2, <2>3
<1> QED
    BY <1>1, <1>2, <1>3 DEF KeysInv

LEMMA KeysCommit ==
    ASSUME KeysInv, NEW t \in Txns, ledger' = ledger \cup tx[t].entries, tx'[t].entries = {},
           \A u \in Txns \ {t} : tx'[u] = tx[u]
    PROVE  KeysInv'
<1>1. OneEntryPerSource(ledger)'
    BY DEF KeysInv, OneEntryPerSource
<1>2. ASSUME NEW u \in Txns PROVE OneEntryPerSource(ledger \cup tx[u].entries)'
  <2>1. CASE u = t
      BY <1>1, <2>1 DEF OneEntryPerSource
  <2>2. CASE u # t
      BY <2>2 DEF KeysInv, OneEntryPerSource
  <2> QED
      BY <2>1, <2>2
<1>3. ASSUME NEW u \in Txns, NEW w \in Txns, u # w,
             NEW x \in tx'[u].entries, NEW y \in tx'[w].entries
      PROVE  x.source # y.source
  <2>1. u # t /\ w # t
      BY <1>3
  <2> QED
      BY <1>3, <2>1 DEF KeysInv
<1> QED
    BY <1>1, <1>2, <1>3 DEF KeysInv

(* An end holds nothing. *)
LEMMA CommitEnds ==
    ASSUME TxInv, NEW t \in Txns, CommitRequest(t) \/ CommitJob(t)
    PROVE  /\ tx'[t].entries = {} /\ \A a \in Accounts : tx'[t].mine[a] = None
           /\ tx'[t].pc # "upsert" /\ ledger' = ledger \cup tx[t].entries
           /\ \A u \in Txns \ {t} : tx'[u] = tx[u]
<1>1. tx \in [Txns -> TxType]
    BY DEF TxInv, TypeInv
<1>2. PICK y : y = [NoTx EXCEPT !.pc = "committed", !.call = tx[t].call]
    OBVIOUS
<1>3. /\ y.entries = {} /\ y.pc = "committed" /\ \A a \in Accounts : y.mine[a] = None
    BY <1>2 DEF NoTx
<1>4. tx' = [tx EXCEPT ![t] = y] /\ ledger' = ledger \cup tx[t].entries
    BY <1>2 DEF CommitRequest, CommitJob, End
<1> QED
    BY <1>1, <1>3, <1>4

LEMMA KeysStep == TxInv /\ KeysInv /\ [TxNext]_txVars => KeysInv'
<1> SUFFICES ASSUME TxInv, KeysInv, [TxNext]_txVars PROVE KeysInv'
    OBVIOUS
<1>1. CASE UNCHANGED txVars
    BY <1>1 DEF KeysInv, OneEntryPerSource, txVars, vars
<1>2. ASSUME NEW t \in Txns, Begin(t) \/ Crash(t) \/ AbortDeadlocked(t) PROVE KeysInv'
  <2>1. /\ UNCHANGED ledger /\ tx'[t].entries = {} /\ \A u \in Txns \ {t} : tx'[u] = tx[u]
      BY <1>2, BeginPosts DEF vars
  <2>2. OneEntryPerSource(ledger \cup tx'[t].entries)
      BY <2>1 DEF KeysInv, OneEntryPerSource
  <2> QED
      BY <2>1, <2>2, KeysQuietly
<1>3. ASSUME NEW t \in Txns,
             \/ LockRequest(t) \/ LockSnapshot(t) \/ MissSnapshot(t) \/ InsertSnapshot(t)
             \/ CheckSubmit(t) \/ CheckApprove(t) \/ CheckDeny(t) \/ CheckCancel(t) \/ Flush(t)
      PROVE  KeysInv'
  <2>1. /\ UNCHANGED ledger
        /\ \A u \in Txns \ {t} : tx'[u] = tx[u]
        /\ \/ tx'[t].entries \subseteq tx[t].entries
           \/ \E legs : /\ tx'[t].entries \subseteq Post(ledger, legs)
                        /\ OneEntryPerSource(legs)
                        /\ \A x \in tx'[t].entries : x \in legs
                        /\ \A x \in legs : SourceFree(x.source, t)
      BY <1>3, HandlersPost DEF vars
  <2>2. CASE tx'[t].entries \subseteq tx[t].entries
    <3>1. OneEntryPerSource(ledger \cup tx'[t].entries)
        BY <2>2 DEF KeysInv, OneEntryPerSource
    <3>2. \A u \in Txns \ {t} : \A x \in tx'[t].entries, y \in tx[u].entries : x.source # y.source
        BY <2>2 DEF KeysInv
    <3> QED
        BY <2>1, <3>1, <3>2, KeysQuietly
  <2>3. ASSUME NEW legs, tx'[t].entries \subseteq Post(ledger, legs), OneEntryPerSource(legs),
               \A x \in tx'[t].entries : x \in legs, \A x \in legs : SourceFree(x.source, t)
        PROVE  KeysInv'
    <3>1. OneEntryPerSource(Post(ledger, legs)) /\ ledger \subseteq Post(ledger, legs)
        BY <2>3, PostKeepsSources DEF KeysInv, Post
    <3>2. OneEntryPerSource(ledger \cup tx'[t].entries)
        BY <2>3, <3>1 DEF OneEntryPerSource
    <3>3. \A u \in Txns \ {t} : \A x \in tx'[t].entries, y \in tx[u].entries : x.source # y.source
        BY <2>3 DEF SourceFree, IsPosted
    <3> QED
        BY <2>1, <3>2, <3>3, KeysQuietly
  <2> QED
      BY <2>1, <2>2, <2>3
<1>4. ASSUME NEW t \in Txns, JobInsert(t) PROVE KeysInv'
  <2>1. /\ UNCHANGED ledger
        /\ \A u \in Txns \ {t} : tx'[u] = tx[u]
        /\ \/ tx'[t].entries = tx[t].entries
           \/ \E entry : /\ ~ IsPosted(Own(t), entry.source) /\ SourceFree(entry.source, t)
                         /\ tx'[t].entries = tx[t].entries \cup {entry}
      BY <1>4, InsertPosts DEF vars
  <2>2. CASE tx'[t].entries = tx[t].entries
    <3>1. OneEntryPerSource(ledger \cup tx'[t].entries)
        BY <2>2 DEF KeysInv
    <3> QED
        BY <2>1, <2>2, <3>1, KeysQuietly DEF KeysInv
  <2>3. ASSUME NEW entry, ~ IsPosted(Own(t), entry.source), SourceFree(entry.source, t),
               tx'[t].entries = tx[t].entries \cup {entry}
        PROVE  KeysInv'
    <3>1. OneEntryPerSource(ledger \cup tx'[t].entries)
        BY <2>3 DEF KeysInv, OneEntryPerSource, Own, IsPosted
    <3>2. \A u \in Txns \ {t} : \A x \in tx'[t].entries, y \in tx[u].entries : x.source # y.source
        BY <2>3 DEF KeysInv, SourceFree, IsPosted
    <3> QED
        BY <2>1, <3>1, <3>2, KeysQuietly
  <2> QED
      BY <2>1, <2>2, <2>3
<1>5. ASSUME NEW t \in Txns, JobUpsert(t) PROVE KeysInv'
  <2>1. /\ UNCHANGED ledger /\ tx'[t].entries = tx[t].entries
        /\ \A u \in Txns \ {t} : tx'[u] = tx[u]
      BY <1>5, UpsertPosts DEF vars
  <2>2. OneEntryPerSource(ledger \cup tx'[t].entries)
      BY <2>1 DEF KeysInv
  <2> QED
      BY <2>1, <2>2, KeysQuietly DEF KeysInv
<1>6. ASSUME NEW t \in Txns, CommitRequest(t) \/ CommitJob(t) PROVE KeysInv'
    BY <1>6, CommitEnds, KeysCommit
<1> QED
    BY <1>1, <1>2, <1>3, <1>4, <1>5, <1>6 DEF TxNext, Work, AllServed

LEMMA CountQuietly ==
    ASSUME CountInv, NEW t \in Txns, UNCHANGED <<ledger, snapshots>>,
           \A u \in Txns \ {t} : tx'[u] = tx[u], JobCounts(ledger, tx'[t])
    PROVE  CountInv'
<1>1. ASSUME NEW a \in Accounts PROVE Shown(a)'
  <2>1. Shown(a)
      BY DEF CountInv
  <2> QED
      BY <2>1 DEF Shown
<1>2. ASSUME NEW u \in Txns PROVE JobCounts(ledger, tx[u])'
  <2>1. CASE u = t
      BY <2>1 DEF JobCounts
  <2>2. CASE u # t
    <3>1. JobCounts(ledger, tx[u])
        BY DEF CountInv
    <3> QED
        BY <2>2, <3>1 DEF JobCounts
  <2> QED
      BY <2>1, <2>2
<1> QED
    BY <1>1, <1>2 DEF CountInv

LEMMA CountCommit ==
    ASSUME CountInv, NEW t \in Txns, \A a \in Accounts : Shown(a)', ledger \subseteq ledger',
           \A u \in Txns \ {t} : tx'[u] = tx[u],
           \A a \in Accounts : tx'[t].mine[a] = None, tx'[t].pc # "upsert"
    PROVE  CountInv'
<1>1. PICK L, M : L = ledger /\ M = ledger'
    OBVIOUS
<1>2. ASSUME NEW u \in Txns PROVE JobCounts(ledger, tx[u])'
  <2>1. CASE u = t
      BY <2>1 DEF JobCounts
  <2>2. CASE u # t
    <3>1. PICK x : x = tx[u]
        OBVIOUS
    <3>2. JobCounts(L, x)
        BY <1>1, <3>1 DEF CountInv
    <3>3. JobCounts(M, x)
        BY <1>1, <3>2, JobCountsGrow
    <3> QED
        BY <1>1, <2>2, <3>1, <3>3 DEF JobCounts
  <2> QED
      BY <2>1, <2>2
<1> QED
    BY <1>2 DEF CountInv

(* A handler stores the balance it found, or the sum with its own legs.    *)
LEMMA HandlersShow ==
    ASSUME TxInv, CountInv, NEW t \in Txns, CommitRequest(t), NEW b \in Accounts
    PROVE  Shown(b)'
<1>1. PICK x : x = tx[t]
    OBVIOUS
<1>2. PICK a \in Accounts : a = x.row.account
    BY <1>1, CommitIs
<1>3. PICK row : row = x.mine[a]
    OBVIOUS
<1>4. /\ TypeOK /\ Writes(x) /\ x.row \in RequestType
      /\ ledger' = ledger \cup x.entries /\ snapshots' = [snapshots EXCEPT ![a] = row]
      /\ x.call.op \in {"submit", "approve", "deny", "cancel"} /\ x.call.request \in Requests
    BY <1>1, <1>2, <1>3, CommitIs
<1>5. PICK shown \in SnapshotType : shown = Snapshot(a)
    BY <1>4, SnapshotRowType
<1>6. row \in SnapshotType \cup {None} /\ row # None
  <2>1. tx[t].pc = "commit" /\ tx[t].call.op # "job"
      BY <1>1, <1>4, CommitIs
  <2>2. tx[t] \in TxType /\ Shaped(t, tx[t])
      BY DEF TxInv, TypeInv
  <2> QED
      BY <1>1, <1>2, <1>3, <2>1, <2>2 DEF Shaped, TxType
<1>7. Shown(a) /\ Shown(b)
    BY DEF CountInv
<1>8. /\ \/ x.entries = {} /\ row.balance = shown.balance
         \/ row.balance = Balance(ledger \cup x.entries, a)
      /\ \A y \in x.entries : y.account = a
  <2>1. ASSUME NEW minutes, row = Moved(a, minutes) PROVE row.balance = shown.balance
      BY <1>5, <2>1 DEF Moved, SnapshotType
  <2>2. ASSUME NEW minutes, Holds(x, minutes)
        PROVE  x.entries = {} /\ row.balance = shown.balance
      BY <1>2, <1>3, <2>1, <2>2 DEF Holds
  <2>3. ASSUME NEW type \in {"REQUEST", "REQUEST_CANCELLATION"}, NEW sign \in {-1, 1},
               NEW minutes, Posts(x, Legs(type, x.call.request, x.row, sign), minutes)
        PROVE  /\ \/ x.entries = {} /\ row.balance = shown.balance
                  \/ row.balance = Balance(ledger \cup x.entries, a)
               /\ \A y \in x.entries : y.account = a
    <3>1. PICK legs : legs = Legs(type, x.call.request, x.row, sign)
        OBVIOUS
    <3>2. x.entries = Post(ledger, legs) \ ledger /\ row = Charged(a, legs, minutes)
        BY <1>2, <1>3, <2>3, <3>1 DEF Posts
    <3>3. \A y \in x.entries : y.account = a
        BY <1>2, <1>4, <3>1, <3>2, LegsType DEF Post
    <3>4. CASE x.entries = {}
        BY <2>1, <3>2, <3>3, <3>4 DEF Charged
    <3>5. CASE x.entries # {}
      <4>1. row = [Moved(a, minutes) EXCEPT !.balance = Balance(ledger \cup x.entries, a)]
          BY <3>2, <3>5 DEF Charged
      <4>2. PICK moved, n : moved = Moved(a, minutes) /\ n = Balance(ledger \cup x.entries, a)
          OBVIOUS
      <4>3. moved = [shown EXCEPT !.hold = @ + minutes]
          BY <1>5, <4>2 DEF Moved
      <4>4. row = [moved EXCEPT !.balance = n]
          BY <4>1, <4>2
      <4>5. row.balance = n
          BY <4>3, <4>4 DEF SnapshotType
      <4> QED
          BY <3>3, <4>2, <4>5
    <3> QED
        BY <3>4, <3>5
  <2>4. CASE x.call.op = "submit"
      BY <2>2, <2>4, <1>4 DEF Writes
  <2>5. CASE x.call.op = "deny"
      BY <2>2, <2>5, <1>4 DEF Writes
  <2>6. CASE x.call.op = "approve"
    <3>1. \/ Holds(x, 0)
          \/ Posts(x, Legs("REQUEST", x.call.request, x.row, -1), -Total(x.row))
        BY <1>4, <2>6 DEF Writes, DebitLegs
    <3> QED
        BY <2>2, <2>3, <3>1
  <2>7. CASE x.call.op = "cancel"
    <3>1. \/ Holds(x, -Total(x.row))
          \/ Posts(x, Legs("REQUEST_CANCELLATION", x.call.request, x.row, 1), 0)
        BY <1>4, <2>7 DEF Writes, ReversalLegs
    <3> QED
        BY <2>2, <2>3, <3>1
  <2> QED
      BY <1>4, <2>4, <2>5, <2>6, <2>7
<1>9. CASE b # a
  <2>1. EntriesOf(ledger', b) = EntriesOf(ledger, b)
      BY <1>4, <1>8, <1>9 DEF EntriesOf
  <2>2. snapshots'[b] = snapshots[b]
      BY <1>4, <1>9 DEF TypeOK
  <2>3. \A n : CountsIn(ledger', b, n) <=> CountsIn(ledger, b, n)
      BY <2>1 DEF CountsIn
  <2>4. PICK L : L = ledger'
      OBVIOUS
  <2>5. EntriesOf(L, b) # {} => snapshots'[b] # None /\ CountsIn(L, b, snapshots'[b].balance)
      BY <1>7, <2>1, <2>2, <2>3, <2>4 DEF Shown
  <2> QED
      BY <2>4, <2>5 DEF Shown, CountsIn, EntriesOf
<1>10. CASE b = a
  <2>1. snapshots'[a] = row
      BY <1>4 DEF TypeOK
  <2>2. PICK L : L = ledger'
      OBVIOUS
  <2>3. ASSUME EntriesOf(L, a) # {} PROVE CountsIn(L, a, row.balance)
    <3>1. CASE x.entries = {} /\ row.balance = shown.balance
      <4>1. L = ledger
          BY <1>4, <2>2, <3>1
      <4>2. snapshots[a] # None /\ CountsIn(ledger, a, snapshots[a].balance)
          BY <1>7, <2>3, <4>1 DEF Shown
      <4>3. shown = snapshots[a]
          BY <1>5, <4>2 DEF Snapshot
      <4> QED
          BY <3>1, <4>1, <4>2, <4>3
    <3>2. CASE row.balance = Balance(ledger \cup x.entries, a)
      <4>1. row.balance = Balance(L, a)
          BY <1>4, <2>2, <3>2
      <4> QED
          BY <2>3, <4>1, AllCount
    <3> QED
        BY <1>8, <3>1, <3>2
  <2>4. EntriesOf(L, a) # {} => snapshots'[a] # None /\ CountsIn(L, a, snapshots'[a].balance)
      BY <1>6, <2>1, <2>3
  <2> QED
      BY <1>10, <2>2, <2>4 DEF Shown, CountsIn, EntriesOf
<1> QED
    BY <1>9, <1>10

(* A job stores what it counted; elsewhere it has posted nothing.          *)
LEMMA JobsShow ==
    ASSUME TxInv, CountInv, NEW t \in Txns, CommitJob(t), NEW a \in Accounts
    PROVE  Shown(a)'
<1>1. /\ tx[t].pc = "commit" /\ tx[t].call.op = "job"
      /\ ledger' = ledger \cup tx[t].entries
      /\ snapshots' = [b \in Accounts |->
            IF tx[t].mine[b] = None THEN snapshots[b] ELSE tx[t].mine[b]]
    BY DEF CommitJob, Op
<1>2. PICK x, L : x = tx[t] /\ L = ledger'
    OBVIOUS
<1>3. JobCounts(ledger, x) /\ JobRows(x) /\ Shown(a)
    BY <1>2 DEF CountInv, TxInv, WriteInv
<1>4. L = ledger \cup x.entries
    BY <1>1, <1>2
<1>5. CASE x.mine[a] # None
  <2>1. snapshots'[a] = x.mine[a]
      BY <1>1, <1>2, <1>5
  <2>2. CountsIn(L, a, x.mine[a].balance)
      BY <1>1, <1>2, <1>3, <1>4, <1>5 DEF JobCounts
  <2> QED
      BY <1>2, <1>5, <2>1, <2>2 DEF Shown, CountsIn, EntriesOf
<1>6. CASE x.mine[a] = None
  <2>1. \A y \in x.entries : y.account # a
      BY <1>1, <1>2, <1>3, <1>6 DEF JobRows
  <2>2. EntriesOf(L, a) = EntriesOf(ledger, a) /\ snapshots'[a] = snapshots[a]
      BY <1>1, <1>2, <1>4, <1>6, <2>1 DEF EntriesOf
  <2>3. EntriesOf(L, a) # {} => snapshots'[a] # None /\ CountsIn(L, a, snapshots'[a].balance)
      BY <1>3, <2>2 DEF Shown, CountsIn
  <2> QED
      BY <1>2, <2>3 DEF Shown, CountsIn, EntriesOf
<1> QED
    BY <1>5, <1>6

LEMMA CountStep == TxInv /\ CountInv /\ [TxNext]_txVars => CountInv'
<1> SUFFICES ASSUME TxInv, CountInv, [TxNext]_txVars PROVE CountInv'
    OBVIOUS
<1>1. CASE UNCHANGED txVars
    BY <1>1 DEF CountInv, Shown, JobCounts, txVars, vars
<1>2. ASSUME NEW t \in Txns, Begin(t) \/ Crash(t) \/ AbortDeadlocked(t) PROVE CountInv'
  <2>1. /\ UNCHANGED <<ledger, snapshots>> /\ \A u \in Txns \ {t} : tx'[u] = tx[u]
        /\ tx'[t].pc # "upsert" /\ \A a \in Accounts : tx'[t].mine[a] = None
      BY <1>2, BeginPosts DEF vars
  <2>2. JobCounts(ledger, tx'[t])
      BY <2>1 DEF JobCounts
  <2> QED
      BY <2>1, <2>2, CountQuietly
<1>3. ASSUME NEW t \in Txns,
             \/ LockRequest(t) \/ LockSnapshot(t) \/ MissSnapshot(t) \/ InsertSnapshot(t)
             \/ CheckSubmit(t) \/ CheckApprove(t) \/ CheckDeny(t) \/ CheckCancel(t) \/ Flush(t)
      PROVE  CountInv'
  <2>1. /\ UNCHANGED <<ledger, snapshots>> /\ \A u \in Txns \ {t} : tx'[u] = tx[u]
        /\ tx'[t].call.op # "job"
      BY <1>3, HandlersPost DEF vars
  <2>2. JobCounts(ledger, tx'[t])
      BY <2>1 DEF JobCounts
  <2> QED
      BY <2>1, <2>2, CountQuietly
<1>4. ASSUME NEW t \in Txns, JobInsert(t) PROVE CountInv'
  <2>1. /\ UNCHANGED <<ledger, snapshots>> /\ \A u \in Txns \ {t} : tx'[u] = tx[u]
        /\ tx'[t].mine = tx[t].mine /\ tx'[t].call = tx[t].call
        /\ \/ tx'[t].entries = tx[t].entries /\ tx'[t].pc # "upsert"
           \/ \E entry : /\ tx'[t].entries = tx[t].entries \cup {entry}
                         /\ entry.account = PostOf(t).account /\ tx'[t].next = tx[t].next
                         /\ tx'[t].sum = Balance(ledger \cup tx'[t].entries, entry.account)
      BY <1>4, InsertPosts DEF vars
  <2>2. PICK x, y : x = tx[t] /\ y = tx'[t]
      OBVIOUS
  <2>3. JobCounts(ledger, x) /\ x.pc = "job" /\ x.call.op = "job"
      BY <1>4, <2>2, AtPost DEF CountInv, JobInsert
  <2>4. PICK L, M : L = ledger \cup x.entries /\ M = ledger \cup y.entries
      OBVIOUS
  <2>5. \A a \in Accounts : y.mine[a] # None => CountsIn(M, a, y.mine[a].balance)
    <3>1. L \subseteq M
        BY <2>1, <2>2, <2>4
    <3>2. \A a \in Accounts : x.mine[a] # None => CountsIn(L, a, x.mine[a].balance)
        BY <2>3, <2>4 DEF JobCounts
    <3> QED
        BY <2>1, <2>2, <3>1, <3>2, CountsGrow
  <2>6. y.pc = "upsert" => CountsIn(M, y.call.posts[y.next].account, y.sum)
    <3>1. SUFFICES ASSUME y.pc = "upsert" PROVE CountsIn(M, y.call.posts[y.next].account, y.sum)
        OBVIOUS
    <3>2. PICK entry : /\ y.entries = x.entries \cup {entry} /\ y.next = x.next
                       /\ entry.account = PostOf(t).account /\ y.sum = Balance(M, entry.account)
        BY <2>1, <2>2, <2>4, <3>1
    <3>3. entry \in EntriesOf(M, entry.account)
        BY <2>4, <3>2 DEF EntriesOf
    <3>4. CountsIn(M, entry.account, y.sum)
        BY <3>2, <3>3, AllCount
    <3>5. y.call.posts[y.next].account = entry.account
        BY <2>1, <2>2, <3>2 DEF PostOf
    <3> QED
        BY <3>4, <3>5
  <2>7. JobCounts(ledger, y)
      BY <2>4, <2>5, <2>6 DEF JobCounts
  <2> QED
      BY <2>1, <2>2, <2>7, CountQuietly
<1>5. ASSUME NEW t \in Txns, JobUpsert(t) PROVE CountInv'
  <2>1. /\ UNCHANGED <<ledger, snapshots>> /\ \A u \in Txns \ {t} : tx'[u] = tx[u]
        /\ tx'[t].entries = tx[t].entries /\ tx'[t].call = tx[t].call
        /\ tx'[t].pc # "upsert" /\ tx[t].pc = "upsert"
        /\ tx'[t].mine[PostOf(t).account].balance = tx[t].sum
        /\ \A a \in Accounts : a # PostOf(t).account => tx'[t].mine[a] = tx[t].mine[a]
      BY <1>5, UpsertPosts DEF vars
  <2>2. PICK x, y, b : x = tx[t] /\ y = tx'[t] /\ b = PostOf(t).account
      OBVIOUS
  <2>3. JobCounts(ledger, x) /\ x.call.op = "job" /\ b = x.call.posts[x.next].account
      BY <2>1, <2>2, AtPost DEF CountInv
  <2>4. CountsIn(ledger \cup x.entries, b, x.sum)
      BY <2>1, <2>2, <2>3 DEF JobCounts
  <2>5. ASSUME NEW a \in Accounts, y.mine[a] # None
        PROVE  CountsIn(ledger \cup y.entries, a, y.mine[a].balance)
    <3>1. CASE a = b
        BY <2>1, <2>2, <2>4, <3>1
    <3>2. CASE a # b
        BY <2>1, <2>2, <2>3, <2>5, <3>2 DEF JobCounts
    <3> QED
        BY <3>1, <3>2
  <2>6. JobCounts(ledger, y)
      BY <2>1, <2>2, <2>5 DEF JobCounts
  <2> QED
      BY <2>1, <2>2, <2>6, CountQuietly
<1>6. ASSUME NEW t \in Txns, CommitRequest(t) \/ CommitJob(t) PROVE CountInv'
  <2>1. \A a \in Accounts : Shown(a)'
      BY <1>6, HandlersShow, JobsShow
  <2>2. /\ ledger \subseteq ledger' /\ \A u \in Txns \ {t} : tx'[u] = tx[u]
        /\ tx'[t].pc # "upsert" /\ \A a \in Accounts : tx'[t].mine[a] = None
      BY <1>6, CommitEnds
  <2> QED
      BY <2>1, <2>2, CountCommit
<1> QED
    BY <1>1, <1>2, <1>3, <1>4, <1>5, <1>6 DEF TxNext, Work, AllServed

(* Whatever interleaves, races and crashes: no key is posted twice, and a  *)
(* cached balance counts committed entries of its account only, and one of *)
(* them at least.  What an overlapping job can lose of it is the others'   *)
(* posts, never its own.                                                   *)
THEOREM BalancesAlwaysCountPosts == TxSpec => []BalancesCountPosts
<1>1. TxInit => KeysInv /\ CountInv
  <2>1. SUFFICES ASSUME TxInit PROVE KeysInv /\ CountInv
      OBVIOUS
  <2>2. ledger = {} /\ \A t \in Txns : tx[t] = NoTx
      BY <2>1 DEF TxInit, Init
  <2>3. NoTx.entries = {} /\ NoTx.pc = "idle"
      BY DEF NoTx
  <2>4. KeysInv
      BY <2>2, <2>3 DEF KeysInv, OneEntryPerSource
  <2>5. \A a \in Accounts : Shown(a)
      BY <2>2 DEF Shown, EntriesOf
  <2>6. \A t \in Txns : JobCounts(ledger, tx[t])
      BY <2>2, <2>3 DEF JobCounts
  <2> QED
      BY <2>4, <2>5, <2>6 DEF CountInv
<1>2. TxInv /\ KeysInv /\ CountInv /\ [TxNext]_txVars => KeysInv' /\ CountInv'
    BY KeysStep, CountStep
<1>3. KeysInv /\ CountInv => BalancesCountPosts
    BY DEF KeysInv, CountInv, Shown, CountsIn, BalancesCountPosts, OneEntryPerSource
<1> QED
    BY <1>1, <1>2, <1>3, TxAlways, PTL DEF TxSpec

=============================================================================
