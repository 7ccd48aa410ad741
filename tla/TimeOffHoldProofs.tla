--------------------------- MODULE TimeOffHoldProofs ---------------------------
(* The hold of an account is the cost of its pending requests, for every   *)
(* value of the constants: the counter that four handlers move by          *)
(* differences never drifts from the sum it stands for.                    *)
EXTENDS TimeOffRequestsProofs

-----------------------------------------------------------------------------
(* What a set of requests costs, with their rows as a parameter. *)

CostAt(rows, R) == SumAmounts({[request |-> r, amount |-> Total(rows[r])] : r \in R})

Priced(rows, R) == IsFiniteSet(R) /\ \A r \in R : Total(rows[r]) \in Nat

LEMMA CostsHaveAmounts ==
    ASSUME NEW rows, NEW R, Priced(rows, R)
    PROVE  HasAmounts({[request |-> r, amount |-> Total(rows[r])] : r \in R})
<1>1. ASSUME NEW f, f = [r \in R |-> [request |-> r, amount |-> Total(rows[r])]]
      PROVE  IsFiniteSet({[request |-> r, amount |-> Total(rows[r])] : r \in R})
  <2>1. DOMAIN f = R /\ IsFiniteSet(R)
      BY <1>1 DEF Priced
  <2>2. IsFiniteSet({f[r] : r \in R})
      BY <2>1, FiniteImage
  <2>3. {f[r] : r \in R} = {[request |-> r, amount |-> Total(rows[r])] : r \in R}
      BY <1>1
  <2> QED
      BY <2>2, <2>3
<1>2. IsFiniteSet({[request |-> r, amount |-> Total(rows[r])] : r \in R})
    BY <1>1
<1> QED
    BY <1>2 DEF HasAmounts, Priced

(* One request more costs its total more. *)
LEMMA CostOfOneMore ==
    ASSUME NEW rows, NEW R, NEW r, r \notin R, Priced(rows, R \cup {r})
    PROVE  /\ CostAt(rows, R) \in Int
           /\ CostAt(rows, R \cup {r}) = CostAt(rows, R) + Total(rows[r])
<1> DEFINE S == {[request |-> q, amount |-> Total(rows[q])] : q \in R}
           x == [request |-> r, amount |-> Total(rows[r])]
<1>1. IsFiniteSet(R) /\ Priced(rows, R)
  <2>1. R \in SUBSET (R \cup {r}) /\ IsFiniteSet(R \cup {r})
      BY DEF Priced
  <2>2. IsFiniteSet(R)
      BY <2>1, FS_Subset
  <2> QED
      BY <2>2 DEF Priced
<1>2. HasAmounts(S)
    BY <1>1, CostsHaveAmounts
<1>3. x.amount \in Int
    BY DEF Priced
<1>4. HasAmounts({x})
    BY <1>3, FS_Singleton DEF HasAmounts
<1>5. S \cap {x} = {}
    OBVIOUS
<1>6. {[request |-> q, amount |-> Total(rows[q])] : q \in R \cup {r}} = S \cup {x}
    OBVIOUS
<1> HIDE DEF S, x
<1>7. SumAmounts(S \cup {x}) = SumAmounts(S) + SumAmounts({x})
    BY <1>2, <1>4, <1>5, SumUnion
<1>8. SumAmounts({x}) = x.amount
    BY <1>3, SumSingleton
<1>9. SumAmounts(S) \in Int
    BY <1>2, SumType
<1> QED
    BY <1>6, <1>7, <1>8, <1>9 DEF CostAt, S, x

(* What the rows of other requests say does not matter. *)
LEMMA CostIsLocal ==
    ASSUME NEW rows, NEW other, NEW R, \A r \in R : Total(rows[r]) = Total(other[r])
    PROVE  CostAt(rows, R) = CostAt(other, R)
<1>1. {[request |-> r, amount |-> Total(rows[r])] : r \in R}
          = {[request |-> r, amount |-> Total(other[r])] : r \in R}
    OBVIOUS
<1> QED
    BY <1>1 DEF CostAt

LEMMA PendingPriced ==
    ASSUME TypeOK, NEW R \in SUBSET Requests, \A r \in R : requests[r] # None
    PROVE  Priced(requests, R)
<1>1. IsFiniteSet(R)
    BY ParameterAssumption, FS_Subset
<1>2. \A r \in R : requests[r] \in RequestType
    BY DEF TypeOK
<1> QED
    BY <1>1, <1>2, CostType DEF Priced

-----------------------------------------------------------------------------
(* One account at a time. *)

HoldOf(row) == IF row = None THEN 0 ELSE row.hold

HoldRight(a) == Metered(a) => CostAt(requests, PendingOn(a)) = HoldOf(snapshots[a])

LEMMA HoldsByAccount == HoldIsPendingCost <=> \A a \in Accounts : HoldRight(a)
BY DEF HoldIsPendingCost, HoldRight, HoldOf, CostOf, CostAt

LEMMA SnapshotHold == \A a \in Accounts : Snapshot(a).hold = HoldOf(snapshots[a])
BY DEF Snapshot, HoldOf

LEMMA RefreshedHold ==
    ASSUME NEW row \in SnapshotType, NEW a, NEW E
    PROVE  Refreshed(row, a, E).hold = row.hold
BY DEF Refreshed, SnapshotType

(* A step of request r, which belongs to account a, and of a's snapshot. *)
OnlyMoves(r, a) ==
    /\ requests'[r] \in RequestType /\ requests'[r].account = a
    /\ requests[r] # None =>
          /\ requests[r].account = a
          /\ requests'[r].version = requests[r].version
          /\ Total(requests'[r]) = Total(requests[r])
    /\ \A p \in Requests \ {r} : requests'[p] = requests[p]
    /\ \A b \in Accounts \ {a} : snapshots'[b] = snapshots[b]

(* Such a step keeps the holds of other accounts. *)
LEMMA HoldElsewhere ==
    ASSUME TypeOK, NEW r \in Requests, NEW a \in Accounts, OnlyMoves(r, a),
           NEW b \in Accounts, b # a, HoldRight(b)
    PROVE  HoldRight(b)'
<1>1. requests'[r] # None
    BY ParameterAssumption DEF OnlyMoves
<1>2. RequestsOn(b)' = RequestsOn(b) /\ r \notin RequestsOn(b)
    BY <1>1 DEF RequestsOn, OnlyMoves
<1>3. \A p \in RequestsOn(b) : requests'[p] = requests[p]
    BY <1>2 DEF OnlyMoves, RequestsOn
<1>4. PendingOn(b)' = PendingOn(b) /\ (Metered(b)' <=> Metered(b))
    BY <1>2, <1>3 DEF PendingOn, Metered
<1>5. CostAt(requests', PendingOn(b)) = CostAt(requests, PendingOn(b))
    BY <1>3, CostIsLocal DEF PendingOn
<1>6. snapshots'[b] = snapshots[b]
    BY DEF OnlyMoves
<1> QED
    BY <1>4, <1>5, <1>6 DEF HoldRight, HoldOf, CostAt

(* On the account itself there are three ways to be right afterwards.      *)
LEMMA HoldHere ==
    ASSUME TypeOK, NEW r \in Requests, NEW a \in Accounts, OnlyMoves(r, a), HoldRight(a),
           NEW row, snapshots'[a] = row, row # None,
           ~ Unlimited(requests'[r].version) =>
              \/ /\ requests[r] = None /\ requests'[r].status = "PENDING"
                 /\ row.hold = HoldOf(snapshots[a]) + Total(requests'[r])
              \/ /\ r \in PendingOn(a) /\ requests'[r].status # "PENDING"
                 /\ row.hold = HoldOf(snapshots[a]) - Total(requests[r])
              \/ /\ requests[r] # None
                 /\ requests[r].status # "PENDING" /\ requests'[r].status # "PENDING"
                 /\ row.hold = HoldOf(snapshots[a])
    PROVE  HoldRight(a)'
<1> SUFFICES ASSUME Metered(a)'
             PROVE  CostAt(requests', PendingOn(a)') = row.hold
    BY DEF HoldRight, HoldOf, CostAt
<1>1. requests'[r] # None /\ Total(requests'[r]) \in Nat
    BY ParameterAssumption, CostType DEF OnlyMoves
<1>2. r \in RequestsOn(a)' /\ ~ Unlimited(requests'[r].version)
    BY <1>1 DEF RequestsOn, OnlyMoves, Metered
<1>3. \A p \in RequestsOn(a) : p \in RequestsOn(a)' /\ requests'[p].version = requests[p].version
    BY <1>1 DEF RequestsOn, OnlyMoves
<1>4. Metered(a)
    BY <1>3 DEF Metered
<1>5. CostAt(requests, PendingOn(a)) = HoldOf(snapshots[a])
    BY <1>4 DEF HoldRight
<1>6. PendingOn(a) \in SUBSET Requests /\ \A p \in PendingOn(a) : requests[p] # None
    BY DEF PendingOn, RequestsOn
<1>7. Priced(requests, PendingOn(a))
    BY <1>6, PendingPriced
<1>8. \A p \in PendingOn(a) : Total(requests'[p]) = Total(requests[p])
    BY <1>6 DEF OnlyMoves
<1>9. CostAt(requests', PendingOn(a)) = CostAt(requests, PendingOn(a))
    BY <1>8, CostIsLocal
<1>10. \A p \in Requests \ {r} : p \in PendingOn(a)' <=> p \in PendingOn(a)
    BY DEF PendingOn, RequestsOn, OnlyMoves
<1>11. PendingOn(a)' \subseteq Requests
    BY DEF PendingOn, RequestsOn
<1>12. CASE /\ requests[r] = None /\ requests'[r].status = "PENDING"
            /\ row.hold = HoldOf(snapshots[a]) + Total(requests'[r])
  <2>1. r \notin PendingOn(a) /\ r \in PendingOn(a)'
      BY <1>2, <1>12 DEF PendingOn, RequestsOn
  <2>2. PendingOn(a)' = PendingOn(a) \cup {r}
      BY <1>6, <1>10, <1>11, <2>1
  <2>3. Priced(requests', PendingOn(a) \cup {r})
    <3>1. IsFiniteSet(PendingOn(a) \cup {r})
        BY <1>7, FS_AddElement DEF Priced
    <3> QED
        BY <1>1, <1>7, <1>8, <3>1 DEF Priced
  <2>4. CostAt(requests', PendingOn(a) \cup {r})
            = CostAt(requests', PendingOn(a)) + Total(requests'[r])
      BY <2>1, <2>3, CostOfOneMore
  <2> QED
      BY <1>5, <1>9, <1>12, <2>2, <2>4
<1>13. CASE /\ r \in PendingOn(a) /\ requests'[r].status # "PENDING"
            /\ row.hold = HoldOf(snapshots[a]) - Total(requests[r])
  <2>1. r \notin PendingOn(a)'
      BY <1>13 DEF PendingOn
  <2>2. PendingOn(a) = PendingOn(a)' \cup {r}
      BY <1>6, <1>10, <1>11, <1>13, <2>1
  <2>3. Priced(requests, PendingOn(a)' \cup {r})
      BY <1>7, <2>2
  <2>4. /\ CostAt(requests, PendingOn(a)') \in Int
        /\ CostAt(requests, PendingOn(a)' \cup {r})
            = CostAt(requests, PendingOn(a)') + Total(requests[r])
      BY <2>1, <2>3, CostOfOneMore
  <2>5. CostAt(requests', PendingOn(a)') = CostAt(requests, PendingOn(a)')
      BY <1>8, <2>2, CostIsLocal
  <2>6. Total(requests[r]) \in Nat
      BY <1>7, <1>13 DEF Priced
  <2> QED
      BY <1>5, <1>13, <2>2, <2>4, <2>5, <2>6
<1>14. CASE /\ requests[r] # None
            /\ requests[r].status # "PENDING" /\ requests'[r].status # "PENDING"
            /\ row.hold = HoldOf(snapshots[a])
  <2>1. r \notin PendingOn(a) /\ r \notin PendingOn(a)'
      BY <1>14 DEF PendingOn
  <2>2. PendingOn(a)' = PendingOn(a)
      BY <1>6, <1>10, <1>11, <2>1
  <2> QED
      BY <1>5, <1>9, <1>14, <2>2
<1> QED
    BY <1>2, <1>12, <1>13, <1>14

LEMMA HoldEverywhere ==
    ASSUME TypeOK, HoldIsPendingCost, NEW r \in Requests, NEW a \in Accounts, OnlyMoves(r, a),
           HoldRight(a)'
    PROVE  HoldIsPendingCost'
<1>1. \A b \in Accounts : HoldRight(b)
    BY HoldsByAccount
<1>2. \A b \in Accounts : HoldRight(b)'
    BY <1>1, HoldElsewhere
<1>3. HoldIsPendingCost' <=> \A b \in Accounts : HoldRight(b)'
    BY DEF HoldIsPendingCost, HoldRight, HoldOf, CostOf, CostAt
<1> QED
    BY <1>2, <1>3

(* A decision or cancellation rewrites the status of one row only. *)
LEMMA MoveOnly ==
    ASSUME TypeOK, NEW r \in Requests, requests[r] # None, NEW status \in Statuses,
           Move(r, status), NEW row,
           snapshots' = [snapshots EXCEPT ![requests[r].account] = row]
    PROVE  /\ OnlyMoves(r, requests[r].account)
           /\ requests'[r].status = status
           /\ snapshots'[requests[r].account] = row
           /\ requests[r].account \in Accounts
<1>1. requests[r] \in RequestType /\ requests[r].account \in Accounts
    BY DEF TypeOK, RequestType
<1>2. requests'[r] = [requests[r] EXCEPT !.status = status]
    BY DEF Move, TypeOK
<1>3. requests'[r] \in RequestType
    BY <1>1, <1>2 DEF RequestType
<1>4. /\ requests'[r].account = requests[r].account /\ requests'[r].version = requests[r].version
      /\ requests'[r].dates = requests[r].dates /\ requests'[r].rate = requests[r].rate
      /\ requests'[r].status = status
    BY <1>1, <1>2 DEF RequestType
<1>5. Total(requests'[r]) = Total(requests[r])
    BY <1>4 DEF Total
<1>6. \A p \in Requests \ {r} : requests'[p] = requests[p]
    BY DEF Move, TypeOK
<1>7. snapshots'[requests[r].account] = row
      /\ \A b \in Accounts \ {requests[r].account} : snapshots'[b] = snapshots[b]
    BY <1>1 DEF TypeOK
<1> QED
    BY <1>1, <1>3, <1>4, <1>5, <1>6, <1>7 DEF OnlyMoves

LEMMA HoldStep == TypeOK /\ HoldIsPendingCost /\ [Next]_vars => HoldIsPendingCost'
<1> SUFFICES ASSUME TypeOK, HoldIsPendingCost, [Next]_vars
             PROVE  HoldIsPendingCost'
    OBVIOUS
<1>0. \A a \in Accounts : HoldRight(a) /\ Snapshot(a).hold = HoldOf(snapshots[a])
    BY HoldsByAccount, SnapshotHold
<1>1. ASSUME NEW r \in Requests, NEW e \in Employees, NEW c \in Categories,
             NEW start \in Dates, NEW end \in Dates, NEW partial \in Partials,
             Submit(r, e, c, start, end, partial)
      PROVE  HoldIsPendingCost'
  <2>1. PICK a \in Assignments : \E version \in versions[a.policy] :
           LET request == NewRequest(e, a.policy, version, start, end, partial)
           IN  /\ requests' = [requests EXCEPT ![r] = request]
               /\ snapshots' = [snapshots EXCEPT ![request.account] =
                     IF Unlimited(version) THEN Snapshot(request.account)
                     ELSE [Snapshot(request.account) EXCEPT !.hold = @ + Total(request)]]
      BY <1>1 DEF Submit
  <2>2. PICK version \in versions[a.policy] :
           LET request == NewRequest(e, a.policy, version, start, end, partial)
           IN  /\ requests' = [requests EXCEPT ![r] = request]
               /\ snapshots' = [snapshots EXCEPT ![request.account] =
                     IF Unlimited(version) THEN Snapshot(request.account)
                     ELSE [Snapshot(request.account) EXCEPT !.hold = @ + Total(request)]]
      BY <2>1
  <2> DEFINE request == NewRequest(e, a.policy, version, start, end, partial)
             account == request.account
             row == Snapshot(account)
             after == IF Unlimited(version) THEN row ELSE [row EXCEPT !.hold = @ + Total(request)]
  <2>3. request \in RequestType /\ account \in Accounts
      BY NewRequestType DEF RequestType
  <2>4. row \in SnapshotType /\ Total(request) \in Nat
      BY <2>3, SnapshotRowType, CostType
  <2>5. request.version = version /\ request.status = "PENDING"
      BY DEF NewRequest
  <2>6. requests' = [requests EXCEPT ![r] = request]
        /\ snapshots' = [snapshots EXCEPT ![account] = after]
      BY <2>2
  <2>7. requests[r] = None
      BY <1>1 DEF Submit
  <2> HIDE DEF request, account, row
  <2>8. after \in SnapshotType
      BY <2>4 DEF SnapshotType
  <2>9. ~ Unlimited(version) => after.hold = row.hold + Total(request)
      BY <2>4 DEF SnapshotType
  <2> HIDE DEF after
  <2>10. /\ requests'[r] = request /\ snapshots'[account] = after
         /\ \A p \in Requests \ {r} : requests'[p] = requests[p]
         /\ \A b \in Accounts \ {account} : snapshots'[b] = snapshots[b]
      BY <2>3, <2>6 DEF TypeOK
  <2>11. OnlyMoves(r, account)
      BY <2>3, <2>7, <2>10 DEF OnlyMoves, account
  <2>12. row.hold = HoldOf(snapshots[account]) /\ HoldRight(account)
      BY <1>0, <2>3 DEF row
  <2>13. after # None
      BY <2>8, ParameterAssumption
  <2>14. PICK b \in Accounts : b = account
      BY <2>3
  <2>15. HoldRight(b)'
      BY <2>5, <2>7, <2>9, <2>10, <2>11, <2>12, <2>13, <2>14, HoldHere
  <2> QED
      BY <2>11, <2>14, <2>15, HoldEverywhere
<1>2. ASSUME NEW r \in Requests, Approve(r)
      PROVE  HoldIsPendingCost'
  <2> DEFINE q == requests[r]
             row == Snapshot(q.account)
             debits == DebitLegs(r, q)
             fresh == Refreshed(row, q.account, debits)
             after == IF Unlimited(q.version) THEN row ELSE [fresh EXCEPT !.hold = @ - Total(q)]
  <2>1. q \in RequestType /\ q.account \in Accounts /\ q # None /\ q.status = "PENDING"
      BY <1>2 DEF Approve, IsPending, TypeOK, RequestType
  <2>2. row \in SnapshotType /\ Total(q) \in Nat
      BY <2>1, SnapshotRowType, CostType
  <2>3. debits \in SUBSET EntryType /\ IsFiniteSet(debits)
      BY <2>1, LegsType DEF DebitLegs
  <2>4. fresh \in SnapshotType /\ fresh.hold = row.hold
      BY <2>2, <2>3, RefreshedType, RefreshedHold
  <2>5. snapshots' = [snapshots EXCEPT ![q.account] = after] /\ Move(r, "APPROVED")
      BY <1>2 DEF Approve
  <2> HIDE DEF row, debits, fresh
  <2>6. after \in SnapshotType
        /\ (~ Unlimited(q.version) => after.hold = row.hold - Total(q))
      BY <2>2, <2>4 DEF SnapshotType
  <2> HIDE DEF after
  <2>7. OnlyMoves(r, q.account) /\ requests'[r].status = "APPROVED" /\ snapshots'[q.account] = after
      BY <2>1, <2>5, MoveOnly DEF Statuses
  <2>8. row.hold = HoldOf(snapshots[q.account]) /\ HoldRight(q.account)
      BY <1>0, <2>1 DEF row
  <2>9. r \in PendingOn(q.account) /\ requests'[r].version = q.version /\ after # None
      BY <2>1, <2>6, <2>7, ParameterAssumption DEF PendingOn, RequestsOn, OnlyMoves
  <2>10. PICK a \in Accounts : a = q.account
      BY <2>1
  <2>11. HoldRight(a)'
      BY <2>1, <2>6, <2>7, <2>8, <2>9, <2>10, HoldHere
  <2> QED
      BY <2>7, <2>10, <2>11, HoldEverywhere
<1>3. ASSUME NEW r \in Requests, Deny(r)
      PROVE  HoldIsPendingCost'
  <2> DEFINE q == requests[r]
             row == Snapshot(q.account)
             after == IF Unlimited(q.version) THEN row ELSE [row EXCEPT !.hold = @ - Total(q)]
  <2>1. q \in RequestType /\ q.account \in Accounts /\ q # None /\ q.status = "PENDING"
      BY <1>3 DEF Deny, IsPending, TypeOK, RequestType
  <2>2. row \in SnapshotType /\ Total(q) \in Nat
      BY <2>1, SnapshotRowType, CostType
  <2>3. snapshots' = [snapshots EXCEPT ![q.account] = after] /\ Move(r, "DENIED")
      BY <1>3 DEF Deny
  <2> HIDE DEF row
  <2>4. after \in SnapshotType
        /\ (~ Unlimited(q.version) => after.hold = row.hold - Total(q))
      BY <2>2 DEF SnapshotType
  <2> HIDE DEF after
  <2>5. OnlyMoves(r, q.account) /\ requests'[r].status = "DENIED" /\ snapshots'[q.account] = after
      BY <2>1, <2>3, MoveOnly DEF Statuses
  <2>6. row.hold = HoldOf(snapshots[q.account]) /\ HoldRight(q.account)
      BY <1>0, <2>1 DEF row
  <2>7. r \in PendingOn(q.account) /\ requests'[r].version = q.version /\ after # None
      BY <2>1, <2>4, <2>5, ParameterAssumption DEF PendingOn, RequestsOn, OnlyMoves
  <2>8. PICK a \in Accounts : a = q.account
      BY <2>1
  <2>9. HoldRight(a)'
      BY <2>1, <2>4, <2>5, <2>6, <2>7, <2>8, HoldHere
  <2> QED
      BY <2>5, <2>8, <2>9, HoldEverywhere
<1>4. ASSUME NEW r \in Requests, Cancel(r)
      PROVE  HoldIsPendingCost'
  <2> DEFINE q == requests[r]
             row == Snapshot(q.account)
             reversals == ReversalLegs(r, q)
             fresh == Refreshed(row, q.account, reversals)
             after == IF q.status = "PENDING" THEN [row EXCEPT !.hold = @ - Total(q)] ELSE fresh
  <2>1. q \in RequestType /\ q.account \in Accounts /\ q # None
      BY <1>4 DEF Cancel, TypeOK, RequestType
  <2>2. row \in SnapshotType /\ Total(q) \in Nat
      BY <2>1, SnapshotRowType, CostType
  <2>3. reversals \in SUBSET EntryType /\ IsFiniteSet(reversals)
      BY <2>1, LegsType DEF ReversalLegs
  <2>4. fresh \in SnapshotType /\ fresh.hold = row.hold
      BY <2>2, <2>3, RefreshedType, RefreshedHold
  <2>5. snapshots' = [snapshots EXCEPT ![q.account] = after] /\ Move(r, "CANCELLED")
      BY <1>4 DEF Cancel
  <2> HIDE DEF row, reversals, fresh
  <2>6. /\ after \in SnapshotType
        /\ after.hold = IF q.status = "PENDING" THEN row.hold - Total(q) ELSE row.hold
      BY <2>2, <2>4 DEF SnapshotType
  <2> HIDE DEF after
  <2>7. OnlyMoves(r, q.account) /\ requests'[r].status = "CANCELLED" /\ snapshots'[q.account] = after
      BY <2>1, <2>5, MoveOnly DEF Statuses
  <2>8. row.hold = HoldOf(snapshots[q.account]) /\ HoldRight(q.account)
      BY <1>0, <2>1 DEF row
  <2>9. after # None /\ (q.status = "PENDING" => r \in PendingOn(q.account))
      BY <2>1, <2>6, ParameterAssumption DEF PendingOn, RequestsOn
  <2>10. PICK a \in Accounts : a = q.account
      BY <2>1
  <2>11. HoldRight(a)'
      BY <2>1, <2>6, <2>7, <2>8, <2>9, <2>10, HoldHere
  <2> QED
      BY <2>7, <2>10, <2>11, HoldEverywhere
<1>5. ASSUME NEW source \in JobSources, NEW a \in AssignedAccounts,
             NEW minutes \in JobAmounts, NEW date \in JobDates,
             JobPost(source, a, minutes, date)
      PROVE  HoldIsPendingCost'
  <2> DEFINE E == {JobEntry(source, a, minutes, date)}
             row == IF snapshots[a] = None THEN [balance |-> 0, hold |-> 0] ELSE snapshots[a]
             after == Refreshed(row, a, E)
  <2>1. E \in SUBSET EntryType /\ IsFiniteSet(E) /\ a \in Accounts
      BY JobEntryType
  <2>2. row \in SnapshotType /\ row.hold = HoldOf(snapshots[a])
      BY <2>1 DEF TypeOK, SnapshotType, HoldOf
  <2>3. after \in SnapshotType /\ after.hold = row.hold
      BY <2>1, <2>2, RefreshedType, RefreshedHold
  <2>4. snapshots' = snapshots \/ snapshots' = [snapshots EXCEPT ![a] = after]
      BY <1>5 DEF JobPost
  <2>5. after # None
      BY <2>3, ParameterAssumption
  <2> HIDE DEF after, row
  <2>6. \A b \in Accounts : HoldOf(snapshots'[b]) = HoldOf(snapshots[b])
      BY <2>1, <2>2, <2>3, <2>4, <2>5 DEF TypeOK, HoldOf
  <2>7. requests' = requests
      BY <1>5 DEF JobPost
  <2> QED
      BY <2>6, <2>7 DEF HoldIsPendingCost, HoldOf, Metered, CostOf, PendingOn, RequestsOn
<1>6. CASE UNCHANGED <<snapshots, requests>>
  BY <1>6 DEF HoldIsPendingCost, Metered, CostOf, PendingOn, RequestsOn
<1> QED
  BY <1>1, <1>2, <1>3, <1>4, <1>5, <1>6
  DEF Next, vars, PublishVersion, AddHoliday, SyncHolidays, SetClock

LEMMA HoldInit == Init => HoldIsPendingCost
<1> SUFFICES ASSUME Init PROVE HoldIsPendingCost
    OBVIOUS
<1>1. \A a \in Accounts : PendingOn(a) = {}
    BY DEF Init, PendingOn, RequestsOn
<1>2. \A a \in Accounts : CostOf(PendingOn(a)) = 0
    BY <1>1, SumEmpty DEF CostOf
<1> QED
    BY <1>2 DEF Init, HoldIsPendingCost

(* No sequence of submissions, decisions and cancellations leaves a hold   *)
(* behind, releases one twice or releases another amount than was taken,   *)
(* on an account whose requests were all made under metered versions.      *)
THEOREM HoldsArePendingCosts == Spec => []HoldIsPendingCost
BY HoldInit, HoldStep, TypeCorrect, PTL DEF Spec

=============================================================================
