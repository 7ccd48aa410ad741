-------------------------- MODULE TimeOffLedgerProofs --------------------------
(* The ledger of TimeOffRequests for every value of its constants: its     *)
(* legs follow the status of their request, sum to what the request costs, *)
(* and with the jobs' entries account for every balance.                   *)
EXTENDS TimeOffHoldProofs

-----------------------------------------------------------------------------
(* The legs of a request share its total between its years. *)

(* Every date of a request lies in the year of one of its first dates.     *)
LEMMA FirstOfYear ==
    ASSUME NEW q \in RequestType, NEW d \in q.dates
    PROVE  \E f \in FirstDates(q) : YearOf(f) = YearOf(d)
<1>1. q.dates \in SUBSET Nat
    BY CalendarAssumption DEF RequestType, Dates
<1>2. DatesIn(q, YearOf(d)) \in SUBSET Nat /\ d \in DatesIn(q, YearOf(d))
    BY <1>1 DEF DatesIn
<1>3. PICK f \in DatesIn(q, YearOf(d)) : \A e \in DatesIn(q, YearOf(d)) : f <= e
    BY <1>2, LeastNumber
<1>4. f \in q.dates /\ YearOf(f) = YearOf(d)
    BY DEF DatesIn
<1> QED
    BY <1>3, <1>4 DEF FirstDates

LEMMA OneFirstPerYear ==
    ASSUME NEW q \in RequestType, NEW f \in FirstDates(q), NEW g \in FirstDates(q),
           YearOf(f) = YearOf(g)
    PROVE  f = g
<1>1. f \in Nat /\ g \in Nat
    BY CalendarAssumption DEF RequestType, Dates, FirstDates
<1>2. f <= g /\ g <= f
    BY DEF FirstDates, DatesIn
<1> QED
    BY <1>1, <1>2

Leg(type, r, q, sign, d) ==
    [account |-> q.account, amount |-> sign * YearMinutes(q, YearOf(d)),
     effective |-> d, source |-> <<type, r, YearOf(d)>>]

LegsFor(type, r, q, sign, G) == {Leg(type, r, q, sign, d) : d \in G}

(* The dates in the years that the first dates of G begin. *)
DatesFor(q, G) == {d \in q.dates : \E f \in G : YearOf(f) = YearOf(d)}

LEMMA LegsForAll ==
    ASSUME NEW q, NEW type, NEW r, NEW sign
    PROVE  Legs(type, r, q, sign) = LegsFor(type, r, q, sign, FirstDates(q))
BY DEF Legs, LegsFor, Leg

(* One year more costs the minutes of its dates more. *)
LEMMA OneYearMore ==
    ASSUME NEW q \in RequestType, NEW G \in SUBSET FirstDates(q), NEW f \in FirstDates(q) \ G
    PROVE  /\ Cardinality(DatesFor(q, G)) \in Nat
           /\ Cardinality(DatesIn(q, YearOf(f))) \in Nat
           /\ Cardinality(DatesFor(q, G \cup {f})) =
                 Cardinality(DatesFor(q, G)) + Cardinality(DatesIn(q, YearOf(f)))
<1>1. q.dates \in SUBSET Dates
    BY DEF RequestType
<1>2. DatesFor(q, G) \in SUBSET Dates /\ DatesIn(q, YearOf(f)) \in SUBSET Dates
    BY <1>1 DEF DatesFor, DatesIn
<1>3. /\ IsFiniteSet(DatesFor(q, G)) /\ IsFiniteSet(DatesIn(q, YearOf(f)))
      /\ Cardinality(DatesFor(q, G)) \in Nat
      /\ Cardinality(DatesIn(q, YearOf(f))) \in Nat
    BY <1>2, DatesFinite
<1>4. DatesFor(q, G) \cap DatesIn(q, YearOf(f)) = {}
  <2>1. SUFFICES ASSUME NEW g \in G, YearOf(g) = YearOf(f) PROVE FALSE
      BY DEF DatesFor, DatesIn
  <2> QED
      BY <2>1, OneFirstPerYear
<1>5. DatesFor(q, G \cup {f}) = DatesFor(q, G) \cup DatesIn(q, YearOf(f))
    BY DEF DatesFor, DatesIn
<1> QED
    BY <1>3, <1>4, <1>5, DisjointUnion

LEMMA Distributes ==
    ASSUME NEW sign \in {-1, 1}, NEW m \in Int, NEW n \in Int, NEW rate \in Int
    PROVE  sign * (m * rate) + sign * (n * rate) = sign * ((m + n) * rate)
<1>1. (m + n) * rate = m * rate + n * rate /\ m * rate \in Int /\ n * rate \in Int
    OBVIOUS
<1> QED
    BY <1>1

(* The years' shares add up to the total, however many years there are.    *)
LEMMA LegsSum ==
    ASSUME NEW q \in RequestType, NEW r \in Requests,
           NEW type \in {"REQUEST", "REQUEST_CANCELLATION"}, NEW sign \in {-1, 1}
    PROVE  SumAmounts(Legs(type, r, q, sign)) = sign * Total(q)
<1> DEFINE F == FirstDates(q)
           legs(G) == LegsFor(type, r, q, sign, G)
           Good == {G \in SUBSET F :
                      SumAmounts(legs(G)) = sign * (Cardinality(DatesFor(q, G)) * q.rate)}
<1>1. q.dates \in SUBSET Dates /\ q.rate \in Int /\ F \in SUBSET Dates
    BY DEF RequestType, FirstDates
<1>2. IsFiniteSet(F)
    BY <1>1, DatesFinite
<1>3. {} \in Good
  <2>1. legs({}) = {} /\ DatesFor(q, {}) = {}
      BY DEF LegsFor, DatesFor
  <2>2. SumAmounts(legs({})) = 0 /\ Cardinality(DatesFor(q, {})) = 0
      BY <2>1, SumEmpty, FS_EmptySet
  <2>3. sign * (0 * q.rate) = 0
      BY <1>1
  <2> QED
      BY <2>2, <2>3
<1>4. ASSUME NEW G \in SUBSET F, NEW f \in F \ G, G \in Good
      PROVE  G \cup {f} \in Good
  <2>1. HasAmounts(legs(G)) /\ HasAmounts({Leg(type, r, q, sign, f)})
    <3>1. legs(F) \subseteq EntryType /\ IsFiniteSet(legs(F))
        BY LegsType, LegsForAll
    <3>2. legs(G) \in SUBSET legs(F) /\ {Leg(type, r, q, sign, f)} \in SUBSET legs(F)
        BY DEF LegsFor
    <3>3. IsFiniteSet(legs(G)) /\ IsFiniteSet({Leg(type, r, q, sign, f)})
        BY <3>1, <3>2, FS_Subset
    <3> HIDE DEF legs
    <3> QED
        BY <3>1, <3>2, <3>3 DEF HasAmounts, EntryType
  <2>2. legs(G) \cap {Leg(type, r, q, sign, f)} = {}
      BY DEF LegsFor, Leg
  <2>3. legs(G \cup {f}) = legs(G) \cup {Leg(type, r, q, sign, f)}
      BY DEF LegsFor
  <2>4. SumAmounts({Leg(type, r, q, sign, f)}) = sign * YearMinutes(q, YearOf(f))
    <3>1. Leg(type, r, q, sign, f).amount \in Int
        BY <2>1 DEF HasAmounts
    <3>2. SumAmounts({Leg(type, r, q, sign, f)}) = Leg(type, r, q, sign, f).amount
        BY <3>1, SumSingleton
    <3> QED
        BY <3>2 DEF Leg
  <2>5. SumAmounts(legs(G \cup {f})) = SumAmounts(legs(G)) + sign * YearMinutes(q, YearOf(f))
      BY <2>1, <2>2, <2>3, <2>4, SumUnion
  <2>6. SumAmounts(legs(G)) = sign * (Cardinality(DatesFor(q, G)) * q.rate)
      BY <1>4
  <2> HIDE DEF legs, F
  <2>7. SumAmounts(legs(G \cup {f})) = sign * (Cardinality(DatesFor(q, G \cup {f})) * q.rate)
      BY <1>1, <2>5, <2>6, OneYearMore, Distributes DEF YearMinutes, F
  <2> QED
      BY <1>4, <2>7
<1>5. F \in Good
  <2> HIDE DEF F, Good
  <2>1. \A G \in SUBSET F : \A f \in F \ G : G \in Good => G \cup {f} \in Good
      BY <1>4
  <2> QED
      BY <1>2, <1>3, <2>1, SubsetInduction
<1>6. DatesFor(q, F) = q.dates
    BY FirstOfYear DEF DatesFor
<1>7. SumAmounts(legs(F)) = sign * (Cardinality(q.dates) * q.rate)
    BY <1>5, <1>6
<1> QED
    BY <1>7, LegsForAll DEF Total

-----------------------------------------------------------------------------
(* What posting legs does to the legs of every request. *)

LegsIn(L, r, type) == {x \in L : x.source[1] = type /\ x.source[2] = r}

(* Entries that are all legs of one request and type. *)
AreLegs(E, r, type) == \A x \in E : x.source[1] = type /\ x.source[2] = r

LEMMA LegsAreLegs ==
    ASSUME NEW q, NEW type, NEW r, NEW sign
    PROVE  AreLegs(Legs(type, r, q, sign), r, type)
BY DEF AreLegs, Legs

(* Legs that are not there yet are there afterwards, all of them.          *)
LEMMA PostFreshLegs ==
    ASSUME NEW L, NEW E, NEW r, NEW type, AreLegs(E, r, type), LegsIn(L, r, type) = {}
    PROVE  LegsIn(Post(L, E), r, type) = E
BY DEF Post, IsPosted, AreLegs, LegsIn

(* Entries of another kind, or of another request, change none of them.    *)
LEMMA PostOtherLegs ==
    ASSUME NEW L, NEW E, NEW r, NEW type, NEW p, NEW kind, AreLegs(E, p, kind),
           p # r \/ kind # type
    PROVE  LegsIn(Post(L, E), r, type) = LegsIn(L, r, type)
BY DEF Post, AreLegs, LegsIn

(* A request that charges a date has a leg. *)
LEMMA LegsNonempty ==
    ASSUME NEW q \in RequestType, q.dates # {}, NEW type, NEW r, NEW sign
    PROVE  Legs(type, r, q, sign) # {}
BY FirstOfYear DEF Legs

(* The legs of a request do not depend on its status. *)
LEMMA LegsIgnoreStatus ==
    ASSUME NEW q \in RequestType, NEW s, NEW type, NEW r, NEW sign
    PROVE  Legs(type, r, [q EXCEPT !.status = s], sign) = Legs(type, r, q, sign)
<1> DEFINE p == [q EXCEPT !.status = s]
<1>1. p.dates = q.dates /\ p.rate = q.rate /\ p.account = q.account
    BY DEF RequestType
<1> HIDE DEF p
<1>2. \A y : DatesIn(p, y) = DatesIn(q, y)
    BY <1>1 DEF DatesIn
<1>3. FirstDates(p) = FirstDates(q) /\ \A y : YearMinutes(p, y) = YearMinutes(q, y)
    BY <1>1, <1>2 DEF FirstDates, YearMinutes
<1>4. Legs(type, r, p, sign) = Legs(type, r, q, sign)
    BY <1>1, <1>3 DEF Legs
<1> QED
    BY <1>4 DEF p

-----------------------------------------------------------------------------
(* The ledger follows the status.  Inductive with two facts: a request     *)
(* charges at least one date, so that a debit is there when it is posted,  *)
(* and its legs are entries of its own account.                            *)

ChargesDates ==
    \A r \in Requests : requests[r] # None =>
        requests[r].dates # {} /\ requests[r].dates \subseteq WorkDates

LegsOnAccount ==
    \A x \in ledger : x.source[1] # "JOB" =>
        requests[x.source[2]] # None /\ x.account = requests[x.source[2]].account

LedgerInv == LedgerFollowsStatus /\ ChargesDates /\ LegsOnAccount

(* What LedgerFollowsStatus says of one request with row q. *)
Follows(r, q, debits, reversals) ==
    IF q = None
    THEN debits \cup reversals = {}
    ELSE ~ Unlimited(q.version) =>
           /\ debits \in {{}, DebitLegs(r, q)}
           /\ q.status \in {"PENDING", "DENIED"} => debits = {}
           /\ q.status = "APPROVED" => debits # {}
           /\ reversals = IF q.status = "CANCELLED" /\ debits # {} THEN ReversalLegs(r, q) ELSE {}

FollowsIn(L, rows, r) ==
    Follows(r, rows[r], LegsIn(L, r, "REQUEST"), LegsIn(L, r, "REQUEST_CANCELLATION"))

LEMMA FollowsByRequest ==
    LedgerFollowsStatus <=> \A r \in Requests : FollowsIn(ledger, requests, r)
BY DEF LedgerFollowsStatus, FollowsIn, Follows, LegsOf, LegsIn

LEMMA FollowsByRequestNext ==
    LedgerFollowsStatus' <=> \A r \in Requests : FollowsIn(ledger', requests', r)
BY DEF LedgerFollowsStatus, FollowsIn, Follows, LegsOf, LegsIn

(* A step of request r that posts legs of r at most, and leaves r's legs   *)
(* as its status wants them, keeps the invariant.                          *)
LEMMA LedgerStepOf ==
    ASSUME TypeOK, LedgerInv, NEW r \in Requests, NEW E,
           NEW type \in {"REQUEST", "REQUEST_CANCELLATION"}, AreLegs(E, r, type),
           ledger' = Post(ledger, E),
           requests' \in [Requests -> RequestType \cup {None}],
           requests'[r] # None, requests'[r].dates # {}, requests'[r].dates \subseteq WorkDates,
           requests[r] # None => requests'[r].account = requests[r].account,
           \A x \in E : x.account = requests'[r].account,
           \A p \in Requests \ {r} : requests'[p] = requests[p],
           FollowsIn(ledger', requests', r)
    PROVE  LedgerInv'
<1>1. \A p \in Requests \ {r} : FollowsIn(ledger', requests', p)
  <2>1. SUFFICES ASSUME NEW p \in Requests \ {r} PROVE FollowsIn(ledger', requests', p)
      OBVIOUS
  <2>2. FollowsIn(ledger, requests, p)
      BY FollowsByRequest DEF LedgerInv
  <2>3. /\ LegsIn(ledger', p, "REQUEST") = LegsIn(ledger, p, "REQUEST")
        /\ LegsIn(ledger', p, "REQUEST_CANCELLATION") = LegsIn(ledger, p, "REQUEST_CANCELLATION")
      BY PostOtherLegs
  <2> QED
      BY <2>2, <2>3 DEF FollowsIn
<1>2. LedgerFollowsStatus'
    BY <1>1, FollowsByRequestNext
<1>3. ChargesDates'
    BY DEF LedgerInv, ChargesDates
<1>4. LegsOnAccount'
  <2>1. SUFFICES ASSUME NEW x \in Post(ledger, E), x.source[1] # "JOB"
                 PROVE  requests'[x.source[2]] # None
                        /\ x.account = requests'[x.source[2]].account
      BY DEF LegsOnAccount
  <2>2. CASE x \in E
      BY <2>2 DEF AreLegs
  <2>3. CASE x \in ledger
    <3>1. x.source[2] \in Requests
        BY <2>1, <2>3 DEF TypeOK, EntryType
    <3>2. requests[x.source[2]] # None /\ x.account = requests[x.source[2]].account
        BY <2>1, <2>3 DEF LedgerInv, LegsOnAccount
    <3> QED
        BY <3>1, <3>2
  <2> QED
      BY <2>2, <2>3 DEF Post
<1> QED
    BY <1>2, <1>3, <1>4 DEF LedgerInv

(* A decision or cancellation of r that posts E. *)
LEMMA LedgerMoveOf ==
    ASSUME TypeOK, LedgerInv, NEW r \in Requests, requests[r] # None, NEW E,
           NEW type \in {"REQUEST", "REQUEST_CANCELLATION"}, AreLegs(E, r, type),
           ledger' = Post(ledger, E), \A x \in E : x.account = requests[r].account,
           NEW status \in Statuses, Move(r, status),
           Follows(r, requests'[r], LegsIn(ledger', r, "REQUEST"),
                   LegsIn(ledger', r, "REQUEST_CANCELLATION"))
    PROVE  LedgerInv'
<1>1. requests' = [requests EXCEPT ![r] = [requests[r] EXCEPT !.status = status]]
    BY DEF Move, TypeOK
<1>2. requests[r] \in RequestType
    BY DEF TypeOK
<1>3. [requests[r] EXCEPT !.status = status] \in RequestType
    BY <1>2 DEF RequestType
<1>4. /\ requests'[r] \in RequestType /\ requests'[r] # None
      /\ requests'[r].dates = requests[r].dates /\ requests'[r].account = requests[r].account
    BY <1>1, <1>2, <1>3, ParameterAssumption DEF TypeOK, RequestType
<1>5. /\ requests' \in [Requests -> RequestType \cup {None}]
      /\ \A p \in Requests \ {r} : requests'[p] = requests[p]
    BY <1>1, <1>3 DEF TypeOK
<1>6. requests'[r].dates # {} /\ requests'[r].dates \subseteq WorkDates
    BY <1>4 DEF LedgerInv, ChargesDates
<1>7. FollowsIn(ledger', requests', r)
    BY DEF FollowsIn
<1>8. \A x \in E : x.account = requests'[r].account
    BY <1>4
<1> QED
    BY <1>4, <1>5, <1>6, <1>7, <1>8, LedgerStepOf

(* What a move makes of the row, and what its legs would be. *)
LEMMA MovedRow ==
    ASSUME TypeOK, NEW r \in Requests, requests[r] # None, NEW status \in Statuses,
           Move(r, status)
    PROVE  /\ requests'[r] # None /\ requests'[r].status = status
           /\ requests'[r].version = requests[r].version
           /\ DebitLegs(r, requests'[r]) = DebitLegs(r, requests[r])
           /\ ReversalLegs(r, requests'[r]) = ReversalLegs(r, requests[r])
<1>1. requests'[r] = [requests[r] EXCEPT !.status = status] /\ requests[r] \in RequestType
    BY DEF Move, TypeOK
<1>2. requests'[r] \in RequestType
    BY <1>1 DEF RequestType
<1> QED
    BY <1>1, <1>2, LegsIgnoreStatus, ParameterAssumption
    DEF RequestType, DebitLegs, ReversalLegs

LEMMA LedgerStep == TypeOK /\ LedgerInv /\ [Next]_vars => LedgerInv'
<1> SUFFICES ASSUME TypeOK, LedgerInv, [Next]_vars
             PROVE  LedgerInv'
    OBVIOUS
<1>0. /\ \A r \in Requests : FollowsIn(ledger, requests, r)
      /\ Post(ledger, {}) = ledger
      /\ \A r \in Requests : AreLegs({}, r, "REQUEST")
    BY FollowsByRequest, PostNothing DEF LedgerInv, AreLegs
<1>1. ASSUME NEW r \in Requests, NEW e \in Employees, NEW c \in Categories,
             NEW start \in Dates, NEW end \in Dates, NEW partial \in Partials,
             Submit(r, e, c, start, end, partial)
      PROVE  LedgerInv'
  <2>1. PICK a \in Assignments : \E version \in versions[a.policy] :
           LET request == NewRequest(e, a.policy, version, start, end, partial)
           IN  request.dates # {} /\ requests' = [requests EXCEPT ![r] = request]
      BY <1>1 DEF Submit
  <2>2. PICK version \in versions[a.policy] :
           LET request == NewRequest(e, a.policy, version, start, end, partial)
           IN  request.dates # {} /\ requests' = [requests EXCEPT ![r] = request]
      BY <2>1
  <2> DEFINE request == NewRequest(e, a.policy, version, start, end, partial)
  <2>3. request \in RequestType /\ request # None
      BY NewRequestType, ParameterAssumption
  <2>4. request.dates \subseteq WorkDates /\ request.status = "PENDING"
      BY DEF NewRequest, ChargedDates
  <2>5. request.dates # {} /\ requests' = [requests EXCEPT ![r] = request]
      BY <2>2
  <2> HIDE DEF request
  <2>6. /\ requests'[r] = request /\ requests' \in [Requests -> RequestType \cup {None}]
        /\ \A p \in Requests \ {r} : requests'[p] = requests[p]
      BY <2>3, <2>5 DEF TypeOK
  <2>7. requests[r] = None /\ ledger' = Post(ledger, {})
      BY <1>0, <1>1 DEF Submit
  <2>8. FollowsIn(ledger', requests', r)
    <3>1. LegsIn(ledger, r, "REQUEST") = {} /\ LegsIn(ledger, r, "REQUEST_CANCELLATION") = {}
        BY <1>0, <2>7 DEF FollowsIn, Follows
    <3> QED
        BY <1>0, <2>3, <2>4, <2>6, <2>7, <3>1 DEF FollowsIn, Follows
  <2>9. PICK E : E = {} /\ AreLegs(E, r, "REQUEST") /\ \A x \in E : x.account = request.account
      BY <1>0
  <2>10. ledger' = Post(ledger, E)
      BY <2>7, <2>9
  <2> QED
      BY <2>3, <2>4, <2>5, <2>6, <2>7, <2>8, <2>9, <2>10, LedgerStepOf
<1>2. ASSUME NEW r \in Requests, Approve(r)
      PROVE  LedgerInv'
  <2> DEFINE q == requests[r]
             debits == DebitLegs(r, q)
             posted == IF Unlimited(q.version) THEN {} ELSE debits
  <2>1. q \in RequestType /\ q # None /\ q.status = "PENDING" /\ q.dates # {}
      BY <1>2 DEF Approve, IsPending, TypeOK, LedgerInv, ChargesDates
  <2>2. ledger' = Post(ledger, posted) /\ Move(r, "APPROVED") /\ "APPROVED" \in Statuses
      BY <1>0, <1>2 DEF Approve, Statuses
  <2>3. /\ AreLegs(debits, r, "REQUEST") /\ debits # {}
        /\ \A x \in debits : x.account = q.account
      BY <2>1, LegsAreLegs, LegsNonempty, LegsType DEF DebitLegs
  <2>4. /\ requests'[r] # None /\ requests'[r].status = "APPROVED"
        /\ requests'[r].version = q.version
        /\ DebitLegs(r, requests'[r]) = debits
      BY <2>1, <2>2, MovedRow
  <2> HIDE DEF debits
  <2>5. AreLegs(posted, r, "REQUEST") /\ \A x \in posted : x.account = q.account
      BY <2>3 DEF AreLegs
  <2>6. ~ Unlimited(q.version) =>
           /\ LegsIn(ledger', r, "REQUEST") = debits
           /\ LegsIn(ledger', r, "REQUEST_CANCELLATION") = {}
    <3>1. SUFFICES ASSUME ~ Unlimited(q.version)
                   PROVE  /\ LegsIn(Post(ledger, debits), r, "REQUEST") = debits
                          /\ LegsIn(Post(ledger, debits), r, "REQUEST_CANCELLATION") = {}
        BY <2>2
    <3>2. LegsIn(ledger, r, "REQUEST") = {} /\ LegsIn(ledger, r, "REQUEST_CANCELLATION") = {}
        BY <1>0, <2>1, <3>1 DEF FollowsIn, Follows
    <3> QED
        BY <2>3, <3>2, PostFreshLegs, PostOtherLegs
  <2>7. Follows(r, requests'[r], LegsIn(ledger', r, "REQUEST"),
                LegsIn(ledger', r, "REQUEST_CANCELLATION"))
      BY <2>3, <2>4, <2>6 DEF Follows
  <2> HIDE DEF posted
  <2> QED
      BY <2>1, <2>2, <2>5, <2>7, LedgerMoveOf
<1>3. ASSUME NEW r \in Requests, Deny(r)
      PROVE  LedgerInv'
  <2> DEFINE q == requests[r]
  <2>1. q # None /\ q.status = "PENDING"
      BY <1>3 DEF Deny, IsPending
  <2>2. ledger' = Post(ledger, {}) /\ Move(r, "DENIED") /\ "DENIED" \in Statuses
      BY <1>0, <1>3 DEF Deny, Statuses
  <2>3. /\ requests'[r] # None /\ requests'[r].status = "DENIED"
        /\ requests'[r].version = q.version
      BY <2>1, <2>2, MovedRow
  <2>4. Follows(r, requests'[r], LegsIn(ledger', r, "REQUEST"),
                LegsIn(ledger', r, "REQUEST_CANCELLATION"))
      BY <1>0, <2>1, <2>2, <2>3 DEF FollowsIn, Follows
  <2>5. PICK E : E = {} /\ AreLegs(E, r, "REQUEST") /\ \A x \in E : x.account = q.account
      BY <1>0
  <2> QED
      BY <2>1, <2>2, <2>4, <2>5, LedgerMoveOf
<1>4. ASSUME NEW r \in Requests, Cancel(r)
      PROVE  LedgerInv'
  <2> DEFINE q == requests[r]
             reversals == ReversalLegs(r, q)
             posted == IF q.status = "PENDING" THEN {} ELSE reversals
  <2>1. q \in RequestType /\ q # None /\ q.status \in Live
      BY <1>4 DEF Cancel, TypeOK
  <2>2. ledger' = Post(ledger, posted) /\ Move(r, "CANCELLED") /\ "CANCELLED" \in Statuses
      BY <1>0, <1>4 DEF Cancel, Statuses
  <2>3. /\ AreLegs(reversals, r, "REQUEST_CANCELLATION")
        /\ \A x \in reversals : x.account = q.account
      BY <2>1, LegsAreLegs, LegsType DEF ReversalLegs
  <2>4. /\ requests'[r] # None /\ requests'[r].status = "CANCELLED"
        /\ requests'[r].version = q.version
        /\ DebitLegs(r, requests'[r]) = DebitLegs(r, q)
        /\ ReversalLegs(r, requests'[r]) = reversals
      BY <2>1, <2>2, MovedRow
  <2> HIDE DEF reversals
  <2>5. AreLegs(posted, r, "REQUEST_CANCELLATION") /\ \A x \in posted : x.account = q.account
      BY <2>3 DEF AreLegs
  <2>6. ASSUME ~ Unlimited(q.version)
        PROVE  /\ LegsIn(ledger', r, "REQUEST") \in {{}, DebitLegs(r, q)}
               /\ LegsIn(ledger', r, "REQUEST_CANCELLATION") =
                    IF LegsIn(ledger', r, "REQUEST") # {} THEN reversals ELSE {}
    <3>1. /\ LegsIn(ledger, r, "REQUEST_CANCELLATION") = {}
          /\ LegsIn(ledger, r, "REQUEST") = IF q.status = "PENDING" THEN {} ELSE DebitLegs(r, q)
          /\ q.status # "PENDING" => LegsIn(ledger, r, "REQUEST") # {}
        BY <1>0, <2>1, <2>6 DEF FollowsIn, Follows, Live
    <3>2. LegsIn(ledger', r, "REQUEST") = LegsIn(ledger, r, "REQUEST")
        BY <2>2, <2>5, PostOtherLegs
    <3>3. LegsIn(ledger', r, "REQUEST_CANCELLATION") = posted
        BY <2>2, <2>5, <3>1, PostFreshLegs
    <3> QED
        BY <3>1, <3>2, <3>3
  <2>7. Follows(r, requests'[r], LegsIn(ledger', r, "REQUEST"),
                LegsIn(ledger', r, "REQUEST_CANCELLATION"))
      BY <2>4, <2>6 DEF Follows
  <2> HIDE DEF posted
  <2> QED
      BY <2>1, <2>2, <2>5, <2>7, LedgerMoveOf
<1>5. ASSUME NEW source \in JobSources, NEW a \in AssignedAccounts,
             NEW minutes \in JobAmounts, NEW date \in JobDates,
             JobPost(source, a, minutes, date)
      PROVE  LedgerInv'
  <2> DEFINE E == {JobEntry(source, a, minutes, date)}
  <2>1. ledger' = Post(ledger, E) /\ requests' = requests
      BY <1>5 DEF JobPost
  <2>2. \A x \in E : x.source[1] = "JOB"
      BY DEF JobEntry
  <2> HIDE DEF E
  <2>3. \A r \in Requests :
           /\ LegsIn(ledger', r, "REQUEST") = LegsIn(ledger, r, "REQUEST")
           /\ LegsIn(ledger', r, "REQUEST_CANCELLATION") = LegsIn(ledger, r, "REQUEST_CANCELLATION")
      BY <2>1, <2>2 DEF Post, LegsIn
  <2>4. LedgerFollowsStatus'
      BY <1>0, <2>1, <2>3, FollowsByRequestNext DEF FollowsIn
  <2>5. LegsOnAccount'
      BY <2>1, <2>2 DEF LedgerInv, LegsOnAccount, Post
  <2> QED
      BY <2>1, <2>4, <2>5 DEF LedgerInv, ChargesDates
<1>6. CASE UNCHANGED <<ledger, requests>>
  BY <1>6 DEF LedgerInv, LedgerFollowsStatus, LegsOf, ChargesDates, LegsOnAccount
<1> QED
  BY <1>1, <1>2, <1>3, <1>4, <1>5, <1>6
  DEF Next, vars, PublishVersion, AddHoliday, SyncHolidays, SetClock

LEMMA LedgerInit == Init => LedgerInv
BY DEF Init, LedgerInv, LedgerFollowsStatus, LegsOf, ChargesDates, LegsOnAccount

LEMMA LedgerAlways == Spec => [](TypeOK /\ LedgerInv)
BY LedgerInit, LedgerStep, TypeCorrect, PTL DEF Spec

(* Approving posts a debit for every year of a request and cancelling an   *)
(* opposite one, once each, and nothing else touches a request's legs:     *)
(* after any number of steps the ledger and the statuses agree.            *)
THEOREM LedgerTellsTheStatus == Spec => []LedgerFollowsStatus
BY LedgerAlways, PTL DEF LedgerInv

-----------------------------------------------------------------------------
(* What the legs of one request sum to. *)

LegsOfBoth(r) == LegsOf(r, "REQUEST") \cup LegsOf(r, "REQUEST_CANCELLATION")

LEMMA LegsOfBothSum ==
    ASSUME TypeOK, LedgerInv, NEW r \in Requests, requests[r] # None,
           ~ Unlimited(requests[r].version)
    PROVE  SumAmounts(LegsOfBoth(r)) =
              IF requests[r].status = "APPROVED" THEN -Total(requests[r]) ELSE 0
<1> DEFINE q == requests[r]
           debits == LegsOf(r, "REQUEST")
           reversals == LegsOf(r, "REQUEST_CANCELLATION")
<1>1. q \in RequestType /\ q.status \in Statuses /\ Total(q) \in Int
    BY CostType DEF TypeOK, RequestType
<1>2. /\ debits \in {{}, DebitLegs(r, q)}
      /\ q.status \in {"PENDING", "DENIED"} => debits = {}
      /\ q.status = "APPROVED" => debits # {}
      /\ reversals = IF q.status = "CANCELLED" /\ debits # {} THEN ReversalLegs(r, q) ELSE {}
    BY DEF LedgerInv, LedgerFollowsStatus
<1>3. /\ SumAmounts(DebitLegs(r, q)) = -Total(q)
      /\ SumAmounts(ReversalLegs(r, q)) = Total(q)
    BY <1>1, LegsSum DEF DebitLegs, ReversalLegs
<1>4. CASE q.status = "APPROVED"
  <2>1. LegsOfBoth(r) = DebitLegs(r, q)
      BY <1>2, <1>4 DEF LegsOfBoth
  <2> QED
      BY <1>3, <1>4, <2>1
<1>5. CASE q.status # "APPROVED" /\ debits = {}
  <2>1. LegsOfBoth(r) = {}
      BY <1>2, <1>5 DEF LegsOfBoth
  <2> QED
      BY <1>5, <2>1, SumEmpty
<1>6. CASE q.status # "APPROVED" /\ debits # {}
  <2>1. debits = DebitLegs(r, q) /\ reversals = ReversalLegs(r, q)
      BY <1>1, <1>2, <1>6 DEF Statuses
  <2>2. HasAmounts(DebitLegs(r, q)) /\ HasAmounts(ReversalLegs(r, q))
      BY <1>1, LegsType DEF HasAmounts, EntryType, DebitLegs, ReversalLegs
  <2>3. debits \cap reversals = {}
      BY DEF LegsOf
  <2>4. SumAmounts(LegsOfBoth(r)) = SumAmounts(DebitLegs(r, q)) + SumAmounts(ReversalLegs(r, q))
      BY <2>1, <2>2, <2>3, SumUnion DEF LegsOfBoth
  <2> HIDE DEF q
  <2> QED
      BY <1>1, <1>3, <1>6, <2>4 DEF q
<1> QED
    BY <1>4, <1>5, <1>6

(* While it is approved a request has cost its account its total, before   *)
(* and afterwards nothing, over however many years its legs are split.     *)
THEOREM LegsSumToTheTotal == Spec => []LegsSumToTotal
<1>1. TypeOK /\ LedgerInv => LegsSumToTotal
    BY LegsOfBothSum DEF LegsSumToTotal, LegsOfBoth
<1> QED
    BY <1>1, LedgerAlways, PTL

-----------------------------------------------------------------------------
(* What an account's ledger sums to. *)

(* The entries of the jobs and the legs of the requests in R. *)
EntriesWith(a, R) ==
    JobEntriesOf(a) \cup {x \in ledger : x.source[1] # "JOB" /\ x.source[2] \in R}

ApprovedIn(R) == {r \in R : requests[r].status = "APPROVED"}

(* One request more adds its legs to the entries. *)
LEMMA OneRequestMore ==
    ASSUME TypeOK, LedgerInv, NEW a \in Accounts, Metered(a),
           NEW R \in SUBSET RequestsOn(a), NEW r \in RequestsOn(a) \ R,
           SumAmounts(EntriesWith(a, R)) =
               SumAmounts(JobEntriesOf(a)) - CostAt(requests, ApprovedIn(R))
    PROVE  SumAmounts(EntriesWith(a, R \cup {r})) =
               SumAmounts(JobEntriesOf(a)) - CostAt(requests, ApprovedIn(R \cup {r}))
<1> DEFINE q == requests[r]
<1>1. r \in Requests /\ q # None /\ ~ Unlimited(q.version) /\ q \in RequestType
    BY DEF RequestsOn, Metered, TypeOK
<1>2. \A L \in SUBSET ledger : HasAmounts(L) /\ SumAmounts(L) \in Int
    BY FS_Subset, SumType DEF HasAmounts, TypeOK, EntryType
<1>3. /\ EntriesWith(a, R) \in SUBSET ledger /\ LegsOfBoth(r) \in SUBSET ledger
      /\ JobEntriesOf(a) \in SUBSET ledger
    BY DEF EntriesWith, LegsOfBoth, LegsOf, JobEntriesOf, EntriesOf
<1>4. EntriesWith(a, R) \cap LegsOfBoth(r) = {}
    BY DEF EntriesWith, LegsOfBoth, LegsOf, JobEntriesOf
<1>5. EntriesWith(a, R \cup {r}) = EntriesWith(a, R) \cup LegsOfBoth(r)
  <2>1. \A x \in ledger : x.source[1] \in {"JOB", "REQUEST", "REQUEST_CANCELLATION"}
      BY DEF TypeOK, EntryType
  <2> QED
      BY <2>1 DEF EntriesWith, LegsOfBoth, LegsOf
<1>6. SumAmounts(EntriesWith(a, R \cup {r})) =
          SumAmounts(EntriesWith(a, R)) + SumAmounts(LegsOfBoth(r))
    BY <1>2, <1>3, <1>4, <1>5, SumUnion
<1>7. SumAmounts(LegsOfBoth(r)) = IF q.status = "APPROVED" THEN -Total(q) ELSE 0
    BY <1>1, LegsOfBothSum
<1>8. SumAmounts(JobEntriesOf(a)) \in Int /\ Total(q) \in Int
    BY <1>1, <1>2, <1>3, CostType
<1>9. ApprovedIn(R \cup {r}) \in SUBSET Requests
      /\ \A p \in ApprovedIn(R \cup {r}) : requests[p] # None
    BY <1>1 DEF ApprovedIn, RequestsOn
<1>10. Priced(requests, ApprovedIn(R \cup {r}))
    BY <1>9, PendingPriced
<1>11. CASE q.status = "APPROVED"
  <2>1. ApprovedIn(R \cup {r}) = ApprovedIn(R) \cup {r} /\ r \notin ApprovedIn(R)
      BY <1>11 DEF ApprovedIn
  <2>2. /\ CostAt(requests, ApprovedIn(R)) \in Int
        /\ CostAt(requests, ApprovedIn(R \cup {r})) = CostAt(requests, ApprovedIn(R)) + Total(q)
      BY <1>10, <2>1, CostOfOneMore
  <2> QED
      BY <1>6, <1>7, <1>8, <1>11, <2>2
<1>12. CASE q.status # "APPROVED"
  <2>1. ApprovedIn(R \cup {r}) = ApprovedIn(R)
      BY <1>12 DEF ApprovedIn
  <2>2. SumAmounts(EntriesWith(a, R)) \in Int
      BY <1>2, <1>3
  <2> QED
      BY <1>6, <1>7, <1>12, <2>1, <2>2
<1> QED
    BY <1>11, <1>12

(* The entries of a metered account are its jobs' and its requests' legs.  *)
LEMMA BalanceSplits ==
    ASSUME TypeOK, LedgerInv, NEW a \in Accounts, Metered(a)
    PROVE  Balance(ledger, a) =
               SumAmounts(JobEntriesOf(a)) - CostAt(requests, ApprovedIn(RequestsOn(a)))
<1> DEFINE F == RequestsOn(a)
           Good == {R \in SUBSET F : SumAmounts(EntriesWith(a, R)) =
                       SumAmounts(JobEntriesOf(a)) - CostAt(requests, ApprovedIn(R))}
<1>1. IsFiniteSet(F)
  <2>1. F \in SUBSET Requests
      BY DEF RequestsOn
  <2> QED
      BY <2>1, ParameterAssumption, FS_Subset
<1>2. {} \in Good
  <2>1. EntriesWith(a, {}) = JobEntriesOf(a) /\ ApprovedIn({}) = {}
      BY DEF EntriesWith, ApprovedIn
  <2>2. CostAt(requests, {}) = 0
      BY SumEmpty DEF CostAt
  <2>3. JobEntriesOf(a) \in SUBSET ledger
      BY DEF JobEntriesOf, EntriesOf
  <2>4. HasAmounts(JobEntriesOf(a))
      BY <2>3, FS_Subset DEF HasAmounts, TypeOK, EntryType
  <2>5. SumAmounts(JobEntriesOf(a)) \in Int
      BY <2>4, SumType
  <2> QED
      BY <2>1, <2>2, <2>5
<1>3. \A R \in SUBSET F : \A r \in F \ R : R \in Good => R \cup {r} \in Good
    BY OneRequestMore
<1>4. F \in Good
  <2> HIDE DEF F, Good
  <2> QED
      BY <1>1, <1>2, <1>3, SubsetInduction
<1>5. EntriesWith(a, F) = EntriesOf(ledger, a)
  <2>1. \A x \in ledger : x.source[1] # "JOB" =>
           (x.source[2] \in RequestsOn(a) <=> x.account = a)
      BY DEF LedgerInv, LegsOnAccount, RequestsOn, TypeOK, EntryType
  <2> QED
      BY <2>1 DEF EntriesWith, JobEntriesOf, EntriesOf
<1> QED
    BY <1>4, <1>5 DEF Balance

(* A balance is explained by the jobs' entries and the requests that are   *)
(* approved now: no history of debits and reversals is left in it.         *)
THEOREM BalancesAreExplained == Spec => []BalanceIsGrantsLessApproved
<1>1. TypeOK /\ LedgerInv => BalanceIsGrantsLessApproved
    BY BalanceSplits DEF BalanceIsGrantsLessApproved, CostOf, CostAt, ApprovedOn, ApprovedIn
<1> QED
    BY <1>1, LedgerAlways, PTL

=============================================================================
