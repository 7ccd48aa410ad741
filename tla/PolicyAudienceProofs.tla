------------------------- MODULE PolicyAudienceProofs -------------------------
(***************************************************************************)
(* Theorems about PolicyAudience for any directory, any groups, policies   *)
(* and categories, any drafts and dates, and any sequence of calls: who is *)
(* in which group, who is assigned to what and when, and which versions    *)
(* and rules the jobs will find.                                           *)
(***************************************************************************)
EXTENDS PolicyAudience, MinuteSumsProofs

(* The memberships left after some were dropped are still apart. *)
LEMMA FewerMembers == ASSUME OneGroupPerEmployee, members' \subseteq members
                      PROVE  OneGroupPerEmployee'
BY DEF OneGroupPerEmployee

(* A group may take in employees that are in no other group, whichever of  *)
(* its own members it keeps.                                               *)
LEMMA JoiningKeepsApart ==
    ASSUME OneGroupPerEmployee, NEW g, NEW E, FreeOf(E, g), NEW Kept \in SUBSET members,
           members' = Kept \cup ({g} \X E)
    PROVE  OneGroupPerEmployee'
<1> SUFFICES ASSUME NEW m \in members', NEW n \in members', m[2] = n[2]
             PROVE  m[1] = n[1]
    BY DEF OneGroupPerEmployee
<1>1. \A x \in {g} \X E : x[1] = g /\ x[2] \in E
    OBVIOUS
<1>2. \A x \in members : x[2] \in E => x[1] = g
    BY DEF FreeOf
<1>3. CASE m \in Kept /\ n \in Kept
  BY <1>3 DEF OneGroupPerEmployee
<1>4. CASE m \in {g} \X E \/ n \in {g} \X E
  BY <1>1, <1>2, <1>4
<1> QED
    BY <1>3, <1>4

(* An employee that moves leaves every other group. *)
LEMMA MovingKeepsOne ==
    ASSUME OneGroupPerEmployee, NEW e, NEW G, \A g, h \in G : g = h,
           members' = MembersAfter(e, G)
    PROVE  OneGroupPerEmployee'
<1> SUFFICES ASSUME NEW m \in members', NEW n \in members', m[2] = n[2]
             PROVE  m[1] = n[1]
    BY DEF OneGroupPerEmployee
<1> DEFINE Others == {x \in members : x[2] # e}
<1>1. members' = Others \cup (G \X {e})
    BY DEF MembersAfter
<1>2. \A x \in G \X {e} : x[1] \in G /\ x[2] = e
    OBVIOUS
<1>3. CASE m[2] = e
  <2>1. m \in G \X {e} /\ n \in G \X {e}
      BY <1>1, <1>3
  <2> QED
      BY <1>2, <2>1
<1>4. CASE m[2] # e
  <2>1. m \in members /\ n \in members
      BY <1>1, <1>2, <1>4
  <2> QED
      BY <2>1 DEF OneGroupPerEmployee
<1> QED
    BY <1>3, <1>4

(* The three calls that write memberships keep them apart, the fourth one  *)
(* drops a group's, and no other call writes any.                          *)
LEMMA GroupStep == OneGroupPerEmployee /\ [AudienceNext]_audienceVars => OneGroupPerEmployee'
<1> SUFFICES ASSUME OneGroupPerEmployee, [AudienceNext]_audienceVars
             PROVE  OneGroupPerEmployee'
    OBVIOUS
<1>1. ASSUME NEW g \in Groups, NEW E \in SUBSET Employees, CreateGroup(g, E)
      PROVE  OneGroupPerEmployee'
  BY <1>1, JoiningKeepsApart DEF CreateGroup
<1>2. ASSUME NEW g \in Groups, NEW E \in SUBSET Employees, NEW date \in AudienceDates,
             ReplaceMembers(g, E, date)
      PROVE  OneGroupPerEmployee'
  <2>1. {m \in members : m[1] # g} \in SUBSET members
      OBVIOUS
  <2> QED
      BY <1>2, <2>1, JoiningKeepsApart DEF ReplaceMembers
<1>3. ASSUME NEW g \in Groups, NEW date \in AudienceDates, RemoveGroup(g, date)
      PROVE  OneGroupPerEmployee'
  BY <1>3, FewerMembers DEF RemoveGroup
<1>4. ASSUME NEW e \in Employees, NEW G \in SUBSET Groups, NEW date \in AudienceDates,
             SetEmployeeGroup(e, G, date)
      PROVE  OneGroupPerEmployee'
  BY <1>4, MovingKeepsOne DEF SetEmployeeGroup
<1>5. CASE UNCHANGED members
  BY <1>5, FewerMembers
<1>6. ASSUME NEW date \in AudienceDates, Reconciling(date)
      PROVE  OneGroupPerEmployee'
  BY <1>2, <1>3, <1>4, <1>5, <1>6
  DEF Reconciling, SetPolicyAudience, CreatePolicy, UpdatePolicyAndAudience
<1> QED
  BY <1>1, <1>5, <1>6 DEF AudienceNext, audienceVars, UpdatePolicy, Assign, EndAssignment

(* An employee is never in two groups, however the calls that create a     *)
(* group, replace its members, move an employee and remove a group follow  *)
(* each other.                                                             *)
THEOREM NeverInTwoGroups == AudienceSpec => []OneGroupPerEmployee
<1>1. AudienceInit => OneGroupPerEmployee
    BY DEF AudienceInit, OneGroupPerEmployee
<1> QED
    BY <1>1, GroupStep, PTL DEF AudienceSpec

-----------------------------------------------------------------------------
(* What one reconciliation does to the rows. *)

Ranged(rows) == rows \subseteq RowType /\ \A x \in rows : x.from <= x.to

(* No two rows of an employee in one category share a date. *)
Apart(rows) ==
    \A x, y \in rows :
        x.employee = y.employee /\ CategoryOf[x.policy] = CategoryOf[y.policy] /\ x # y =>
            x.to < y.from \/ y.to < x.from

Unwanted(rows, p, desired, date) ==
    {x \in rows : x.policy = p /\ Covers(x, date) /\ x.employee \notin desired}

LEMMA ReconciledIs ==
    ASSUME NEW rows, NEW p, NEW desired, NEW date
    PROVE  Reconciled(rows, p, desired, date) =
              (rows \ Unwanted(rows, p, desired, date))
                 \cup Closed(Unwanted(rows, p, desired, date), date)
                 \cup NewRows(Missing(rows, p, desired, date), p, date)
BY DEF Reconciled, Unwanted

LEMMA DateTypes ==
    /\ Dates \subseteq Int /\ Open \in Int
    /\ \A d \in Dates : 0 <= d /\ d < Open
    /\ \A d, e \in Dates : d < e => e - 1 \in Dates
BY CalendarAssumption DEF Dates, Open

(* Every row afterwards is a row there was, perhaps cut short, or a new    *)
(* one of an employee the policy was missing.                              *)
LEMMA RowsComeFrom ==
    ASSUME NEW rows, Ranged(rows), NEW p \in Policies, NEW desired \in SUBSET Employees,
           NEW date \in Dates, NEW x \in Reconciled(rows, p, desired, date)
    PROVE  \/ \E o \in rows :
                 /\ x.employee = o.employee /\ x.policy = o.policy /\ x.from = o.from
                 /\ x.to <= o.to /\ x \in RowType /\ x.from <= x.to
                 /\ x = o \/ (o.policy = p /\ x = [o EXCEPT !.to = date - 1]
                              /\ Covers(o, date) /\ o.from < date
                              /\ o.employee \notin desired)
           \/ /\ x.employee \in Missing(rows, p, desired, date)
              /\ x.policy = p /\ x.from = date /\ x.to = Open
              /\ x \in RowType /\ x.from <= x.to
<1> DEFINE U == Unwanted(rows, p, desired, date)
<1>1. CASE x \in rows \ U
  <2>1. x.to \in Int
      BY <1>1, DateTypes DEF Ranged, RowType
  <2> QED
      BY <1>1, <2>1 DEF Ranged
<1>2. CASE x \in Closed(U, date)
  <2>1. PICK o \in U : o.from # date /\ x = [o EXCEPT !.to = date - 1]
      BY <1>2 DEF Closed
  <2>2. /\ o \in rows /\ o \in RowType /\ Covers(o, date) /\ o.policy = p
        /\ o.employee \notin desired
      BY DEF Unwanted, Ranged
  <2>3. o.from \in Dates /\ o.from < date /\ date <= o.to /\ o.to \in Int /\ date - 1 \in Dates
      BY <2>1, <2>2, DateTypes DEF Covers, RowType
  <2>4. /\ x.employee = o.employee /\ x.policy = o.policy /\ x.from = o.from
        /\ x.to = date - 1 /\ x \in RowType
      BY <2>1, <2>2, <2>3 DEF RowType
  <2> QED
      BY <2>1, <2>2, <2>3, <2>4, DateTypes
<1>3. CASE x \in NewRows(Missing(rows, p, desired, date), p, date)
  <2>1. PICK e \in Missing(rows, p, desired, date) :
           x = [employee |-> e, policy |-> p, from |-> date, to |-> Open]
      BY <1>3 DEF NewRows
  <2>2. e \in Employees
      BY DEF Missing
  <2> QED
      BY <2>1, <2>2, DateTypes DEF RowType
<1> QED
    BY <1>1, <1>2, <1>3, ReconciledIs

(* Reconciling keeps the rows of their type and the employees' rows apart. *)
LEMMA ReconciledApart ==
    ASSUME NEW rows, Ranged(rows), Apart(rows),
           NEW p \in Policies, NEW desired \in SUBSET Employees, NEW date \in Dates,
           \A e \in Missing(rows, p, desired, date) : ~ Collides(rows, e, p, date)
    PROVE  /\ Ranged(Reconciled(rows, p, desired, date))
           /\ Apart(Reconciled(rows, p, desired, date))
           /\ \A x \in Reconciled(rows, p, desired, date) :
                 x.policy = p \/ \E o \in rows : x.policy = o.policy
<1> DEFINE R == Reconciled(rows, p, desired, date)
           M == Missing(rows, p, desired, date)
           Old(x, o) == /\ x.employee = o.employee /\ x.policy = o.policy /\ x.from = o.from
                        /\ x.to <= o.to
                        /\ x = o \/ (o.policy = p /\ x = [o EXCEPT !.to = date - 1]
                                     /\ Covers(o, date) /\ o.from < date
                                     /\ o.employee \notin desired)
           Fresh(x) == x.employee \in M /\ x.policy = p /\ x.from = date /\ x.to = Open
<1>1. \A x \in R : /\ x \in RowType /\ x.from <= x.to
                   /\ (\E o \in rows : Old(x, o)) \/ Fresh(x)
    BY RowsComeFrom
<1>2. Ranged(R)
    BY <1>1 DEF Ranged
<1>3. ASSUME NEW x \in R, NEW y \in R, x # y, x.employee = y.employee,
             CategoryOf[x.policy] = CategoryOf[y.policy]
      PROVE  x.to < y.from \/ y.to < x.from
  <2>0. /\ x.from \in Int /\ x.to \in Int /\ y.from \in Int /\ y.to \in Int
        /\ x \in RowType /\ y \in RowType
      BY <1>1, DateTypes DEF RowType
  <2>1. ASSUME NEW o \in rows, Old(x, o), NEW n \in rows, Old(y, n)
        PROVE  x.to < y.from \/ y.to < x.from
    <3>1. o # n
      <4>1. SUFFICES ASSUME o = n PROVE FALSE
          OBVIOUS
      <4>2. x = o \/ y = o
          BY <1>3, <2>1, <4>1
      <4>3. (x = o /\ y = [o EXCEPT !.to = date - 1] /\ Covers(o, date) /\ o.employee \notin desired /\ o.policy = p)
            \/ (y = o /\ x = [o EXCEPT !.to = date - 1] /\ Covers(o, date) /\ o.employee \notin desired /\ o.policy = p)
          BY <1>3, <2>1, <4>1, <4>2
      <4>4. o \in Unwanted(rows, p, desired, date)
          BY <4>3 DEF Unwanted
      <4>5. o \notin R
        <5>1. o \notin Closed(Unwanted(rows, p, desired, date), date)
          <6>1. \A z \in Closed(Unwanted(rows, p, desired, date), date) : z.to = date - 1
              BY DEF Closed, Unwanted, Ranged, RowType
          <6> QED
              BY <4>3, <6>1, DateTypes DEF Covers, Ranged, RowType
        <5>2. o \notin NewRows(M, p, date)
            BY <4>4 DEF NewRows, Missing, Unwanted
        <5> QED
            BY <4>4, <5>1, <5>2, ReconciledIs
      <4> QED
          BY <4>2, <4>5
    <3>2. o.to < n.from \/ n.to < o.from
        BY <1>3, <2>1, <3>1 DEF Apart
    <3>3. o.from \in Int /\ o.to \in Int /\ n.from \in Int /\ n.to \in Int
        BY DateTypes DEF Ranged, RowType
    <3> QED
        BY <2>0, <2>1, <3>2, <3>3
  <2>2. ASSUME NEW z \in R, NEW f \in R, Fresh(f), NEW o \in rows, Old(z, o),
               z.employee = f.employee, CategoryOf[z.policy] = CategoryOf[f.policy]
        PROVE  z.to < f.from
    <3>1. ~ Collides(rows, f.employee, p, date)
        BY <2>2
    <3>2. ~ (o.to >= date)
        BY <2>2, <3>1 DEF Collides
    <3>3. o.to \in Int /\ z.to \in Int
        BY <1>1, DateTypes DEF Ranged, RowType
    <3> QED
        BY <2>2, <3>2, <3>3, DateTypes
  <2>3. CASE Fresh(x) /\ Fresh(y)
      BY <1>3, <2>0, <2>3 DEF RowType
  <2> QED
      BY <1>1, <1>3, <2>1, <2>2, <2>3
<1>4. Apart(R)
    BY <1>3 DEF Apart
<1>5. \A x \in R : x.policy = p \/ \E o \in rows : x.policy = o.policy
    BY <1>1
<1> QED
    BY <1>2, <1>4, <1>5

LEMMA EligibleIs ==
    \A rows, q, day, e :
        e \in EligibleOn(rows, q, day) <=>
            \E x \in rows : x.policy = q /\ Covers(x, day) /\ x.employee = e
BY DEF EligibleOn

(* Who was eligible on an earlier day still was, for every policy. *)
LEMMA ReconciledHistory ==
    ASSUME NEW rows, Ranged(rows), NEW p \in Policies, NEW desired \in SUBSET Employees,
           NEW date \in Dates, NEW day \in Dates, day < date, NEW q
    PROVE  EligibleOn(Reconciled(rows, p, desired, date), q, day) = EligibleOn(rows, q, day)
<1> DEFINE R == Reconciled(rows, p, desired, date)
           U == Unwanted(rows, p, desired, date)
<1>0. \A x \in rows : x \in RowType /\ x.from \in Int /\ x.to \in Int
    BY DateTypes DEF Ranged, RowType
<1>1. ASSUME NEW x \in R, x.policy = q, Covers(x, day)
      PROVE  \E o \in rows : o.policy = q /\ Covers(o, day) /\ o.employee = x.employee
  <2>1. x.from # date
      BY <1>1, DateTypes DEF Covers
  <2>2. PICK o \in rows : /\ x.employee = o.employee /\ x.policy = o.policy
                          /\ x.from = o.from /\ x.to <= o.to /\ x \in RowType
      BY <2>1, RowsComeFrom
  <2>3. x.to \in Int /\ o.to \in Int
      BY <1>0, <2>2, DateTypes DEF RowType
  <2> QED
      BY <1>1, <2>2, <2>3, DateTypes DEF Covers
<1>2. ASSUME NEW o \in rows, o.policy = q, Covers(o, day)
      PROVE  \E x \in R : x.policy = q /\ Covers(x, day) /\ x.employee = o.employee
  <2>1. CASE o \notin U
      BY <1>2, <2>1, ReconciledIs
  <2>2. CASE o \in U
    <3> DEFINE x == [o EXCEPT !.to = date - 1]
    <3>1. o.from # date
        BY <1>0, <1>2, DateTypes DEF Covers
    <3>2. x \in R
        BY <2>2, <3>1, ReconciledIs DEF Closed
    <3>3. x.policy = q /\ x.employee = o.employee /\ x.from = o.from /\ x.to = date - 1
        BY <1>0, <1>2 DEF RowType
    <3>4. Covers(x, day)
        BY <1>2, <3>3, DateTypes DEF Covers
    <3> QED
        BY <3>2, <3>3, <3>4
  <2> QED
      BY <2>1, <2>2
<1> HIDE DEF R
<1>3. \A e : e \in EligibleOn(R, q, day) <=> e \in EligibleOn(rows, q, day)
    BY <1>1, <1>2, EligibleIs
<1> QED
    BY <1>3 DEF R, EligibleOn

(* On the date itself the policy's employees are the desired ones, and     *)
(* those of the other policies are as they were.                           *)
LEMMA ReconciledNow ==
    ASSUME NEW rows, Ranged(rows), NEW p \in Policies, NEW desired \in SUBSET Employees,
           NEW date \in Dates
    PROVE  /\ EligibleOn(Reconciled(rows, p, desired, date), p, date) = desired
           /\ \A q \in Policies \ {p} :
                 EligibleOn(Reconciled(rows, p, desired, date), q, date) = EligibleOn(rows, q, date)
<1> DEFINE R == Reconciled(rows, p, desired, date)
           U == Unwanted(rows, p, desired, date)
<1>0. \A x \in rows : x \in RowType /\ x.from \in Int /\ x.to \in Int
    BY DateTypes DEF Ranged, RowType
<1>1. \A x \in Closed(U, date) : x.policy = p /\ ~ Covers(x, date)
  <2>1. SUFFICES ASSUME NEW o \in U, o.from # date
                 PROVE  [o EXCEPT !.to = date - 1].policy = p
                        /\ ~ Covers([o EXCEPT !.to = date - 1], date)
      BY DEF Closed
  <2>2. [o EXCEPT !.to = date - 1].policy = p /\ [o EXCEPT !.to = date - 1].to = date - 1
      BY <1>0 DEF Unwanted, RowType
  <2> QED
      BY <2>2, DateTypes DEF Covers
<1>2. \A x \in NewRows(Missing(rows, p, desired, date), p, date) :
         x.policy = p /\ Covers(x, date) /\ x.employee \in desired
    BY DateTypes DEF NewRows, Missing, Covers
<1>3. \A e : e \in EligibleOn(R, p, date) <=> e \in desired
  <2>1. ASSUME NEW x \in R, x.policy = p, Covers(x, date)
        PROVE  x.employee \in desired
    <3>1. x \in rows \ U \/ x \in NewRows(Missing(rows, p, desired, date), p, date)
        BY <1>1, <2>1, ReconciledIs
    <3> QED
        BY <1>2, <2>1, <3>1 DEF Unwanted
  <2>2. ASSUME NEW e \in desired
        PROVE  \E x \in R : x.policy = p /\ Covers(x, date) /\ x.employee = e
    <3>1. CASE e \in EligibleOn(rows, p, date)
      <4>1. PICK o \in rows : o.policy = p /\ Covers(o, date) /\ o.employee = e
          BY <3>1, EligibleIs
      <4>2. o \in R
          BY <2>2, <4>1, ReconciledIs DEF Unwanted
      <4> QED
          BY <4>1, <4>2
    <3>2. CASE e \notin EligibleOn(rows, p, date)
      <4> DEFINE x == [employee |-> e, policy |-> p, from |-> date, to |-> Open]
      <4>1. x \in NewRows(Missing(rows, p, desired, date), p, date)
          BY <3>2 DEF NewRows, Missing
      <4>2. x \in R /\ Covers(x, date)
          BY <1>2, <4>1, ReconciledIs
      <4> QED
          BY <4>2
    <3> QED
        BY <3>1, <3>2
  <2> HIDE DEF R
  <2> QED
      BY <2>1, <2>2, EligibleIs
<1>4. ASSUME NEW q \in Policies \ {p}
      PROVE  \A e : e \in EligibleOn(R, q, date) <=> e \in EligibleOn(rows, q, date)
  <2>1. \A x : x.policy = q => (x \in R <=> x \in rows)
    <3>1. \A x \in U : x.policy = p
        BY DEF Unwanted
    <3> QED
        BY <1>1, <1>2, <3>1, <1>4, ReconciledIs
  <2> HIDE DEF R
  <2> QED
      BY <2>1, EligibleIs
<1> HIDE DEF R
<1>5. EligibleOn(R, p, date) = desired
    BY <1>3
<1>6. \A q \in Policies \ {p} : EligibleOn(R, q, date) = EligibleOn(rows, q, date)
    BY <1>4 DEF EligibleOn
<1> QED
    BY <1>5, <1>6 DEF R

-----------------------------------------------------------------------------
(* A run of reconciliations, one policy after the other. *)

IsRun(g, n, order, desired, date) ==
    g = [i \in 0 .. n |->
           IF i = 0 THEN assignments
           ELSE Reconciled(g[i - 1], order[i], desired[order[i]], date)]

(* There is a run of every length: one step more continues a shorter one.  *)
LEMMA RunExists ==
    ASSUME NEW order, NEW desired, NEW date, NEW n \in Nat
    PROVE  \E g : IsRun(g, n, order, desired, date)
<1> DEFINE Without == {k \in Nat : ~ \E g : IsRun(g, k, order, desired, date)}
<1>1. SUFFICES ASSUME Without # {} PROVE FALSE
    OBVIOUS
<1>2. PICK m \in Without : \A k \in Without : m <= k
    BY <1>1, LeastNumber
<1>3. CASE m = 0
  <2>1. IsRun([i \in 0 .. 0 |-> assignments], 0, order, desired, date)
      BY DEF IsRun
  <2> QED
      BY <1>3, <2>1
<1>4. CASE m # 0
  <2>1. m - 1 \in Nat /\ m - 1 \notin Without
      BY <1>2, <1>4
  <2>2. PICK h : IsRun(h, m - 1, order, desired, date)
      BY <2>1
  <2> DEFINE g == [i \in 0 .. m |->
                     IF i = m THEN Reconciled(h[m - 1], order[m], desired[order[m]], date)
                     ELSE h[i]]
  <2>3. \A i \in 0 .. m : g[i] = IF i = 0 THEN assignments
                     ELSE Reconciled(g[i - 1], order[i], desired[order[i]], date)
    <3>1. SUFFICES ASSUME NEW i \in 0 .. m
                   PROVE  g[i] = IF i = 0 THEN assignments
                               ELSE Reconciled(g[i - 1], order[i], desired[order[i]], date)
        OBVIOUS
    <3>2. CASE i = m
      <4>1. g[i - 1] = h[i - 1]
          BY <1>4, <3>2
      <4> QED
          BY <1>4, <3>2, <4>1
    <3>3. CASE i # m
      <4>1. i \in 0 .. (m - 1) /\ g[i] = h[i]
          BY <3>3
      <4>2. h[i] = IF i = 0 THEN assignments
                   ELSE Reconciled(h[i - 1], order[i], desired[order[i]], date)
          BY <2>2, <4>1 DEF IsRun
      <4>3. i # 0 => g[i - 1] = h[i - 1]
          BY <3>3
      <4> QED
          BY <4>1, <4>2, <4>3
    <3> QED
        BY <3>2, <3>3
  <2>4. IsRun(g, m, order, desired, date)
    <3> DEFINE f == [i \in 0 .. m |->
                       IF i = 0 THEN assignments
                       ELSE Reconciled(g[i - 1], order[i], desired[order[i]], date)]
    <3>1. g = f
        BY <2>3
    <3> QED
        BY <3>1 DEF IsRun
  <2> QED
      BY <2>4
<1> QED
    BY <1>3, <1>4

LEMMA RowsAfterRun ==
    ASSUME NEW order \in Seq(Policies), NEW desired, NEW date
    PROVE  IsRun(RowsAfter(order, desired, date), Len(order), order, desired, date)
<1>1. Len(order) \in Nat
    OBVIOUS
<1>2. \E g : IsRun(g, Len(order), order, desired, date)
    BY <1>1, RunExists
<1> QED
    BY <1>2 DEF IsRun, RowsAfter

LEMMA RowsAfterStep ==
    ASSUME NEW order \in Seq(Policies), NEW desired, NEW date
    PROVE  LET after == RowsAfter(order, desired, date)
           IN  /\ after[0] = assignments
               /\ \A i \in 1 .. Len(order) :
                     after[i] = Reconciled(after[i - 1], order[i], desired[order[i]], date)
<1> DEFINE after == RowsAfter(order, desired, date)
<1>1. after = [i \in 0 .. Len(order) |->
                 IF i = 0 THEN assignments
                 ELSE Reconciled(after[i - 1], order[i], desired[order[i]], date)]
    BY RowsAfterRun DEF IsRun
<1>2. Len(order) \in Nat
    OBVIOUS
<1> HIDE DEF after
<1>3. after[0] = assignments
    BY <1>1, <1>2
<1>4. \A i \in 1 .. Len(order) :
         after[i] = Reconciled(after[i - 1], order[i], desired[order[i]], date)
    BY <1>1, <1>2
<1> QED
    BY <1>3, <1>4 DEF after

(* What a run of reconciliations leaves after its first i policies.        *)
Progress(rows, i, order, desired, date) ==
    /\ Ranged(rows) /\ Apart(rows)
    /\ \A x \in rows : \/ \E j \in 1 .. i : x.policy = order[j]
                       \/ \E o \in assignments : x.policy = o.policy
    /\ \A q \in Policies, day \in Dates :
          day < date => EligibleOn(rows, q, day) = EligibleOn(assignments, q, day)
    /\ \A j \in 1 .. i : EligibleOn(rows, order[j], date) = desired[order[j]]
    /\ \A q \in Policies : (\A j \in 1 .. i : order[j] # q) =>
          EligibleOn(rows, q, date) = EligibleOn(assignments, q, date)

LEMMA ProgressStep ==
    ASSUME NEW rows, NEW order \in Seq(Policies), NEW desired \in [Policies -> SUBSET Employees],
           NEW date \in Dates, NEW i \in 1 .. Len(order),
           Progress(rows, i - 1, order, desired, date),
           \A e \in Missing(rows, order[i], desired[order[i]], date) :
               ~ Collides(rows, e, order[i], date)
    PROVE  Progress(Reconciled(rows, order[i], desired[order[i]], date), i, order, desired, date)
<1> DEFINE p == order[i]
           R == Reconciled(rows, p, desired[p], date)
<1>0. p \in Policies /\ desired[p] \in SUBSET Employees /\ i \in Nat /\ i >= 1
      /\ Ranged(rows) /\ Apart(rows)
    BY DEF Progress
<1>a. \A j \in 1 .. i : j \in 1 .. (i - 1) \/ j = i
    BY <1>0
<1>b. \A j \in 1 .. (i - 1) : j \in 1 .. i /\ order[j] \in Policies
    BY <1>0
<1>1. /\ Ranged(R) /\ Apart(R)
      /\ \A x \in R : x.policy = p \/ \E o \in rows : x.policy = o.policy
  <2> HIDE DEF p
  <2> QED
    BY <1>0, ReconciledApart DEF p
<1>2. \A q \in Policies, day \in Dates :
         day < date => EligibleOn(R, q, day) = EligibleOn(rows, q, day)
    BY <1>0, ReconciledHistory
<1>3. /\ EligibleOn(R, p, date) = desired[p]
      /\ \A q \in Policies \ {p} : EligibleOn(R, q, date) = EligibleOn(rows, q, date)
    BY <1>0, ReconciledNow
<1>p. p = order[i]
    OBVIOUS
<1> HIDE DEF p, R
<1>4. ASSUME NEW x \in R
      PROVE  (\E j \in 1 .. i : x.policy = order[j]) \/ (\E o \in assignments : x.policy = o.policy)
  <2>1. CASE x.policy = p
      BY <1>0, <1>p, <2>1
  <2>2. CASE \E o \in rows : x.policy = o.policy
    <3>1. PICK o \in rows : x.policy = o.policy
        BY <2>2
    <3>2. (\E j \in 1 .. (i - 1) : o.policy = order[j]) \/ (\E a \in assignments : o.policy = a.policy)
        BY DEF Progress
    <3> QED
        BY <1>b, <3>1, <3>2
  <2> QED
      BY <1>1, <2>1, <2>2
<1>5. \A q \in Policies, day \in Dates :
         day < date => EligibleOn(R, q, day) = EligibleOn(assignments, q, day)
    BY <1>2 DEF Progress
<1>6. ASSUME NEW j \in 1 .. i
      PROVE  EligibleOn(R, order[j], date) = desired[order[j]]
  <2>1. CASE order[j] = p
      BY <1>3, <2>1
  <2>2. CASE order[j] # p
      BY <1>a, <1>b, <1>3, <1>p, <2>2 DEF Progress
  <2> QED
      BY <2>1, <2>2
<1>7. ASSUME NEW q \in Policies, \A j \in 1 .. i : order[j] # q
      PROVE  EligibleOn(R, q, date) = EligibleOn(assignments, q, date)
  <2>1. q # p
      BY <1>0, <1>7, <1>p
  <2>2. \A j \in 1 .. (i - 1) : order[j] # q
      BY <1>b, <1>7
  <2> QED
      BY <1>3, <2>1, <2>2 DEF Progress
<1>8. Progress(R, i, order, desired, date)
    BY <1>1, <1>4, <1>5, <1>6, <1>7 DEF Progress
<1> QED
    BY <1>8 DEF R, p

(* However many policies a call reconciles, the rows it leaves after any   *)
(* number of them are as one reconciliation leaves them.                   *)
LEMMA RunsProgress ==
    ASSUME NEW order \in Seq(Policies), NEW desired \in [Policies -> SUBSET Employees],
           NEW date \in Dates, Ranged(assignments), Apart(assignments),
           CanReconcile(order, desired, date), NEW n \in 0 .. Len(order)
    PROVE  Progress(RowsAfter(order, desired, date)[n], n, order, desired, date)
<1> DEFINE after == RowsAfter(order, desired, date)
           Stray == {k \in 0 .. Len(order) : ~ Progress(after[k], k, order, desired, date)}
<1>0. Len(order) \in Nat
    OBVIOUS
<1>1. SUFFICES ASSUME Stray # {} PROVE FALSE
    OBVIOUS
<1>2. PICK m \in Stray : \A k \in Stray : m <= k
  <2>1. Stray \in SUBSET Nat
      BY <1>0
  <2> HIDE DEF Stray
  <2> QED
      BY <1>1, <2>1, LeastNumber
<1>3. /\ after[0] = assignments
      /\ \A i \in 1 .. Len(order) :
            after[i] = Reconciled(after[i - 1], order[i], desired[order[i]], date)
    BY RowsAfterStep
<1>4. \A i \in 1 .. Len(order) :
         \A e \in Missing(after[i - 1], order[i], desired[order[i]], date) :
             ~ Collides(after[i - 1], e, order[i], date)
  <2>1. DOMAIN order = 1 .. Len(order)
      OBVIOUS
  <2> QED
      BY <2>1 DEF CanReconcile
<1> HIDE DEF after
<1>5. CASE m = 0
  <2>1. Progress(assignments, 0, order, desired, date)
      BY DEF Progress
  <2> QED
      BY <1>2, <1>3, <1>5, <2>1
<1>6. CASE m # 0
  <2>1. m \in 1 .. Len(order) /\ m - 1 \in 0 .. Len(order) /\ m - 1 \notin Stray
      BY <1>0, <1>2, <1>6
  <2>2. Progress(after[m - 1], m - 1, order, desired, date)
      BY <2>1
  <2>3. Progress(Reconciled(after[m - 1], order[m], desired[order[m]], date),
                 m, order, desired, date)
      BY <1>4, <2>1, <2>2, ProgressStep
  <2> QED
      BY <1>2, <1>3, <2>1, <2>3
<1> QED
    BY <1>5, <1>6

-----------------------------------------------------------------------------
(* The orders policies are reconciled in. *)

(* The order names each policy of S once, and no other. *)
Visits(order, S) ==
    /\ order \in Seq(Policies)
    /\ \A p \in S : \E i \in 1 .. Len(order) : order[i] = p
    /\ \A i \in 1 .. Len(order) : order[i] \in S
    /\ \A i, j \in 1 .. Len(order) : order[i] = order[j] => i = j

LEMMA SetOrders ==
    ASSUME NEW S \in SUBSET Policies, NEW order \in SetToSeqs(S)
    PROVE  Visits(order, S)
<1>1. IsFiniteSet(S)
    BY AudienceAssumption, FS_Subset
<1>2. PICK n \in Nat : n = Cardinality(S)
    BY <1>1, FS_CardinalityType
<1>3. order \in [1 .. n -> S] /\ \A i, j \in 1 .. n : i # j => order[i] # order[j]
    BY <1>2 DEF SetToSeqs
<1>4. order \in Seq(Policies) /\ Len(order) = n
    BY <1>3
<1>5. order \in Injection(1 .. n, S)
    BY <1>3 DEF Injection, IsInjective
<1>6. Cardinality(1 .. n) = n
    BY FS_Interval
<1>7. order \in Surjection(1 .. n, S)
    BY <1>1, <1>2, <1>5, <1>6, FS_Injection
<1>8. \A p \in S : \E i \in 1 .. n : order[i] = p
    BY <1>7 DEF Surjection
<1> QED
    BY <1>3, <1>4, <1>8 DEF Visits

(* One order after another visits what both do, when they share nothing. *)
LEMMA JoinedOrders ==
    ASSUME NEW S, NEW T, S \cap T = {}, NEW s, NEW t, Visits(s, S), Visits(t, T)
    PROVE  /\ Visits(s \o t, S \cup T)
           /\ Len(s \o t) = Len(s) + Len(t)
           /\ \A i \in 1 .. Len(s) : (s \o t)[i] = s[i]
           /\ \A i \in 1 .. Len(t) : (s \o t)[Len(s) + i] = t[i]
<1>1. s \in Seq(Policies) /\ t \in Seq(Policies)
    BY DEF Visits
<1>2. /\ s \o t \in Seq(Policies) /\ Len(s) \in Nat /\ Len(t) \in Nat
      /\ Len(s \o t) = Len(s) + Len(t)
      /\ \A i \in 1 .. Len(s) : (s \o t)[i] = s[i]
      /\ \A i \in 1 .. Len(t) : (s \o t)[Len(s) + i] = t[i]
    BY <1>1
<1>3. \A i \in 1 .. Len(s) : i \in 1 .. Len(s) + Len(t)
    BY <1>2
<1>4. \A i \in 1 .. Len(t) : Len(s) + i \in 1 .. Len(s) + Len(t)
    BY <1>2
<1>5. \A i \in 1 .. Len(s) + Len(t) :
         \/ i \in 1 .. Len(s) /\ (s \o t)[i] = s[i]
         \/ i - Len(s) \in 1 .. Len(t) /\ (s \o t)[i] = t[i - Len(s)]
  <2>1. SUFFICES ASSUME NEW i \in 1 .. Len(s) + Len(t)
                 PROVE  \/ i \in 1 .. Len(s) /\ (s \o t)[i] = s[i]
                        \/ i - Len(s) \in 1 .. Len(t) /\ (s \o t)[i] = t[i - Len(s)]
      OBVIOUS
  <2>2. i \in 1 .. Len(s) \/ (i - Len(s) \in 1 .. Len(t) /\ Len(s) + (i - Len(s)) = i)
      BY <1>2
  <2> QED
      BY <1>2, <2>2
<1>6. \A p \in S \cup T : \E i \in 1 .. Len(s \o t) : (s \o t)[i] = p
  <2>1. ASSUME NEW p \in S PROVE \E i \in 1 .. Len(s \o t) : (s \o t)[i] = p
      BY <1>2, <1>3 DEF Visits
  <2>2. ASSUME NEW p \in T PROVE \E i \in 1 .. Len(s \o t) : (s \o t)[i] = p
    <3>1. PICK i \in 1 .. Len(t) : t[i] = p
        BY DEF Visits
    <3> QED
        BY <1>2, <1>4, <3>1
  <2> QED
      BY <2>1, <2>2
<1>7. \A i \in 1 .. Len(s \o t) : (s \o t)[i] \in S \cup T
    BY <1>2, <1>5 DEF Visits
<1>8. ASSUME NEW i \in 1 .. Len(s \o t), NEW j \in 1 .. Len(s \o t), (s \o t)[i] = (s \o t)[j]
      PROVE  i = j
  <2>1. CASE i \in 1 .. Len(s) /\ j \in 1 .. Len(s)
      BY <1>2, <1>8, <2>1 DEF Visits
  <2>2. CASE i - Len(s) \in 1 .. Len(t) /\ j - Len(s) \in 1 .. Len(t)
    <3>1. t[i - Len(s)] = t[j - Len(s)]
      <4>1. (s \o t)[Len(s) + (i - Len(s))] = t[i - Len(s)] /\ (s \o t)[Len(s) + (j - Len(s))] = t[j - Len(s)]
          BY <1>2, <2>2
      <4>2. Len(s) + (i - Len(s)) = i /\ Len(s) + (j - Len(s)) = j
          BY <1>2
      <4> QED
          BY <1>8, <4>1, <4>2
    <3>2. i - Len(s) = j - Len(s)
        BY <2>2, <3>1 DEF Visits
    <3> QED
        BY <1>2, <3>2
  <2>3. \A k \in 1 .. Len(s) : s[k] \in S
      BY DEF Visits
  <2>4. \A k \in 1 .. Len(t) : t[k] \in T
      BY DEF Visits
  <2> QED
      BY <1>2, <1>5, <1>8, <2>1, <2>2, <2>3, <2>4
<1> QED
    BY <1>2, <1>6, <1>7, <1>8 DEF Visits

(* A move visits the policies of the old group and of the new one. *)
LEMMA MoveOrdersVisit ==
    ASSUME NEW old \in SUBSET Policies, NEW new \in SUBSET Policies,
           NEW order \in MoveOrders(old, new)
    PROVE  Visits(order, old \cup new)
<1>1. PICK left \in SetToSeqs(old \ new), both \in SetToSeqs(old \cap new),
           joined \in SetToSeqs(new \ old) : order = left \o both \o joined
    BY DEF MoveOrders
<1>2. Visits(left, old \ new) /\ Visits(both, old \cap new) /\ Visits(joined, new \ old)
    BY SetOrders
<1>3. PICK A, B, C, AB : A = old \ new /\ B = old \cap new /\ C = new \ old /\ AB = A \cup B
    OBVIOUS
<1>4. PICK lb : lb = left \o both
    OBVIOUS
<1>5. Visits(lb, AB)
    BY <1>2, <1>3, <1>4, JoinedOrders
<1>6. Visits(lb \o joined, AB \cup C)
    BY <1>2, <1>3, <1>5, JoinedOrders
<1>7. AB \cup C = old \cup new
    BY <1>3
<1> QED
    BY <1>1, <1>4, <1>6, <1>7

-----------------------------------------------------------------------------
(* The calls that reconcile. *)

(* What a call that aims the policies of S anew leaves: rows that are      *)
(* still apart, the same eligibility before its date, on the date exactly  *)
(* the audiences of S, and the audiences of the others as they were.       *)
Aimed(S, date) ==
    /\ S \subseteq Policies
    /\ Ranged(assignments') /\ Apart(assignments')
    /\ \A x \in assignments' : x.policy \in S \/ \E o \in assignments : x.policy = o.policy
    /\ \A q \in Policies, day \in Dates :
          day < date => EligibleOn(assignments', q, day) = EligibleOn(assignments, q, day)
    /\ \A q \in S : EligibleOn(assignments', q, date) = AudienceOf(q)'
    /\ \A q \in Policies \ S : AudienceOf(q)' = AudienceOf(q)

LEMMA ReconcilesAimed ==
    ASSUME NEW S \in SUBSET Policies, NEW order, Visits(order, S),
           NEW desired \in [Policies -> SUBSET Employees], NEW date \in Dates,
           Ranged(assignments), Apart(assignments), ReconcileAll(order, desired, date),
           \A q \in S : desired[q] = AudienceOf(q)',
           \A q \in Policies \ S : AudienceOf(q)' = AudienceOf(q)
    PROVE  Aimed(S, date)
<1>1. order \in Seq(Policies) /\ Len(order) \in Nat /\ Len(order) \in 0 .. Len(order)
    BY DEF Visits
<1>2. assignments' = RowsAfter(order, desired, date)[Len(order)]
      /\ CanReconcile(order, desired, date)
    BY DEF ReconcileAll
<1>3. Progress(RowsAfter(order, desired, date)[Len(order)], Len(order), order, desired, date)
    BY <1>1, <1>2, RunsProgress
<1>4. Progress(assignments', Len(order), order, desired, date)
    BY <1>2, <1>3
<1>5. \A x \in assignments' : x.policy \in S \/ \E o \in assignments : x.policy = o.policy
    BY <1>4 DEF Progress, Visits
<1>6. \A q \in S : EligibleOn(assignments', q, date) = AudienceOf(q)'
  <2>1. SUFFICES ASSUME NEW q \in S PROVE EligibleOn(assignments', q, date) = desired[q]
      OBVIOUS
  <2>2. PICK j \in 1 .. Len(order) : order[j] = q
      BY DEF Visits
  <2> QED
      BY <1>4, <2>2 DEF Progress
<1> QED
    BY <1>4, <1>5, <1>6 DEF Progress, Aimed

LEMMA AudiencesType ==
    ASSUME NEW ev, NEW tg, NEW mem, \A m \in mem : m[2] \in Employees
    PROVE  /\ Audiences(ev, tg, mem) \in [Policies -> SUBSET Employees]
           /\ \A p \in Policies : Audiences(ev, tg, mem)[p] = Audience(p, ev, tg, mem)
<1>1. \A p \in Policies : Audience(p, ev, tg, mem) \in SUBSET Employees
    BY DEF Audience
<1> QED
    BY <1>1 DEF Audiences

(* Only the policies aimed at a group depend on who is in it. *)
LEMMA SameAudience ==
    ASSUME NEW p, NEW ev, NEW tg, NEW tg2, NEW mem, NEW mem2,
           \A m \in mem : <<p, m[1]>> \in tg => m \in mem2 /\ <<p, m[1]>> \in tg2,
           \A m \in mem2 : <<p, m[1]>> \in tg2 => m \in mem /\ <<p, m[1]>> \in tg
    PROVE  Audience(p, ev, tg, mem) = Audience(p, ev, tg2, mem2)
BY DEF Audience

(* An assignment or an end by hand keeps the rows in range and apart. *)
LEMMA AssignApart ==
    ASSUME Ranged(assignments), Apart(assignments), NEW p \in Policies,
           NEW E \in SUBSET Employees, NEW from \in Dates, Assign(p, E, from)
    PROVE  Ranged(assignments') /\ Apart(assignments')
<1>1. \A z \in NewRows(E, p, from) : /\ z.employee \in E /\ z.policy = p
                                     /\ z.from = from /\ z.to = Open /\ z \in RowType
    BY DateTypes DEF NewRows, RowType
<1>2. assignments' = assignments \cup NewRows(E, p, from)
      /\ \A e \in E : ~ Collides(assignments, e, p, from)
    BY DEF Assign
<1>3. Ranged(assignments')
    BY <1>1, <1>2, DateTypes DEF Ranged
<1>4. ASSUME NEW x \in assignments, NEW f \in NewRows(E, p, from), x.employee = f.employee,
             CategoryOf[x.policy] = CategoryOf[f.policy]
      PROVE  x.to < f.from
  <2>1. ~ (x.to >= from)
      BY <1>1, <1>2, <1>4 DEF Collides
  <2>2. x.to \in Int
      BY DateTypes DEF Ranged, RowType
  <2> QED
      BY <1>1, <2>1, <2>2, DateTypes
<1>5. \A x, y \in NewRows(E, p, from) : x.employee = y.employee => x = y
    BY DEF NewRows
<1>6. ASSUME NEW x \in assignments', NEW y \in assignments', x.employee = y.employee,
             CategoryOf[x.policy] = CategoryOf[y.policy], x # y
      PROVE  x.to < y.from \/ y.to < x.from
  <2>1. CASE x \in assignments /\ y \in assignments
      BY <1>6, <2>1 DEF Apart
  <2> QED
      BY <1>2, <1>4, <1>5, <1>6, <2>1
<1>7. Apart(assignments')
    BY <1>6 DEF Apart
<1> QED
    BY <1>3, <1>7

LEMMA EndApart ==
    ASSUME Ranged(assignments), Apart(assignments), NEW row \in assignments,
           NEW date \in Dates, EndAssignment(row, date)
    PROVE  /\ Ranged(assignments') /\ Apart(assignments')
           /\ \A x \in assignments' : \E o \in assignments : x.policy = o.policy
<1> DEFINE ended == [row EXCEPT !.to = date]
<1>1. row \in RowType /\ row.from <= date /\ row.to = Open
      /\ assignments' = (assignments \ {row}) \cup {ended}
    BY DEF Ranged, EndAssignment
<1>2. /\ ended.employee = row.employee /\ ended.policy = row.policy /\ ended.from = row.from
      /\ ended.to = date /\ ended \in RowType
    BY <1>1 DEF RowType
<1> HIDE DEF ended
<1>3. Ranged(assignments')
    BY <1>1, <1>2 DEF Ranged
<1>4. \A x \in assignments : x.from \in Int /\ x.to \in Int
    BY DateTypes DEF Ranged, RowType
<1>5. ASSUME NEW x \in assignments, x # row, x.employee = ended.employee,
             CategoryOf[x.policy] = CategoryOf[ended.policy]
      PROVE  x.to < ended.from \/ ended.to < x.from
  <2>1. x.to < row.from \/ row.to < x.from
      BY <1>2, <1>5 DEF Apart
  <2> QED
      BY <1>1, <1>2, <1>4, <2>1, DateTypes
<1>6. Apart(assignments')
    BY <1>1, <1>5 DEF Apart
<1> QED
    BY <1>1, <1>2, <1>3, <1>6

(* Each of the four calls aims the policies it should anew. *)

LEMMA ReplaceAims ==
    ASSUME AudienceTypeOK, Ranged(assignments), Apart(assignments),
           NEW g \in Groups, NEW E \in SUBSET Employees, NEW date \in AudienceDates,
           ReplaceMembers(g, E, date)
    PROVE  Aimed(PoliciesOf(g), date)
<1>1. PICK order \in SetToSeqs(PoliciesOf(g)) :
          ReconcileAll(order, Audiences(everyone, targets, members'), date)
    BY DEF ReplaceMembers
<1>2. PICK desired : desired = Audiences(everyone, targets, members')
    OBVIOUS
<1>3. members' = {m \in members : m[1] # g} \cup ({g} \X E) /\ everyone' = everyone /\ targets' = targets
    BY DEF ReplaceMembers
<1>4. \A m \in members' : m[2] \in Employees
    BY <1>3 DEF AudienceTypeOK
<1>5. /\ desired \in [Policies -> SUBSET Employees]
      /\ \A q \in Policies : desired[q] = Audience(q, everyone, targets, members')
    BY <1>2, <1>4, AudiencesType
<1>6. \A q \in Policies : desired[q] = AudienceOf(q)'
    BY <1>3, <1>5 DEF AudienceOf
<1>7. ASSUME NEW q \in Policies \ PoliciesOf(g)
      PROVE  AudienceOf(q)' = AudienceOf(q)
  <2>1. <<q, g>> \notin targets
      BY DEF PoliciesOf
  <2>2. /\ \A m \in members' : <<q, m[1]>> \in targets => m \in members
        /\ \A m \in members : <<q, m[1]>> \in targets => m \in members'
      BY <1>3, <2>1
  <2>3. PICK mem, now : mem = members /\ now = members'
      OBVIOUS
  <2>4. Audience(q, everyone, targets, now) = Audience(q, everyone, targets, mem)
      BY <2>2, <2>3, SameAudience
  <2> QED
      BY <1>3, <2>3, <2>4 DEF AudienceOf
<1>8. PICK S \in SUBSET Policies : S = PoliciesOf(g)
    BY DEF PoliciesOf
<1>9. Visits(order, S)
    BY <1>8, SetOrders
<1>10. date \in Dates /\ ReconcileAll(order, desired, date)
    BY <1>1, <1>2, AudienceAssumption
<1> QED
    BY <1>5, <1>6, <1>7, <1>8, <1>9, <1>10, ReconcilesAimed

LEMMA RemoveAims ==
    ASSUME AudienceTypeOK, Ranged(assignments), Apart(assignments),
           NEW g \in Groups, NEW date \in AudienceDates, RemoveGroup(g, date)
    PROVE  Aimed(PoliciesOf(g), date)
<1>1. PICK order \in SetToSeqs(PoliciesOf(g)) :
          ReconcileAll(order, Audiences(everyone, targets', members), date)
    BY DEF RemoveGroup
<1>2. PICK desired : desired = Audiences(everyone, targets', members)
    OBVIOUS
<1>3. /\ members' = {m \in members : m[1] # g} /\ everyone' = everyone
      /\ targets' = {t \in targets : t[2] # g}
    BY DEF RemoveGroup
<1>4. \A m \in members : m[2] \in Employees
    BY DEF AudienceTypeOK
<1>5. /\ desired \in [Policies -> SUBSET Employees]
      /\ \A q \in Policies : desired[q] = Audience(q, everyone, targets', members)
    BY <1>2, <1>4, AudiencesType
<1>6. PICK mem, now, tg, aim : mem = members /\ now = members' /\ tg = targets /\ aim = targets'
    OBVIOUS
<1>7. ASSUME NEW q \in Policies
      PROVE  desired[q] = AudienceOf(q)'
  <2>1. /\ \A m \in mem : <<q, m[1]>> \in aim => m \in now
        /\ \A m \in now : <<q, m[1]>> \in aim => m \in mem
      BY <1>3, <1>6
  <2>2. Audience(q, everyone, aim, mem) = Audience(q, everyone, aim, now)
      BY <2>1, SameAudience
  <2> QED
      BY <1>3, <1>5, <1>6, <2>2 DEF AudienceOf
<1>8. ASSUME NEW q \in Policies \ PoliciesOf(g)
      PROVE  AudienceOf(q)' = AudienceOf(q)
  <2>1. <<q, g>> \notin targets
      BY DEF PoliciesOf
  <2>2. /\ \A m \in mem : <<q, m[1]>> \in tg => m \in now /\ <<q, m[1]>> \in aim
        /\ \A m \in now : <<q, m[1]>> \in aim => m \in mem /\ <<q, m[1]>> \in tg
      BY <1>3, <1>6, <2>1
  <2>3. Audience(q, everyone, tg, mem) = Audience(q, everyone, aim, now)
      BY <2>2, SameAudience
  <2> QED
      BY <1>3, <1>6, <2>3 DEF AudienceOf
<1>9. PICK S \in SUBSET Policies : S = PoliciesOf(g)
    BY DEF PoliciesOf
<1>10. Visits(order, S)
    BY <1>9, SetOrders
<1>11. date \in Dates /\ ReconcileAll(order, desired, date)
    BY <1>1, <1>2, AudienceAssumption
<1> QED
    BY <1>5, <1>7, <1>8, <1>9, <1>10, <1>11, ReconcilesAimed

LEMMA MoveAims ==
    ASSUME AudienceTypeOK, Ranged(assignments), Apart(assignments),
           NEW e \in Employees, NEW G \in SUBSET Groups, NEW date \in AudienceDates,
           SetEmployeeGroup(e, G, date)
    PROVE  Aimed(PoliciesOfAny(GroupsOf(e)) \cup PoliciesOfAny(G), date)
<1>1. PICK order \in MoveOrders(PoliciesOfAny(GroupsOf(e)), PoliciesOfAny(G)) :
          ReconcileAll(order, Audiences(everyone, targets, members'), date)
    BY DEF SetEmployeeGroup
<1>2. PICK desired : desired = Audiences(everyone, targets, members')
    OBVIOUS
<1>3. members' = MembersAfter(e, G) /\ everyone' = everyone /\ targets' = targets
    BY DEF SetEmployeeGroup
<1>4. \A m \in members' : m[2] \in Employees
    BY <1>3 DEF AudienceTypeOK, MembersAfter
<1>5. /\ desired \in [Policies -> SUBSET Employees]
      /\ \A q \in Policies : desired[q] = Audience(q, everyone, targets, members')
    BY <1>2, <1>4, AudiencesType
<1>6. \A q \in Policies : desired[q] = AudienceOf(q)'
    BY <1>3, <1>5 DEF AudienceOf
<1>7. PICK old \in SUBSET Policies, new \in SUBSET Policies :
         old = PoliciesOfAny(GroupsOf(e)) /\ new = PoliciesOfAny(G)
    BY DEF PoliciesOfAny, PoliciesOf
<1>8. ASSUME NEW q \in Policies \ (old \cup new)
      PROVE  AudienceOf(q)' = AudienceOf(q)
  <2>1. \A m \in members : m[2] = e => <<q, m[1]>> \notin targets
    <3>1. SUFFICES ASSUME NEW m \in members, m[2] = e, <<q, m[1]>> \in targets PROVE FALSE
        OBVIOUS
    <3>2. m[1] \in GroupsOf(e) /\ q \in PoliciesOf(m[1])
        BY <3>1 DEF GroupsOf, PoliciesOf
    <3>3. q \in PoliciesOfAny(GroupsOf(e))
        BY <3>2 DEF PoliciesOfAny
    <3> QED
        BY <1>7, <3>3
  <2>2. \A h \in G : <<q, h>> \notin targets
      BY <1>7 DEF PoliciesOfAny, PoliciesOf
  <2>3. /\ \A m \in members' : <<q, m[1]>> \in targets => m \in members
        /\ \A m \in members : <<q, m[1]>> \in targets => m \in members'
      BY <1>3, <2>1, <2>2 DEF MembersAfter
  <2>4. PICK mem, now : mem = members /\ now = members'
      OBVIOUS
  <2>5. Audience(q, everyone, targets, now) = Audience(q, everyone, targets, mem)
      BY <2>3, <2>4, SameAudience
  <2> QED
      BY <1>3, <2>4, <2>5 DEF AudienceOf
<1>9. PICK S \in SUBSET Policies : S = old \cup new
    OBVIOUS
<1>10. Visits(order, S)
    BY <1>1, <1>7, <1>9, MoveOrdersVisit
<1>11. date \in Dates /\ ReconcileAll(order, desired, date)
    BY <1>1, <1>2, AudienceAssumption
<1> QED
    BY <1>5, <1>6, <1>7, <1>8, <1>9, <1>10, <1>11, ReconcilesAimed

LEMMA AimAims ==
    ASSUME AudienceTypeOK, Ranged(assignments), Apart(assignments),
           NEW p \in Policies, NEW all \in BOOLEAN, NEW G \in SUBSET Groups,
           NEW date \in Dates, Aim(p, all, G, date), members' = members
    PROVE  Aimed({p}, date)
<1>1. PICK desired : desired = Audiences(everyone', targets', members)
    OBVIOUS
<1>2. \A m \in members : m[2] \in Employees
    BY DEF AudienceTypeOK
<1>3. PICK ev, tg : ev = everyone' /\ tg = targets'
    OBVIOUS
<1>4. /\ desired \in [Policies -> SUBSET Employees]
      /\ \A q \in Policies : desired[q] = Audience(q, ev, tg, members)
    BY <1>1, <1>2, <1>3, AudiencesType
<1>5. \A q \in Policies : desired[q] = AudienceOf(q)'
    BY <1>3, <1>4 DEF AudienceOf
<1>6. ASSUME NEW q \in Policies \ {p}
      PROVE  AudienceOf(q)' = AudienceOf(q)
  <2>1. q \in everyone' <=> q \in everyone
      BY DEF Aim
  <2>2. \A h : <<q, h>> \in targets' <=> <<q, h>> \in targets
      BY DEF Aim
  <2> QED
      BY <2>1, <2>2 DEF AudienceOf, Audience
<1>7. PICK order : order = <<p>>
    OBVIOUS
<1>8. Visits(order, {p})
    BY <1>7 DEF Visits
<1>9. ReconcileAll(order, desired, date)
    BY <1>1, <1>7 DEF Aim
<1> QED
    BY <1>4, <1>5, <1>6, <1>8, <1>9, ReconcilesAimed

-----------------------------------------------------------------------------
(* The inductive invariant: the tables refer to what exists, the versions  *)
(* were validated and are in order, and the rows are in range and apart.   *)

TablesOK ==
    /\ groups \subseteq Groups
    /\ members \subseteq groups \X (Employees \ Admins)
    /\ everyone \subseteq {p \in Policies : Exists(p)}
    /\ targets \subseteq {p \in Policies : Exists(p)} \X groups

VersionsOK ==
    /\ versions = [p \in Policies |-> versions[p]]
    /\ \A p \in Policies : \A v \in versions[p] : v.no \in Nat /\ v.from \in Dates
                                                  /\ v.terms \in Drafts /\ ValidDraft(v.terms)
    /\ VersionsInOrder

RowsOK ==
    /\ Ranged(assignments) /\ Apart(assignments)
    /\ \A row \in assignments : Exists(row.policy)

AudienceInv == TablesOK /\ VersionsOK /\ RowsOK

LEMMA InvIsTyped == AudienceInv => AudienceTypeOK
BY DEF AudienceInv, TablesOK, VersionsOK, RowsOK, Ranged, AudienceTypeOK

(* A call aims only policies that exist. *)
LEMMA AimedRows ==
    ASSUME RowsOK, NEW S, NEW date, Aimed(S, date), \A p \in S : Exists(p)',
           \A p \in Policies : Exists(p) => Exists(p)'
    PROVE  RowsOK'
<1>1. Ranged(assignments)' /\ Apart(assignments)'
    BY DEF Aimed, Ranged, Apart
<1>2. ASSUME NEW x \in assignments' PROVE Exists(x.policy)'
  <2>1. CASE x.policy \in S
      BY <2>1
  <2>2. CASE \E o \in assignments : x.policy = o.policy
    <3>1. PICK o \in assignments : x.policy = o.policy
        BY <2>2
    <3>2. PICK p \in Policies : p = x.policy /\ Exists(p)
        BY <3>1 DEF RowsOK, Ranged, RowType
    <3>3. Exists(p)'
        BY <3>2
    <3> QED
        BY <3>2, <3>3 DEF Exists
  <2> QED
      BY <2>1, <2>2 DEF Aimed
<1> QED
    BY <1>1, <1>2 DEF RowsOK

(* Aiming a policy that exists refers to it and to groups that exist. *)
LEMMA AimTables ==
    ASSUME TablesOK, NEW p \in Policies, NEW all \in BOOLEAN, NEW G \in SUBSET Groups, NEW date,
           Aim(p, all, G, date), Exists(p)', UNCHANGED groups,
           \A q \in Policies : Exists(q) => Exists(q)'
    PROVE  /\ everyone' \subseteq {q \in Policies : Exists(q)'}
           /\ targets' \subseteq {q \in Policies : Exists(q)'} \X groups'
<1>1. everyone' \subseteq everyone \cup {p}
    BY DEF Aim
<1>2. \A q \in everyone : q \in Policies /\ Exists(q)
    BY DEF TablesOK
<1>3. targets' \subseteq targets \cup ({p} \X G) /\ G \subseteq groups
    BY DEF Aim
<1>4. \A t \in targets : t \in Policies \X groups /\ Exists(t[1])
    BY DEF TablesOK
<1>5. everyone' \subseteq {q \in Policies : Exists(q)'}
    BY <1>1, <1>2
<1>6. ASSUME NEW t \in targets' PROVE t \in {q \in Policies : Exists(q)'} \X groups'
  <2>1. CASE t \in targets
    <3>1. PICK q \in Policies, g \in groups : t = <<q, g>>
        BY <1>4, <2>1
    <3>2. Exists(q)'
        BY <1>4, <2>1, <3>1
    <3> QED
        BY <3>1, <3>2
  <2>2. CASE t \in {p} \X G
      BY <1>3, <2>2
  <2> QED
      BY <1>3, <2>1, <2>2
<1> QED
    BY <1>5, <1>6

(* A new version is of its type and follows those there are, and writing   *)
(* one makes no policy unknown.                                            *)
LEMMA FirstVersion ==
    ASSUME VersionsOK, NEW p \in Policies, NEW draft \in Drafts, NEW date \in Dates,
           NewPolicy(p, draft, date)
    PROVE  /\ VersionsOK' /\ Exists(p)'
           /\ \A q \in Policies : Exists(q) => Exists(q)'
<1> DEFINE first == Version(1, date, draft)
<1>1. /\ versions' = [versions EXCEPT ![p] = {first}]
      /\ versions[p] = {} /\ ValidDraft(draft)
    BY DEF NewPolicy, Exists
<1>2. first.no = 1 /\ first.from = date /\ first.terms = draft
    BY DEF Version
<1> HIDE DEF first
<1>3. /\ versions' = [q \in Policies |-> versions'[q]]
      /\ versions'[p] = {first} /\ \A q \in Policies \ {p} : versions'[q] = versions[q]
    BY <1>1 DEF VersionsOK
<1>4. \A q \in Policies : \A v \in versions'[q] : v.no \in Nat /\ v.from \in Dates
                                         /\ v.terms \in Drafts /\ ValidDraft(v.terms)
    BY <1>1, <1>2, <1>3 DEF VersionsOK
<1>5. VersionsInOrder'
  <2>1. ASSUME NEW q \in Policies, NEW v \in versions'[q], NEW w \in versions'[q]
        PROVE  v.no < w.no <=> v.from < w.from
    <3>1. CASE q = p
      <4>1. v = first /\ w = first
          BY <1>3, <3>1
      <4> QED
          BY <1>2, <4>1, DateTypes
    <3>2. CASE q # p
        BY <1>3, <3>2 DEF VersionsOK, VersionsInOrder
    <3> QED
        BY <3>1, <3>2
  <2> QED
      BY <2>1 DEF VersionsInOrder
<1>6. Exists(p)' /\ \A q \in Policies : Exists(q) => Exists(q)'
    BY <1>3 DEF Exists
<1> QED
    BY <1>3, <1>4, <1>5, <1>6 DEF VersionsOK

LEMMA NextVersion ==
    ASSUME VersionsOK, NEW p \in Policies, NEW draft \in Drafts, NEW from \in Dates,
           AddVersion(p, draft, from)
    PROVE  /\ VersionsOK' /\ Exists(p)'
           /\ \A q \in Policies : Exists(q) => Exists(q)'
<1>1. PICK latest \in versions[p] :
         /\ IsLatest(latest, versions[p]) /\ StartsAfter(from, latest)
         /\ versions' = [versions EXCEPT ![p] = @ \cup {Version(latest.no + 1, from, draft)}]
    BY DEF AddVersion
<1> DEFINE added == Version(latest.no + 1, from, draft)
<1>2. added.no = latest.no + 1 /\ added.from = from /\ added.terms = draft
    BY DEF Version
<1>3. ValidDraft(draft) /\ latest.no \in Nat /\ latest.from \in Dates /\ from > latest.from
    BY <1>1 DEF AddVersion, VersionsOK, StartsAfter
<1>4. /\ versions' = [q \in Policies |-> versions'[q]]
      /\ versions'[p] = versions[p] \cup {added}
      /\ \A q \in Policies \ {p} : versions'[q] = versions[q]
  <2> HIDE DEF added
  <2>1. versions' = [versions EXCEPT ![p] = versions[p] \cup {added}]
      BY <1>1 DEF added
  <2> QED
      BY <2>1 DEF VersionsOK
<1> HIDE DEF added
<1>5. \A q \in Policies : \A v \in versions'[q] : v.no \in Nat /\ v.from \in Dates
                                         /\ v.terms \in Drafts /\ ValidDraft(v.terms)
    BY <1>2, <1>3, <1>4 DEF VersionsOK
<1>6. \A v \in versions[p] : v.no < added.no /\ v.from < added.from
  <2>1. SUFFICES ASSUME NEW v \in versions[p]
                 PROVE  v.no < added.no /\ v.from < added.from
      OBVIOUS
  <2>2. v.no \in Nat /\ v.from \in Int /\ latest.from \in Int /\ from \in Int
      BY <1>3, DateTypes DEF VersionsOK
  <2>3. v.no <= latest.no
      BY <1>1, <1>3, <2>2 DEF IsLatest
  <2>4. ~ (latest.from < v.from)
      BY <1>1, <1>3, <2>2, <2>3 DEF VersionsOK, VersionsInOrder
  <2> QED
      BY <1>2, <1>3, <2>2, <2>3, <2>4
<1>7. VersionsInOrder'
  <2>1. ASSUME NEW q \in Policies, NEW v \in versions'[q], NEW w \in versions'[q]
        PROVE  v.no < w.no <=> v.from < w.from
    <3>1. CASE v \in versions[q] /\ w \in versions[q]
        BY <3>1 DEF VersionsOK, VersionsInOrder
    <3>2. CASE q = p /\ ~ (v \in versions[q] /\ w \in versions[q])
      <4>1. v.no \in Int /\ v.from \in Int /\ w.no \in Int /\ w.from \in Int
        <5>1. v.no \in Nat /\ v.from \in Dates /\ w.no \in Nat /\ w.from \in Dates
            BY <1>5
        <5> QED
            BY <5>1, CalendarAssumption DEF Dates
      <4> QED
          BY <1>4, <1>6, <3>2, <4>1
    <3> QED
        BY <1>4, <3>1, <3>2
  <2> QED
      BY <2>1 DEF VersionsInOrder
<1>8. Exists(p)' /\ \A q \in Policies : Exists(q) => Exists(q)'
    BY <1>4 DEF Exists
<1> QED
    BY <1>4, <1>5, <1>7, <1>8 DEF VersionsOK

(* Every call keeps the invariant.  Those that reconcile aim the policies  *)
(* of some set anew.                                                       *)

LEMMA ReplaceKeeps ==
    ASSUME AudienceInv, NEW g \in Groups, NEW E \in SUBSET Employees,
           NEW date \in AudienceDates, ReplaceMembers(g, E, date)
    PROVE  AudienceInv' /\ Aimed(PoliciesOf(g), date)
<1>1. Aimed(PoliciesOf(g), date)
    BY InvIsTyped, ReplaceAims DEF AudienceInv, RowsOK
<1>2. UNCHANGED <<groups, versions, everyone, targets>>
    BY DEF ReplaceMembers
<1>3. \A p \in Policies : Exists(p)' = Exists(p)
    BY <1>2 DEF Exists
<1>4. \A p \in PoliciesOf(g) : p \in Policies /\ Exists(p)
    BY DEF AudienceInv, TablesOK, PoliciesOf
<1>5. PICK S : S = PoliciesOf(g)
    OBVIOUS
<1>6. RowsOK'
    BY <1>1, <1>3, <1>4, <1>5, AimedRows DEF AudienceInv
<1>7. members' \subseteq groups \X (Employees \ Admins)
    BY DEF ReplaceMembers, MayJoin, AudienceInv, TablesOK
<1>8. TablesOK'
    BY <1>2, <1>3, <1>7 DEF AudienceInv, TablesOK
<1>9. VersionsOK'
    BY <1>2 DEF AudienceInv, VersionsOK, VersionsInOrder
<1> QED
    BY <1>1, <1>6, <1>8, <1>9 DEF AudienceInv

LEMMA RemoveKeeps ==
    ASSUME AudienceInv, NEW g \in Groups, NEW date \in AudienceDates, RemoveGroup(g, date)
    PROVE  AudienceInv' /\ Aimed(PoliciesOf(g), date)
<1>1. Aimed(PoliciesOf(g), date)
    BY InvIsTyped, RemoveAims DEF AudienceInv, RowsOK
<1>2. /\ UNCHANGED <<versions, everyone>> /\ groups' = groups \ {g}
      /\ members' = {m \in members : m[1] # g} /\ targets' = {t \in targets : t[2] # g}
    BY DEF RemoveGroup
<1>3. \A p \in Policies : Exists(p)' = Exists(p)
    BY <1>2 DEF Exists
<1>4. \A p \in PoliciesOf(g) : p \in Policies /\ Exists(p)
    BY DEF AudienceInv, TablesOK, PoliciesOf
<1>5. PICK S : S = PoliciesOf(g)
    OBVIOUS
<1>6. RowsOK'
    BY <1>1, <1>3, <1>4, <1>5, AimedRows DEF AudienceInv
<1>7. members' \subseteq groups' \X (Employees \ Admins)
    BY <1>2 DEF AudienceInv, TablesOK
<1>8. targets' \subseteq {p \in Policies : Exists(p)} \X groups'
    BY <1>2 DEF AudienceInv, TablesOK
<1>9. TablesOK'
    BY <1>2, <1>3, <1>7, <1>8 DEF AudienceInv, TablesOK
<1>10. VersionsOK'
    BY <1>2 DEF AudienceInv, VersionsOK, VersionsInOrder
<1> QED
    BY <1>1, <1>6, <1>9, <1>10 DEF AudienceInv

LEMMA MoveKeeps ==
    ASSUME AudienceInv, NEW e \in Employees, NEW G \in SUBSET Groups,
           NEW date \in AudienceDates, SetEmployeeGroup(e, G, date)
    PROVE  AudienceInv' /\ Aimed(PoliciesOfAny(GroupsOf(e)) \cup PoliciesOfAny(G), date)
<1>1. PICK S : S = PoliciesOfAny(GroupsOf(e)) \cup PoliciesOfAny(G)
    OBVIOUS
<1>2. Aimed(S, date)
    BY <1>1, InvIsTyped, MoveAims DEF AudienceInv, RowsOK
<1>3. UNCHANGED <<groups, versions, everyone, targets>>
    BY DEF SetEmployeeGroup
<1>4. \A p \in Policies : Exists(p)' = Exists(p)
    BY <1>3 DEF Exists
<1>5. \A p \in S : p \in Policies /\ Exists(p)
  <2>1. \A h : \A p \in PoliciesOf(h) : p \in Policies /\ Exists(p)
      BY DEF AudienceInv, TablesOK, PoliciesOf
  <2> QED
      BY <1>1, <2>1 DEF PoliciesOfAny
<1>6. RowsOK'
    BY <1>2, <1>4, <1>5, AimedRows DEF AudienceInv
<1>7. members' \subseteq groups \X (Employees \ Admins)
    BY DEF SetEmployeeGroup, MembersAfter, MayJoin, AudienceInv, TablesOK
<1>8. TablesOK'
    BY <1>3, <1>4, <1>7 DEF AudienceInv, TablesOK
<1>9. VersionsOK'
    BY <1>3 DEF AudienceInv, VersionsOK, VersionsInOrder
<1> QED
    BY <1>1, <1>2, <1>6, <1>8, <1>9 DEF AudienceInv

(* A policy may be aimed in a call that writes its first or next version.  *)
LEMMA AimKeeps ==
    ASSUME AudienceInv, NEW p \in Policies, NEW all \in BOOLEAN, NEW G \in SUBSET Groups,
           NEW date \in Dates, Aim(p, all, G, date), UNCHANGED <<groups, members>>,
           VersionsOK', Exists(p)', \A q \in Policies : Exists(q) => Exists(q)'
    PROVE  AudienceInv' /\ Aimed({p}, date)
<1>1. Aimed({p}, date)
    BY InvIsTyped, AimAims DEF AudienceInv, RowsOK
<1>2. PICK S : S = {p}
    OBVIOUS
<1>3. RowsOK'
    BY <1>1, <1>2, AimedRows DEF AudienceInv
<1>4. /\ everyone' \subseteq {q \in Policies : Exists(q)'}
      /\ targets' \subseteq {q \in Policies : Exists(q)'} \X groups'
    BY AimTables DEF AudienceInv
<1>5. TablesOK'
    BY <1>4 DEF AudienceInv, TablesOK
<1> QED
    BY <1>1, <1>3, <1>5 DEF AudienceInv

LEMMA ReconcilingKeeps ==
    ASSUME AudienceInv, NEW date \in AudienceDates, Reconciling(date)
    PROVE  AudienceInv' /\ \E S \in SUBSET Policies : Aimed(S, date)
<1> DEFINE Goal == AudienceInv' /\ \E S \in SUBSET Policies : Aimed(S, date)
<1>0. date \in Dates
    BY AudienceAssumption
<1>1. ASSUME NEW g \in Groups, NEW E \in SUBSET Employees, ReplaceMembers(g, E, date)
      PROVE  Goal
    BY <1>1, ReplaceKeeps DEF Aimed
<1>2. ASSUME NEW g \in Groups, RemoveGroup(g, date)
      PROVE  Goal
    BY <1>2, RemoveKeeps DEF Aimed
<1>3. ASSUME NEW e \in Employees, NEW G \in SUBSET Groups, SetEmployeeGroup(e, G, date)
      PROVE  Goal
  <2>1. PICK S : S = PoliciesOfAny(GroupsOf(e)) \cup PoliciesOfAny(G)
      OBVIOUS
  <2>2. AudienceInv' /\ Aimed(S, date)
      BY <1>3, <2>1, MoveKeeps
  <2>3. S \in SUBSET Policies
      BY <2>2 DEF Aimed
  <2> QED
      BY <2>2, <2>3
<1>4. ASSUME NEW p \in Policies, NEW all \in BOOLEAN, NEW G \in SUBSET Groups,
             SetPolicyAudience(p, all, G, date)
      PROVE  Goal
  <2>1. Aim(p, all, G, date) /\ UNCHANGED <<groups, members, versions>> /\ Exists(p)
      BY <1>4 DEF SetPolicyAudience
  <2>2. VersionsOK' /\ Exists(p)' /\ \A q \in Policies : Exists(q) => Exists(q)'
      BY <2>1 DEF AudienceInv, VersionsOK, VersionsInOrder, Exists
  <2>3. AudienceInv' /\ Aimed({p}, date)
      BY <1>0, <2>1, <2>2, AimKeeps
  <2> QED
      BY <2>3
<1>5. ASSUME NEW p \in Policies, NEW draft \in Drafts, NEW all \in BOOLEAN,
             NEW G \in SUBSET Groups, CreatePolicy(p, draft, all, G, date)
      PROVE  Goal
  <2>1. Aim(p, all, G, date) /\ UNCHANGED <<groups, members>> /\ NewPolicy(p, draft, date)
      BY <1>5 DEF CreatePolicy
  <2>2. VersionsOK' /\ Exists(p)' /\ \A q \in Policies : Exists(q) => Exists(q)'
      BY <1>0, <2>1, FirstVersion DEF AudienceInv
  <2>3. AudienceInv' /\ Aimed({p}, date)
      BY <1>0, <2>1, <2>2, AimKeeps
  <2> QED
      BY <2>3
<1>6. ASSUME NEW p \in Policies, NEW draft \in Drafts, NEW all \in BOOLEAN,
             NEW G \in SUBSET Groups, UpdatePolicyAndAudience(p, draft, date, all, G)
      PROVE  Goal
  <2>1. Aim(p, all, G, date) /\ UNCHANGED <<groups, members>> /\ AddVersion(p, draft, date)
      BY <1>6 DEF UpdatePolicyAndAudience
  <2>2. VersionsOK' /\ Exists(p)' /\ \A q \in Policies : Exists(q) => Exists(q)'
      BY <1>0, <2>1, NextVersion DEF AudienceInv
  <2>3. AudienceInv' /\ Aimed({p}, date)
      BY <1>0, <2>1, <2>2, AimKeeps
  <2> QED
      BY <2>3
<1> QED
    BY <1>1, <1>2, <1>3, <1>4, <1>5, <1>6 DEF Reconciling

LEMMA AssignKeeps ==
    ASSUME AudienceInv, NEW p \in Policies, NEW E \in SUBSET ManualStaff,
           NEW from \in AudienceDates, Assign(p, E, from)
    PROVE  AudienceInv'
<1>1. E \in SUBSET Employees /\ from \in Dates
    BY AudienceAssumption
<1>2. Ranged(assignments') /\ Apart(assignments')
    BY <1>1, AssignApart DEF AudienceInv, RowsOK
<1>3. /\ UNCHANGED <<groups, members, versions, everyone, targets>> /\ Exists(p)
      /\ assignments' = assignments \cup NewRows(E, p, from)
    BY DEF Assign
<1>4. \A x \in assignments' : x.policy = p \/ x \in assignments
    BY <1>3 DEF NewRows
<1>5. \A x \in assignments' : Exists(x.policy)'
    BY <1>3, <1>4 DEF AudienceInv, RowsOK, Exists
<1>6. RowsOK'
    BY <1>2, <1>5 DEF RowsOK, Ranged, Apart
<1> QED
    BY <1>3, <1>6 DEF AudienceInv, TablesOK, VersionsOK, VersionsInOrder, Exists

LEMMA EndKeeps ==
    ASSUME AudienceInv, NEW row \in assignments, NEW date \in AudienceDates,
           EndAssignment(row, date)
    PROVE  AudienceInv'
<1>1. date \in Dates
    BY AudienceAssumption
<1>2. /\ Ranged(assignments') /\ Apart(assignments')
      /\ \A x \in assignments' : \E o \in assignments : x.policy = o.policy
    BY <1>1, EndApart DEF AudienceInv, RowsOK
<1>3. UNCHANGED <<groups, members, versions, everyone, targets>>
    BY DEF EndAssignment
<1>4. \A x \in assignments' : Exists(x.policy)'
    BY <1>2, <1>3 DEF AudienceInv, RowsOK, Exists
<1>5. RowsOK'
    BY <1>2, <1>4 DEF RowsOK, Ranged, Apart
<1> QED
    BY <1>3, <1>5 DEF AudienceInv, TablesOK, VersionsOK, VersionsInOrder, Exists

LEMMA AudienceInitInv == AudienceInit => AudienceInv
<1> SUFFICES ASSUME AudienceInit PROVE AudienceInv
    OBVIOUS
<1>1. TablesOK
    BY DEF AudienceInit, TablesOK
<1>2. VersionsOK
    BY DEF AudienceInit, VersionsOK, VersionsInOrder
<1>3. RowsOK
    BY DEF AudienceInit, RowsOK, Ranged, Apart
<1> QED
    BY <1>1, <1>2, <1>3 DEF AudienceInv

LEMMA AudienceStep == AudienceInv /\ [AudienceNext]_audienceVars => AudienceInv'
<1> SUFFICES ASSUME AudienceInv, [AudienceNext]_audienceVars PROVE AudienceInv'
    OBVIOUS
<1>1. ASSUME NEW date \in AudienceDates, Reconciling(date)
      PROVE  AudienceInv'
    BY <1>1, ReconcilingKeeps
<1>2. ASSUME NEW g \in Groups, NEW E \in SUBSET Employees, CreateGroup(g, E)
      PROVE  AudienceInv'
  <2>1. /\ members' = members \cup ({g} \X E) /\ E \subseteq Employees \ Admins
        /\ groups' = groups \cup {g} /\ UNCHANGED <<versions, everyone, targets, assignments>>
      BY <1>2 DEF CreateGroup, MayJoin
  <2>2. members' \subseteq groups' \X (Employees \ Admins)
      BY <2>1 DEF AudienceInv, TablesOK
  <2>3. targets' \subseteq {p \in Policies : Exists(p)} \X groups'
      BY <2>1 DEF AudienceInv, TablesOK
  <2>4. TablesOK'
      BY <2>1, <2>2, <2>3 DEF AudienceInv, TablesOK, Exists
  <2>5. VersionsOK'
      BY <2>1 DEF AudienceInv, VersionsOK, VersionsInOrder
  <2>6. RowsOK'
      BY <2>1 DEF AudienceInv, RowsOK, Ranged, Apart, Exists
  <2> QED
      BY <2>4, <2>5, <2>6 DEF AudienceInv
<1>3. ASSUME NEW p \in Policies, NEW draft \in Drafts, NEW from \in VersionDates,
             UpdatePolicy(p, draft, from)
      PROVE  AudienceInv'
  <2>1. from \in Dates
      BY AudienceAssumption
  <2>2. AddVersion(p, draft, from) /\ UNCHANGED <<groups, members, everyone, targets, assignments>>
      BY <1>3 DEF UpdatePolicy
  <2>3. VersionsOK' /\ \A q \in Policies : Exists(q) => Exists(q)'
      BY <2>1, <2>2, NextVersion DEF AudienceInv
  <2>4. targets' \subseteq {q \in Policies : Exists(q)'} \X groups'
      BY <2>2, <2>3 DEF AudienceInv, TablesOK
  <2>5. TablesOK'
      BY <2>2, <2>3, <2>4 DEF AudienceInv, TablesOK
  <2>6. \A row \in assignments' : Exists(row.policy)'
      BY <2>2, <2>3 DEF AudienceInv, RowsOK, Ranged, RowType, Exists
  <2>7. RowsOK'
      BY <2>2, <2>6 DEF AudienceInv, RowsOK, Ranged, Apart
  <2> QED
      BY <2>3, <2>5, <2>7 DEF AudienceInv
<1>4. CASE UNCHANGED audienceVars
    BY <1>4 DEF audienceVars, AudienceInv, TablesOK, VersionsOK, VersionsInOrder, RowsOK,
                Ranged, Apart, Exists
<1> QED
    BY <1>1, <1>2, <1>3, <1>4, AssignKeeps, EndKeeps DEF AudienceNext

LEMMA AudienceInvariant == AudienceSpec => []AudienceInv
BY AudienceInitInv, AudienceStep, PTL DEF AudienceSpec

-----------------------------------------------------------------------------

(* The tables never refer to a group or a policy that does not exist:      *)
(* removing a group takes its memberships and its targets along, and only  *)
(* a policy with a version is aimed or assigned.                           *)
THEOREM AudienceIsTyped == AudienceSpec => []AudienceTypeOK
BY AudienceInvariant, InvIsTyped, PTL

(* The rows of one employee in one category never share a date, whatever   *)
(* audiences change, from whatever dates, forwards or backwards, and       *)
(* whatever is assigned or ended by hand between.                          *)
THEOREM NeverTwiceInACategory == AudienceSpec => []OneRowPerCategory
<1>1. AudienceInv => OneRowPerCategory
  <2> SUFFICES ASSUME AudienceInv, NEW x \in assignments, NEW y \in assignments,
                      x.employee = y.employee, CategoryOf[x.policy] = CategoryOf[y.policy],
                      x # y, NEW date \in Dates
               PROVE  ~ (Covers(x, date) /\ Covers(y, date))
      BY DEF OneRowPerCategory
  <2>1. x.to < y.from \/ y.to < x.from
      BY DEF AudienceInv, RowsOK, Apart
  <2>2. x.from \in Int /\ x.to \in Int /\ y.from \in Int /\ y.to \in Int /\ date \in Int
      BY DateTypes DEF AudienceInv, RowsOK, Ranged, RowType
  <2> QED
      BY <2>1, <2>2 DEF Covers
<1> QED
    BY <1>1, AudienceInvariant, PTL

(* The numbers of a policy's versions follow the dates they take effect    *)
(* from, so that an update cannot slip a version in before the latest.     *)
THEOREM VersionsStayInOrder == AudienceSpec => []VersionsInOrder
<1>1. AudienceInv => VersionsInOrder
    BY DEF AudienceInv, VersionsOK
<1> QED
    BY <1>1, AudienceInvariant, PTL

(* Who was eligible before the date a call takes effect from was so before *)
(* the call, in any number of policies it reconciles.                      *)
THEOREM TheHistoryIsKept == AudienceSpec => HistoryIsKept
<1>1. AudienceInv /\ [AudienceNext]_audienceVars =>
        [\A date \in AudienceDates :
            \/ \A p \in Policies : \A day \in {d \in Dates : d < date} :
                  EligibleOn(assignments, p, day)' = EligibleOn(assignments, p, day)
            \/ ~ Reconciling(date)]_audienceVars
  <2> SUFFICES ASSUME AudienceInv, NEW date \in AudienceDates, Reconciling(date),
                      NEW p \in Policies, NEW day \in {d \in Dates : d < date}
               PROVE  EligibleOn(assignments, p, day)' = EligibleOn(assignments, p, day)
      OBVIOUS
  <2>1. PICK S \in SUBSET Policies : Aimed(S, date)
      BY ReconcilingKeeps
  <2>2. EligibleOn(assignments', p, day) = EligibleOn(assignments, p, day)
      BY <2>1 DEF Aimed
  <2> QED
      BY <2>2 DEF EligibleOn, Covers
<1> QED
    BY <1>1, AudienceInvariant, PTL DEF AudienceSpec, HistoryIsKept

(* A policy whose audience a call changes has that audience eligible on    *)
(* the date of the call.                                                   *)
THEOREM TheAudienceTakesEffect == AudienceSpec => AudienceTakesEffect
<1>1. AudienceInv /\ [AudienceNext]_audienceVars =>
        [\A p \in Policies, date \in AudienceDates :
            \/ AudienceOf(p)' = AudienceOf(p)
            \/ EligibleOn(assignments, p, date)' = AudienceOf(p)'
            \/ ~ Reconciling(date)]_audienceVars
  <2> SUFFICES ASSUME AudienceInv, NEW p \in Policies, NEW date \in AudienceDates,
                      Reconciling(date), AudienceOf(p)' # AudienceOf(p)
               PROVE  EligibleOn(assignments, p, date)' = AudienceOf(p)'
      OBVIOUS
  <2>1. PICK S \in SUBSET Policies : Aimed(S, date)
      BY ReconcilingKeeps
  <2>2. EligibleOn(assignments', p, date) = AudienceOf(p)'
      BY <2>1 DEF Aimed
  <2> QED
      BY <2>2 DEF EligibleOn, Covers
<1> QED
    BY <1>1, AudienceInvariant, PTL DEF AudienceSpec, AudienceTakesEffect

-----------------------------------------------------------------------------
(* The tiers of a version. *)

(* Of naturals up to a limit, one is the greatest. *)
LEMMA GreatestNumber ==
    ASSUME NEW S \in SUBSET Nat, S # {}, NEW n \in Nat, \A k \in S : k <= n
    PROVE  \E m \in S : \A k \in S : k <= m
<1> DEFINE T == {n - k : k \in S}
<1>1. T \in SUBSET Nat /\ T # {}
  <2>1. \A k \in S : n - k \in Nat
      OBVIOUS
  <2> QED
      BY <2>1
<1>2. PICK t \in T : \A u \in T : t <= u
  <2> HIDE DEF T
  <2> QED
      BY <1>1, LeastNumber
<1>3. PICK m \in S : t = n - m
    OBVIOUS
<1>4. \A k \in S : n - m <= n - k
    BY <1>2, <1>3
<1> QED
    BY <1>4

(* Rules of as many tiers as there are rules have one tier each. *)
LEMMA TiersApart ==
    ASSUME NEW rules \in Seq(RuleType), Cardinality(Tiers(rules)) = Len(rules),
           NEW i \in DOMAIN rules, NEW j \in DOMAIN rules, rules[i].tier = rules[j].tier
    PROVE  i = j
<1> DEFINE tier == [k \in 1 .. Len(rules) |-> rules[k].tier]
<1>1. Len(rules) \in Nat /\ DOMAIN rules = 1 .. Len(rules)
    OBVIOUS
<1>2. tier \in Surjection(1 .. Len(rules), Tiers(rules))
    BY <1>1 DEF Surjection, Tiers
<1>3. IsFiniteSet(1 .. Len(rules)) /\ Cardinality(1 .. Len(rules)) = Len(rules)
  <2>1. PICK n \in Int, one \in Int : n = Len(rules) /\ n >= 0 /\ one = 1
      BY <1>1
  <2>2. IsFiniteSet(one .. n) /\ Cardinality(one .. n) = IF one > n THEN 0 ELSE n - one + 1
      BY FS_Interval
  <2> QED
      BY <2>1, <2>2
<1> HIDE DEF tier
<1>4. tier \in Injection(1 .. Len(rules), Tiers(rules))
    BY <1>2, <1>3, FS_Surjection
<1>5. tier[i] = tier[j]
    BY <1>1 DEF tier
<1> QED
    BY <1>1, <1>4, <1>5 DEF Injection, IsInjective

(* A version that passed the checks has one rule for any seniority. *)
LEMMA OneTierApplies ==
    ASSUME NEW draft \in DraftType, ValidDraft(draft), NEW i \in DOMAIN draft.rules,
           NEW tenure \in Nat
    PROVE  \E j \in DOMAIN draft.rules :
              {k \in DOMAIN draft.rules :
                  IsSelected(k, draft.rules, draft.rules[i].method, tenure)} = {j}
<1> DEFINE rules == draft.rules
           method == rules[i].method
           Senior == EligibleRules(rules, method, tenure)
           Reached == {rules[k].tier : k \in Senior}
<1>1. rules \in Seq(RuleType) /\ draft.kind \in Kinds
    BY DEF DraftType
<1>2. draft.kind = "ACCRUAL"
    BY <1>1 DEF ValidDraft, ValidRules, Kinds
<1>3. /\ Cardinality(Tiers(rules)) = Len(rules) /\ 0 \in Tiers(rules)
      /\ \A k \in DOMAIN rules : ValidRule(rules[k], rules[1])
    BY <1>2 DEF ValidDraft, ValidRules
<1> HIDE DEF rules
<1>4. \A k \in DOMAIN rules : rules[k].method = method /\ rules[k].tier \in Nat
  <2>1. \A k \in DOMAIN rules : rules[k].method = rules[1].method
      BY <1>3 DEF ValidRule
  <2>2. i \in DOMAIN rules
      BY DEF rules
  <2>3. ASSUME NEW k \in DOMAIN rules PROVE rules[k] \in RuleType
      BY <1>1
  <2> QED
      BY <2>1, <2>2, <2>3 DEF RuleType
<1>5. PICK z \in DOMAIN rules : rules[z].tier = 0
    BY <1>3 DEF Tiers
<1>6. z \in Senior
    BY <1>4, <1>5 DEF EligibleRules
<1>7. Reached \in SUBSET Nat /\ Reached # {} /\ \A t \in Reached : t <= tenure
    BY <1>4, <1>6 DEF EligibleRules
<1>8. PICK top \in Reached : \A t \in Reached : t <= top
  <2> HIDE DEF Reached
  <2> QED
      BY <1>7, GreatestNumber
<1>9. PICK j \in Senior : rules[j].tier = top
    BY <1>8
<1>10. IsSelected(j, rules, method, tenure)
    BY <1>8, <1>9 DEF IsSelected
<1>11. ASSUME NEW k \in DOMAIN rules, IsSelected(k, rules, method, tenure)
       PROVE  k = j
  <2>1. j \in DOMAIN rules
      BY <1>9 DEF EligibleRules
  <2>2. rules[j].tier <= rules[k].tier /\ rules[k].tier <= rules[j].tier
      BY <1>9, <1>10, <1>11 DEF IsSelected
  <2>3. rules[j].tier = rules[k].tier
      BY <1>4, <2>1, <2>2
  <2> QED
      BY <1>1, <1>3, <2>1, <2>3, TiersApart
<1>12. j \in DOMAIN rules
    BY <1>9 DEF EligibleRules
<1>13. {k \in DOMAIN rules : IsSelected(k, rules, method, tenure)} = {j}
    BY <1>10, <1>11, <1>12
<1> QED
    BY <1>12, <1>13 DEF rules

(* For a method a version uses, the jobs find one rule for an employee of  *)
(* any seniority: the checks of a draft leave no gap and no choice.        *)
THEOREM JobsAlwaysFindATier == AudienceSpec => []JobsFindATier
<1>1. AudienceInv => JobsFindATier
  <2> SUFFICES ASSUME AudienceInv, NEW p \in Policies, NEW v \in versions[p],
                      NEW i \in DOMAIN v.terms.rules,
                      NEW tenure \in {0} \cup Tiers(v.terms.rules)
               PROVE  \E j \in DOMAIN v.terms.rules :
                          {k \in DOMAIN v.terms.rules :
                              IsSelected(k, v.terms.rules, v.terms.rules[i].method, tenure)} = {j}
      BY DEF JobsFindATier
  <2>1. PICK draft \in DraftType : draft = v.terms /\ ValidDraft(draft)
      BY AudienceAssumption DEF AudienceInv, VersionsOK
  <2>2. draft.rules \in Seq(RuleType)
      BY DEF DraftType
  <2>3. tenure \in Nat
    <3>1. ASSUME NEW k \in DOMAIN draft.rules PROVE draft.rules[k] \in RuleType
        BY <2>2
    <3> QED
        BY <2>1, <3>1 DEF Tiers, RuleType
  <2> QED
      BY <2>1, <2>3, OneTierApplies
<1> QED
    BY <1>1, AudienceInvariant, PTL

-----------------------------------------------------------------------------
(* Moves between groups. *)

(* A policy that is only left comes before each of the new group. *)
LeavesFirst(order, new) ==
    \A j, k \in 1 .. Len(order) : order[j] \notin new /\ order[k] \in new => j < k

LEMMA JoinsLast ==
    ASSUME NEW S, NEW T, S \cap T = {}, NEW s, NEW t, Visits(s, S), Visits(t, T),
           NEW new, LeavesFirst(s, new), T \subseteq new
    PROVE  LeavesFirst(s \o t, new)
<1>1. /\ Len(s) \in Nat /\ Len(t) \in Nat /\ Len(s \o t) = Len(s) + Len(t)
      /\ \A i \in 1 .. Len(s) : (s \o t)[i] = s[i]
      /\ \A i \in 1 .. Len(t) : (s \o t)[Len(s) + i] = t[i]
    BY JoinedOrders DEF Visits
<1>2. \A i \in 1 .. Len(t) : (s \o t)[Len(s) + i] \in new
    BY <1>1 DEF Visits
<1> SUFFICES ASSUME NEW j \in 1 .. Len(s \o t), NEW k \in 1 .. Len(s \o t),
                    (s \o t)[j] \notin new, (s \o t)[k] \in new
             PROVE  j < k
    BY DEF LeavesFirst
<1>3. j \in 1 .. Len(s)
  <2>1. j \in 1 .. Len(s) \/ (j - Len(s) \in 1 .. Len(t) /\ Len(s) + (j - Len(s)) = j)
      BY <1>1
  <2> QED
      BY <1>2, <2>1
<1>4. CASE k \in 1 .. Len(s)
    BY <1>1, <1>3, <1>4 DEF LeavesFirst
<1>5. CASE k \notin 1 .. Len(s)
    BY <1>1, <1>3, <1>5
<1> QED
    BY <1>4, <1>5

LEMMA MovesLeaveFirst ==
    ASSUME NEW old \in SUBSET Policies, NEW new \in SUBSET Policies,
           NEW order \in MoveOrders(old, new)
    PROVE  LeavesFirst(order, new)
<1>1. PICK left \in SetToSeqs(old \ new), both \in SetToSeqs(old \cap new),
           joined \in SetToSeqs(new \ old) : order = left \o both \o joined
    BY DEF MoveOrders
<1>2. Visits(left, old \ new) /\ Visits(both, old \cap new) /\ Visits(joined, new \ old)
    BY SetOrders
<1>3. PICK A, B, C, AB : A = old \ new /\ B = old \cap new /\ C = new \ old /\ AB = A \cup B
    OBVIOUS
<1>4. PICK lb : lb = left \o both
    OBVIOUS
<1>5. Visits(lb, AB)
    BY <1>2, <1>3, <1>4, JoinedOrders
<1>6. LeavesFirst(left, new)
    BY <1>2 DEF Visits, LeavesFirst
<1>7. LeavesFirst(lb, new)
    BY <1>2, <1>3, <1>4, <1>6, JoinsLast
<1>8. LeavesFirst(lb \o joined, new)
    BY <1>2, <1>3, <1>5, <1>7, JoinsLast
<1> QED
    BY <1>1, <1>4, <1>8

(* What holds of the rows after the first i policies of a plain move: of   *)
(* the employee who moves, only policies of the new group and those still  *)
(* to be left cover the date or a later one; all others are where they     *)
(* should be.                                                              *)
Moving(rows, i, e, order, new, desired, date) ==
    /\ Ranged(rows)
    /\ \A row \in rows : row.employee = e /\ row.to >= date =>
          /\ row.from <= date
          /\ row.policy \in new \/ \E j \in (i + 1) .. Len(order) : order[j] = row.policy
    /\ \A j \in 1 .. Len(order) :
          EligibleOn(rows, order[j], date) \ {e} = desired[order[j]] \ {e}

LEMMA ReconciledRanged ==
    ASSUME NEW rows, Ranged(rows), NEW p \in Policies, NEW desired \in SUBSET Employees,
           NEW date \in Dates
    PROVE  Ranged(Reconciled(rows, p, desired, date))
<1>1. ASSUME NEW x \in Reconciled(rows, p, desired, date)
      PROVE  x \in RowType /\ x.from <= x.to
    BY RowsComeFrom
<1> QED
    BY <1>1 DEF Ranged

(* Of a joined policy at most the employee is missing, and no row of his   *)
(* or hers is in the way; of a policy only left nobody is missing.         *)
LEMMA MovingCollidesNever ==
    ASSUME NEW rows, NEW e, NEW order \in Seq(Policies), NEW new \in SUBSET Policies,
           NEW desired \in [Policies -> SUBSET Employees], NEW date \in Dates,
           NEW i \in 1 .. Len(order), Moving(rows, i - 1, e, order, new, desired, date),
           LeavesFirst(order, new), e \in desired[order[i]] => order[i] \in new,
           \A p, q \in new : p # q => CategoryOf[p] # CategoryOf[q]
    PROVE  \A f \in Missing(rows, order[i], desired[order[i]], date) :
               ~ Collides(rows, f, order[i], date)
<1> SUFFICES ASSUME NEW f \in Missing(rows, order[i], desired[order[i]], date), NEW row \in rows,
                    row.employee = f, CategoryOf[row.policy] = CategoryOf[order[i]],
                    row.to >= date
             PROVE  FALSE
    BY DEF Collides
<1>1. f \in desired[order[i]] /\ f \notin EligibleOn(rows, order[i], date)
    BY DEF Missing
<1>2. f = e
    BY <1>1 DEF Moving
<1>3. order[i] \in new
    BY <1>1, <1>2
<1>4. i \in Int /\ (i - 1) + 1 = i
    OBVIOUS
<1>5. row.from <= date /\ (row.policy \in new \/ \E j \in i .. Len(order) : order[j] = row.policy)
    BY <1>2, <1>4 DEF Moving
<1>6. row.policy \in new
  <2>1. SUFFICES ASSUME row.policy \notin new PROVE FALSE
      OBVIOUS
  <2>2. PICK j \in i .. Len(order) : order[j] = row.policy
      BY <1>5, <2>1
  <2>3. j \in 1 .. Len(order)
      OBVIOUS
  <2>4. j < i
      BY <1>3, <2>1, <2>2, <2>3 DEF LeavesFirst
  <2> QED
      BY <2>4
<1>7. row.policy = order[i]
    BY <1>3, <1>6
<1>8. Covers(row, date)
    BY <1>5 DEF Covers
<1> QED
    BY <1>1, <1>7, <1>8, EligibleIs

LEMMA MovingStep ==
    ASSUME NEW rows, NEW e, NEW order \in Seq(Policies), NEW new \in SUBSET Policies,
           NEW desired \in [Policies -> SUBSET Employees], NEW date \in Dates,
           NEW i \in 1 .. Len(order), Moving(rows, i - 1, e, order, new, desired, date),
           e \in desired[order[i]] <=> order[i] \in new
    PROVE  Moving(Reconciled(rows, order[i], desired[order[i]], date), i, e, order, new,
                  desired, date)
<1> DEFINE p == order[i]
           want == desired[p]
           R == Reconciled(rows, p, want, date)
<1>0. p \in Policies /\ want \in SUBSET Employees /\ Ranged(rows) /\ p = order[i]
    BY DEF Moving
<1>n. \A j \in 1 .. Len(order) : order[j] \in Policies
    OBVIOUS
<1>1. Ranged(R)
    BY <1>0, ReconciledRanged
<1>2. ASSUME NEW x \in R, x.employee = e, x.to >= date
      PROVE  /\ x.from <= date
             /\ x.policy \in new \/ \E j \in (i + 1) .. Len(order) : order[j] = x.policy
  <2>1. CASE x.employee \in Missing(rows, p, want, date) /\ x.policy = p /\ x.from = date
    <3>1. p \in new
        BY <1>2, <2>1 DEF Missing
    <3> QED
        BY <2>1, <3>1, DateTypes
  <2>2. CASE x \in rows
    <3>1. /\ x.from <= date
          /\ x.policy \in new \/ \E j \in i .. Len(order) : order[j] = x.policy
      <4>1. (i - 1) + 1 = i
          OBVIOUS
      <4> QED
          BY <1>2, <2>2, <4>1 DEF Moving
    <3>2. CASE x.policy = p /\ p \notin new
      <4>1. x \in Unwanted(rows, p, want, date)
          BY <1>2, <2>2, <3>1, <3>2 DEF Unwanted, Covers
      <4>2. x \notin Closed(Unwanted(rows, p, want, date), date)
        <5>1. \A z \in Closed(Unwanted(rows, p, want, date), date) : z.to = date - 1
            BY <1>0 DEF Closed, Unwanted, Ranged, RowType
        <5> QED
            BY <1>2, <5>1, DateTypes
      <4>3. x \notin NewRows(Missing(rows, p, want, date), p, date)
          BY <1>2, <3>2 DEF NewRows, Missing
      <4> QED
          BY <4>1, <4>2, <4>3, ReconciledIs
    <3>3. CASE x.policy # p
      <4>1. \A j \in i .. Len(order) : j = i \/ j \in (i + 1) .. Len(order)
          OBVIOUS
      <4> QED
          BY <1>0, <3>1, <3>3, <4>1
    <3> QED
        BY <1>0, <3>1, <3>2, <3>3
  <2>3. CASE \E o \in rows : x = [o EXCEPT !.to = date - 1]
    <3>1. x.to = date - 1
        BY <1>0, <2>3 DEF Ranged, RowType
    <3> QED
        BY <1>2, <3>1, DateTypes
  <2>4. \/ x \in rows \/ \E o \in rows : x = [o EXCEPT !.to = date - 1]
        \/ x.employee \in Missing(rows, p, want, date) /\ x.policy = p /\ x.from = date
    <3> HIDE DEF p, want
    <3>1. x \in Reconciled(rows, p, want, date)
        BY <1>2
    <3> QED
        BY <1>0, <3>1, RowsComeFrom
  <2> QED
      BY <2>1, <2>2, <2>3, <2>4
<1>3. /\ EligibleOn(R, p, date) = want
      /\ \A q \in Policies \ {p} : EligibleOn(R, q, date) = EligibleOn(rows, q, date)
    BY <1>0, ReconciledNow
<1>4. ASSUME NEW j \in 1 .. Len(order)
      PROVE  EligibleOn(R, order[j], date) \ {e} = desired[order[j]] \ {e}
  <2> HIDE DEF R
  <2>1. CASE order[j] = p
      BY <1>3, <2>1
  <2>2. CASE order[j] # p
      BY <1>n, <1>3, <2>2 DEF Moving
  <2> QED
      BY <2>1, <2>2
<1> HIDE DEF R
<1>5. Moving(R, i, e, order, new, desired, date)
    BY <1>1, <1>2, <1>4 DEF Moving
<1> QED
    BY <1>5 DEF R

(* A policy for everyone is aimed at no group. *)
EveryoneUntargeted == \A t \in targets : t[1] \notin everyone

LEMMA AimUntargeted ==
    ASSUME EveryoneUntargeted, NEW p, NEW all \in BOOLEAN, NEW G, NEW date, Aim(p, all, G, date)
    PROVE  EveryoneUntargeted'
<1>1. \A t \in targets' : (t \in targets /\ t[1] # p) \/ (t[1] = p /\ ~ all)
    BY DEF Aim
<1>2. everyone' = IF all THEN everyone \cup {p} ELSE everyone \ {p}
    BY DEF Aim
<1> QED
    BY <1>1, <1>2 DEF EveryoneUntargeted

LEMMA UntargetedStep ==
    EveryoneUntargeted /\ [AudienceNext]_audienceVars => EveryoneUntargeted'
<1> SUFFICES ASSUME EveryoneUntargeted, [AudienceNext]_audienceVars
             PROVE  EveryoneUntargeted'
    OBVIOUS
<1>1. CASE everyone' = everyone /\ targets' \subseteq targets
    BY <1>1 DEF EveryoneUntargeted
<1>2. ASSUME NEW p \in Policies, NEW all \in BOOLEAN, NEW G \in SUBSET Groups, NEW date,
             Aim(p, all, G, date)
      PROVE  EveryoneUntargeted'
    BY <1>2, AimUntargeted
<1>3. ASSUME NEW date \in AudienceDates, Reconciling(date)
      PROVE  EveryoneUntargeted'
  <2>1. ASSUME NEW g \in Groups, NEW E \in SUBSET Employees, ReplaceMembers(g, E, date)
        PROVE  EveryoneUntargeted'
      BY <1>1, <2>1 DEF ReplaceMembers
  <2>2. ASSUME NEW g \in Groups, RemoveGroup(g, date)
        PROVE  EveryoneUntargeted'
      BY <1>1, <2>2 DEF RemoveGroup
  <2>3. ASSUME NEW e \in Employees, NEW G \in SUBSET Groups, SetEmployeeGroup(e, G, date)
        PROVE  EveryoneUntargeted'
      BY <1>1, <2>3 DEF SetEmployeeGroup
  <2> QED
      BY <1>2, <1>3, <2>1, <2>2, <2>3
      DEF Reconciling, SetPolicyAudience, CreatePolicy, UpdatePolicyAndAudience
<1> QED
    BY <1>1, <1>3 DEF AudienceNext, audienceVars, CreateGroup, UpdatePolicy, Assign, EndAssignment

(* After the move the audience of each policy of either group has the      *)
(* employee exactly when it is one of the new group, and nobody else       *)
(* joins or leaves it.                                                     *)
LEMMA MoveAudience ==
    ASSUME AudienceInv, EveryoneUntargeted, NEW e \in Employees, NEW G \in SUBSET groups,
           NEW q \in PoliciesOfAny(GroupsOf(e)) \cup PoliciesOfAny(G)
    PROVE  LET after == Audience(q, everyone, targets, MembersAfter(e, G))
           IN  /\ after \ {e} = AudienceOf(q) \ {e}
               /\ e \in after <=> q \in PoliciesOfAny(G)
<1> DEFINE after == Audience(q, everyone, targets, MembersAfter(e, G))
<1>1. PICK g : <<q, g>> \in targets
    BY DEF PoliciesOfAny, PoliciesOf
<1>2. q \notin everyone
    BY <1>1 DEF EveryoneUntargeted
<1>3. \A f : f \in AudienceOf(q) <=> \E m \in members : m[2] = f /\ <<q, m[1]>> \in targets
    BY <1>2 DEF AudienceOf, Audience
<1>4. \A f : f \in after <=> \E m \in MembersAfter(e, G) : m[2] = f /\ <<q, m[1]>> \in targets
    BY <1>2 DEF Audience
<1> HIDE DEF after
<1>5. \A m : m[2] # e => (m \in MembersAfter(e, G) <=> m \in members)
    BY DEF MembersAfter
<1>6. \A m \in MembersAfter(e, G) : m[2] = e => m[1] \in G
    BY DEF MembersAfter
<1>7. \A h \in G : <<h, e>> \in MembersAfter(e, G)
    BY DEF MembersAfter
<1>8. \A f : f # e => (f \in after <=> f \in AudienceOf(q))
    BY <1>3, <1>4, <1>5
<1>9. q \in Policies
    BY DEF PoliciesOfAny, PoliciesOf
<1>10. q \in PoliciesOfAny(G) <=> \E h \in G : <<q, h>> \in targets
    BY <1>9 DEF PoliciesOfAny, PoliciesOf
<1>11. e \in after <=> \E h \in G : <<q, h>> \in targets
  <2>1. ASSUME e \in after PROVE \E h \in G : <<q, h>> \in targets
      BY <1>4, <1>6, <2>1
  <2>2. ASSUME NEW h \in G, <<q, h>> \in targets PROVE e \in after
    <3>1. PICK m \in MembersAfter(e, G) : m = <<h, e>>
        BY <1>7
    <3>2. m[2] = e /\ <<q, m[1]>> \in targets
        BY <2>2, <3>1
    <3> QED
        BY <1>4, <3>2
  <2> QED
      BY <2>1, <2>2
<1> QED
    BY <1>8, <1>10, <1>11 DEF after

LEMMA PlainMovesSucceed == AudienceInv /\ EveryoneUntargeted => MovesSucceed
<1> SUFFICES ASSUME AudienceInv, EveryoneUntargeted, NEW e \in Employees \ Admins,
                    NEW date \in AudienceDates, NEW G \in {{}} \cup {{g} : g \in groups},
                    PlainMove(e, G, date),
                    NEW order \in MoveOrders(PoliciesOfAny(GroupsOf(e)), PoliciesOfAny(G))
             PROVE  CanReconcile(order, Audiences(everyone, targets, MembersAfter(e, G)), date)
    BY DEF MovesSucceed
<1>1. PICK old \in SUBSET Policies, new \in SUBSET Policies :
         old = PoliciesOfAny(GroupsOf(e)) /\ new = PoliciesOfAny(G)
    BY DEF PoliciesOfAny, PoliciesOf
<1>2. PICK desired : desired = Audiences(everyone, targets, MembersAfter(e, G))
    OBVIOUS
<1>3. date \in Dates /\ G \in SUBSET groups /\ e \in Employees
    BY AudienceAssumption
<1>4. Visits(order, old \cup new) /\ LeavesFirst(order, new)
    BY <1>1, MoveOrdersVisit, MovesLeaveFirst
<1>5. order \in Seq(Policies) /\ Len(order) \in Nat /\ DOMAIN order = 1 .. Len(order)
    BY <1>4 DEF Visits
<1>6. /\ desired \in [Policies -> SUBSET Employees]
      /\ \A q \in Policies : desired[q] = Audience(q, everyone, targets, MembersAfter(e, G))
  <2>1. PICK mem : mem = MembersAfter(e, G)
      OBVIOUS
  <2>2. \A m \in mem : m[2] \in Employees
      BY <2>1 DEF MembersAfter, AudienceInv, TablesOK
  <2> QED
      BY <1>2, <2>1, <2>2, AudiencesType
<1>7. \A q \in old \cup new : /\ desired[q] \ {e} = AudienceOf(q) \ {e}
                              /\ e \in desired[q] <=> q \in new
    BY <1>1, <1>3, <1>6, MoveAudience
<1>8. /\ \A row \in assignments :
            row.employee = e /\ row.to >= date => row.from <= date /\ row.policy \in old
      /\ \A p, q \in new : p # q => CategoryOf[p] # CategoryOf[q]
      /\ \A p \in old \cup new : EligibleOn(assignments, p, date) \ {e} = AudienceOf(p) \ {e}
    BY <1>1 DEF PlainMove
<1> DEFINE after == RowsAfter(order, desired, date)
           Stuck == {k \in 0 .. Len(order) :
                        ~ Moving(after[k], k, e, order, new, desired, date)}
<1>9. Moving(assignments, 0, e, order, new, desired, date)
  <2>1. Ranged(assignments)
      BY DEF AudienceInv, RowsOK
  <2>2. \A row \in assignments : row.employee = e /\ row.to >= date =>
           row.from <= date /\ \E j \in (0 + 1) .. Len(order) : order[j] = row.policy
      BY <1>4, <1>8 DEF Visits
  <2>3. \A j \in 1 .. Len(order) :
           EligibleOn(assignments, order[j], date) \ {e} = desired[order[j]] \ {e}
      BY <1>4, <1>7, <1>8 DEF Visits
  <2> QED
      BY <2>1, <2>2, <2>3 DEF Moving
<1>10. /\ after[0] = assignments
       /\ \A i \in 1 .. Len(order) :
             after[i] = Reconciled(after[i - 1], order[i], desired[order[i]], date)
    BY <1>5, RowsAfterStep
<1>11. \A i \in 1 .. Len(order) : e \in desired[order[i]] <=> order[i] \in new
    BY <1>4, <1>7 DEF Visits
<1> HIDE DEF after
<1>12. Stuck = {}
  <2>1. SUFFICES ASSUME Stuck # {} PROVE FALSE
      OBVIOUS
  <2>2. PICK m \in Stuck : \A k \in Stuck : m <= k
    <3>1. Stuck \in SUBSET Nat
        BY <1>5
    <3> HIDE DEF Stuck
    <3> QED
        BY <2>1, <3>1, LeastNumber
  <2>3. m # 0
      BY <1>9, <1>10, <2>2
  <2>4. m \in 1 .. Len(order) /\ m - 1 \in 0 .. Len(order) /\ m - 1 \notin Stuck
      BY <1>5, <2>2, <2>3
  <2>5. Moving(after[m - 1], m - 1, e, order, new, desired, date)
      BY <2>4
  <2>6. Moving(Reconciled(after[m - 1], order[m], desired[order[m]], date), m, e, order, new,
               desired, date)
      BY <1>3, <1>5, <1>6, <1>11, <2>4, <2>5, MovingStep
  <2> QED
      BY <1>10, <2>2, <2>4, <2>6
<1>13. ASSUME NEW i \in 1 .. Len(order)
       PROVE  \A f \in Missing(after[i - 1], order[i], desired[order[i]], date) :
                  ~ Collides(after[i - 1], f, order[i], date)
  <2>1. Moving(after[i - 1], i - 1, e, order, new, desired, date)
    <3>1. i - 1 \in 0 .. Len(order)
        BY <1>5
    <3> QED
        BY <1>12, <3>1
  <2> QED
      BY <1>3, <1>4, <1>5, <1>6, <1>8, <1>11, <2>1, MovingCollidesNever
<1>14. CanReconcile(order, desired, date)
    BY <1>5, <1>13 DEF CanReconcile, after
<1> QED
    BY <1>2, <1>14

(* A move between groups is never refused because the policy left still    *)
(* covers the date, for any number of policies of either group and in      *)
(* whatever order their identifiers put them.                              *)
THEOREM MovesAlwaysSucceed == AudienceSpec => []MovesSucceed
<1>1. AudienceInit => EveryoneUntargeted
    BY DEF AudienceInit, EveryoneUntargeted
<1> QED
    BY <1>1, UntargetedStep, AudienceInvariant, PlainMovesSucceed, PTL DEF AudienceSpec

=============================================================================
