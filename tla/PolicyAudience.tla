---------------------------- MODULE PolicyAudience ----------------------------
(***************************************************************************)
(* Who is eligible for which policy, and since when.  Administrators keep  *)
(* groups of employees, aim policies at groups or at everyone, and write   *)
(* assignments by hand; every change of an audience is reconciled with the *)
(* rows of policy_assignments from a date of the administrator's choice.   *)
(*                                                                         *)
(* Each action is a whole call.  A call that raises is rolled back and is  *)
(* no action; in particular a reconciliation assigns all the employees it  *)
(* has to or none.  A group is known by its name, which is unique.         *)
(***************************************************************************)
EXTENDS PolicyRules, SequencesExt

CONSTANTS
    Employees, Admins,   \* the directory; administrators join no group
    Groups, Policies, Categories,
    CategoryOf,          \* per policy: the category it is created in
    Drafts,              \* bound: the settings of versions administrators send
    VersionDates,        \* bound: the dates of the versions published later
    AudienceDates,       \* bound: the dates audiences and assignments change from
    ManualStaff,         \* bound: who is assigned by hand
    MaxVersions,         \* bound: versions per policy
    MaxRows              \* bound: rows of policy_assignments

ASSUME AudienceAssumption ==
    /\ Admins \subseteq Employees /\ ManualStaff \subseteq Employees
    /\ CategoryOf \in [Policies -> Categories]
    /\ VersionDates \cup AudienceDates \subseteq Dates
    /\ MaxVersions \in Nat /\ MaxRows \in Nat
    /\ IsFiniteSet(Policies)
    /\ Drafts \subseteq DraftType

VARIABLES
    groups,        \* the groups that exist
    members,       \* employee_group_members: pairs <<group, employee>>
    versions,      \* per policy: its versions; none before it is created
    everyone,      \* the policies whose all_employees flag is set
    targets,       \* policy_group_targets: pairs <<policy, group>>
    assignments    \* policy_assignments: rows [employee, policy, from, to]

audienceVars == <<groups, members, versions, everyone, targets, assignments>>

AudienceInit ==
    /\ groups = {}
    /\ members = {}
    /\ versions = [p \in Policies |-> {}]
    /\ everyone = {}
    /\ targets = {}
    /\ assignments = {}

(* A row without an end lasts beyond every date. *)
Open == LastDate + 1

RowType == [employee : Employees, policy : Policies, from : Dates, to : Dates \cup {Open}]

Exists(p) == versions[p] # {}

Covers(row, date) == row.from <= date /\ date <= row.to

EligibleOn(rows, p, date) ==
    {row.employee : row \in {x \in rows : x.policy = p /\ Covers(x, date)}}

-----------------------------------------------------------------------------
(* Assigning.  The exclusion constraint of policy_assignments compares the *)
(* inclusive date ranges of an employee's rows in one category.            *)

MutCollides_HalfOpen(rows, e, p, from) ==
    \E row \in rows :
        row.employee = e /\ CategoryOf[row.policy] = CategoryOf[p] /\ row.to > from

Collides(rows, e, p, from) ==
    \E row \in rows :
        row.employee = e /\ CategoryOf[row.policy] = CategoryOf[p] /\ row.to >= from

NewRows(E, p, from) ==
    {[employee |-> e, policy |-> p, from |-> from, to |-> Open] : e \in E}

-----------------------------------------------------------------------------
(* Reconciling a policy with its audience from a date on. *)

Audience(p, everyoneNow, targetsNow, membersNow) ==
    IF p \in everyoneNow
    THEN Employees \ Admins
    ELSE {m[2] : m \in {x \in membersNow : <<p, x[1]>> \in targetsNow}}

MutClosed_Deleted(rows, date) == {}

(* Eligibility ends the day before; a row that starts on the date goes. *)
Closed(rows, date) ==
    {[row EXCEPT !.to = date - 1] : row \in {x \in rows : x.from # date}}

MutMissing_KnownAtAll(rows, p, desired, date) ==
    desired \ {x.employee : x \in {y \in rows : y.policy = p /\ y.to >= date}}

(* Only rows that cover the date count, neither those that ended before    *)
(* nor those that start later.                                             *)
Missing(rows, p, desired, date) == desired \ EligibleOn(rows, p, date)

(* The rows after reconcile_policy. *)
Reconciled(rows, p, desired, date) ==
    LET unwanted == {x \in rows : x.policy = p /\ Covers(x, date) /\ x.employee \notin desired}
    IN  (rows \ unwanted) \cup Closed(unwanted, date)
            \cup NewRows(Missing(rows, p, desired, date), p, date)

(* The rows after the first i policies of an order were reconciled, each   *)
(* with the audience that Desired gives it.                                *)
RowsAfter(order, desired, date) ==
    LET after[i \in 0 .. Len(order)] ==
            IF i = 0
            THEN assignments
            ELSE Reconciled(after[i - 1], order[i], desired[order[i]], date)
    IN  after

(* No assignment the reconciliations make collides with a row there is. *)
CanReconcile(order, desired, date) ==
    LET after == RowsAfter(order, desired, date)
    IN  \A i \in DOMAIN order :
            \A e \in Missing(after[i - 1], order[i], desired[order[i]], date) :
                ~ Collides(after[i - 1], e, order[i], date)

ReconcileAll(order, desired, date) ==
    /\ CanReconcile(order, desired, date)
    /\ assignments' = RowsAfter(order, desired, date)[Len(order)]
    /\ Cardinality(assignments') <= MaxRows

Audiences(everyoneNow, targetsNow, membersNow) ==
    [p \in Policies |-> Audience(p, everyoneNow, targetsNow, membersNow)]

AudienceOf(p) == Audience(p, everyone, targets, members)

PoliciesOf(g) == {p \in Policies : <<p, g>> \in targets}

-----------------------------------------------------------------------------
(* Groups. *)

MayJoin(E) == E \cap Admins = {}

MutFreeOf_NotChecked(E, g) == TRUE

(* No employee of E is in another group than g. *)
FreeOf(E, g) == \A m \in members : m[2] \in E => m[1] = g

CreateGroup(g, E) ==
    /\ g \notin groups
    /\ MayJoin(E)
    /\ FreeOf(E, g)
    /\ groups' = groups \cup {g}
    /\ members' = members \cup ({g} \X E)
    /\ UNCHANGED <<versions, everyone, targets, assignments>>

ReplaceMembers(g, E, date) ==
    /\ g \in groups
    /\ MayJoin(E)
    /\ FreeOf(E, g)
    /\ members' = {m \in members : m[1] # g} \cup ({g} \X E)
    /\ \E order \in SetToSeqs(PoliciesOf(g)) :
          ReconcileAll(order, Audiences(everyone, targets, members'), date)
    /\ UNCHANGED <<groups, versions, everyone, targets>>

MutRemoveGroup_KeepsMembers(g, date) ==
    /\ g \in groups
    /\ targets' = {t \in targets : t[2] # g}
    /\ \E order \in SetToSeqs(PoliciesOf(g)) :
          ReconcileAll(order, Audiences(everyone, targets', members), date)
    /\ groups' = groups \ {g}
    /\ UNCHANGED <<members, versions, everyone>>

(* The date is today's, which the demo control may set to any value. *)
RemoveGroup(g, date) ==
    /\ g \in groups
    /\ targets' = {t \in targets : t[2] # g}
    /\ \E order \in SetToSeqs(PoliciesOf(g)) :
          ReconcileAll(order, Audiences(everyone, targets', members), date)
    /\ groups' = groups \ {g}
    /\ members' = {m \in members : m[1] # g}
    /\ UNCHANGED <<versions, everyone>>

GroupsOf(e) == {m[1] : m \in {x \in members : x[2] = e}}

MembersAfter(e, G) == {m \in members : m[2] # e} \cup (G \X {e})

(* Policies are reconciled in three runs: those the employee leaves, those *)
(* of both groups, those he or she joins.  Within a run they are ordered   *)
(* by their identifiers, of which nothing is known.                        *)
MutMoveOrders_Any(old, new) == SetToSeqs(old \cup new)

MoveOrders(old, new) ==
    {run[1] \o run[2] \o run[3] :
        run \in SetToSeqs(old \ new) \X SetToSeqs(old \cap new) \X SetToSeqs(new \ old)}

PoliciesOfAny(G) == UNION {PoliciesOf(g) : g \in G}

(* G is the group the employee moves to, as a set of at most one. *)
SetEmployeeGroup(e, G, date) ==
    /\ MayJoin({e})
    /\ G \subseteq groups
    /\ \A g, h \in G : g = h
    /\ GroupsOf(e) # G
    /\ members' = MembersAfter(e, G)
    /\ \E order \in MoveOrders(PoliciesOfAny(GroupsOf(e)), PoliciesOfAny(G)) :
          ReconcileAll(order, Audiences(everyone, targets, members'), date)
    /\ UNCHANGED <<groups, versions, everyone, targets>>

-----------------------------------------------------------------------------
(* Policies. *)

(* Aiming a policy, in a call of its own or as part of one that writes a   *)
(* version.                                                                *)
Aim(p, all, G, date) ==
    /\ G \subseteq groups
    /\ all \/ G # {}
    /\ everyone' = IF all THEN everyone \cup {p} ELSE everyone \ {p}
    /\ targets' = {t \in targets : t[1] # p} \cup (IF all THEN {} ELSE {p} \X G)
    /\ ReconcileAll(<<p>>, Audiences(everyone', targets', members), date)

SetPolicyAudience(p, all, G, date) ==
    /\ Exists(p)
    /\ Aim(p, all, G, date)
    /\ UNCHANGED <<groups, members, versions>>

Version(no, from, draft) == [no |-> no, from |-> from, terms |-> draft]

NewPolicy(p, draft, date) ==
    /\ ~ Exists(p)
    /\ ValidDraft(draft)
    /\ versions' = [versions EXCEPT ![p] = {Version(1, date, draft)}]

(* The policy, its first version and its audience begin on one date. *)
CreatePolicy(p, draft, all, G, date) ==
    /\ NewPolicy(p, draft, date)
    /\ Aim(p, all, G, date)
    /\ UNCHANGED <<groups, members>>

MutStartsAfter_Unchecked(from, latest) == TRUE

StartsAfter(from, latest) == from > latest.from

AddVersion(p, draft, from) ==
    /\ Cardinality(versions[p]) < MaxVersions
    /\ ValidDraft(draft)
    /\ \E latest \in versions[p] :
        /\ IsLatest(latest, versions[p])
        /\ StartsAfter(from, latest)
        /\ versions' = [versions EXCEPT ![p] = @ \cup {Version(latest.no + 1, from, draft)}]

UpdatePolicy(p, draft, from) ==
    /\ AddVersion(p, draft, from)
    /\ UNCHANGED <<groups, members, everyone, targets, assignments>>

UpdatePolicyAndAudience(p, draft, from, all, G) ==
    /\ AddVersion(p, draft, from)
    /\ Aim(p, all, G, from)
    /\ UNCHANGED <<groups, members>>

-----------------------------------------------------------------------------
(* Assignments written by hand. *)

Assign(p, E, from) ==
    /\ Exists(p)
    /\ E # {}
    /\ \A e \in E : ~ Collides(assignments, e, p, from)
    /\ assignments' = assignments \cup NewRows(E, p, from)
    /\ Cardinality(assignments') <= MaxRows
    /\ UNCHANGED <<groups, members, versions, everyone, targets>>

(* An end that is set already is not moved. *)
EndAssignment(row, date) ==
    /\ row \in assignments
    /\ row.to = Open
    /\ row.from <= date
    /\ assignments' = (assignments \ {row}) \cup {[row EXCEPT !.to = date]}
    /\ UNCHANGED <<groups, members, versions, everyone, targets>>

-----------------------------------------------------------------------------

(* The calls that change an audience and reconcile it from a date on. *)
Reconciling(date) ==
    \/ \E g \in Groups, E \in SUBSET Employees : ReplaceMembers(g, E, date)
    \/ \E g \in Groups : RemoveGroup(g, date)
    \/ \E e \in Employees, G \in SUBSET Groups : SetEmployeeGroup(e, G, date)
    \/ \E p \in Policies, all \in BOOLEAN, G \in SUBSET Groups :
          SetPolicyAudience(p, all, G, date)
    \/ \E p \in Policies, draft \in Drafts, all \in BOOLEAN, G \in SUBSET Groups :
          CreatePolicy(p, draft, all, G, date)
    \/ \E p \in Policies, draft \in Drafts, all \in BOOLEAN, G \in SUBSET Groups :
          date \in VersionDates /\ UpdatePolicyAndAudience(p, draft, date, all, G)

AudienceNext ==
    \/ \E date \in AudienceDates : Reconciling(date)
    \/ \E g \in Groups, E \in SUBSET Employees : CreateGroup(g, E)
    \/ \E p \in Policies, draft \in Drafts, from \in VersionDates : UpdatePolicy(p, draft, from)
    \/ \E p \in Policies, E \in SUBSET ManualStaff, from \in AudienceDates : Assign(p, E, from)
    \/ \E row \in assignments, date \in AudienceDates : EndAssignment(row, date)

AudienceSpec == AudienceInit /\ [][AudienceNext]_audienceVars

-----------------------------------------------------------------------------
(* Properties. *)

(* The tables hold rows of their shapes, and nothing refers to a group or  *)
(* a policy that does not exist.                                           *)
AudienceTypeOK ==
    /\ groups \subseteq Groups
    /\ members \subseteq groups \X (Employees \ Admins)
    /\ \A p \in Policies : \A v \in versions[p] : v.no \in Nat /\ v.from \in Dates
                                                  /\ v.terms \in Drafts
    /\ everyone \subseteq {p \in Policies : Exists(p)}
    /\ targets \subseteq {p \in Policies : Exists(p)} \X groups
    /\ assignments \subseteq RowType
    /\ \A row \in assignments : Exists(row.policy)

(* An employee is in one group at most, whichever of the three calls that  *)
(* write memberships put him or her there.                                 *)
OneGroupPerEmployee == \A m, n \in members : m[2] = n[2] => m[1] = n[1]

(* On no date do two rows make an employee eligible in one category, not   *)
(* for a single day and not when the rows are of one policy.               *)
OneRowPerCategory ==
    \A x, y \in assignments :
        x.employee = y.employee /\ CategoryOf[x.policy] = CategoryOf[y.policy] /\ x # y =>
            \A date \in Dates : ~ (Covers(x, date) /\ Covers(y, date))

(* All an employee is eligible for from the date on comes from his or her  *)
(* group, the policies of the new group are of different categories, and   *)
(* nobody else's eligibility has drifted from the audience.                *)
PlainMove(e, G, date) ==
    LET left == PoliciesOfAny(GroupsOf(e))
        joined == PoliciesOfAny(G)
    IN  /\ \A row \in assignments :
              row.employee = e /\ row.to >= date => row.from <= date /\ row.policy \in left
        /\ \A p, q \in joined : p # q => CategoryOf[p] # CategoryOf[q]
        /\ \A p \in left \cup joined : EligibleOn(assignments, p, date) \ {e} = AudienceOf(p) \ {e}

(* A plain move is never refused because the policy of the old group still *)
(* covers the date: it is left before the one of the same category is      *)
(* joined, in whatever order the identifiers put them.                     *)
MovesSucceed ==
    \A e \in Employees \ Admins, date \in AudienceDates :
        \A G \in {{}} \cup {{g} : g \in groups} :
            PlainMove(e, G, date) =>
                \A order \in MoveOrders(PoliciesOfAny(GroupsOf(e)), PoliciesOfAny(G)) :
                    CanReconcile(order, Audiences(everyone, targets, MembersAfter(e, G)), date)

(* Version numbers and the dates versions take effect from agree in their  *)
(* order, so that the latest version is the one in force last.             *)
VersionsInOrder ==
    \A p \in Policies : \A v, w \in versions[p] : v.no < w.no <=> v.from < w.from

(* A rule of every tier has a time it applies: for a method a version      *)
(* uses, any seniority selects exactly one rule, or the jobs would fail    *)
(* for the whole company.                                                  *)
JobsFindATier ==
    \A p \in Policies : \A v \in versions[p] : \A i \in DOMAIN v.terms.rules :
        \A tenure \in {0} \cup Tiers(v.terms.rules) :
            \E j \in DOMAIN v.terms.rules :
                {k \in DOMAIN v.terms.rules :
                    IsSelected(k, v.terms.rules, v.terms.rules[i].method, tenure)} = {j}

(* Once a call has changed the audience of a policy from a date on, those  *)
(* eligible on that date are the audience, whoever was assigned or ended   *)
(* by hand before.                                                         *)
AudienceTakesEffect ==
    [][\A p \in Policies, date \in AudienceDates :
          \/ AudienceOf(p)' = AudienceOf(p)
          \/ EligibleOn(assignments, p, date)' = AudienceOf(p)'
          \/ ~ Reconciling(date)]_audienceVars

(* A change of an audience never rewrites who was eligible before the date *)
(* it takes effect from.                                                   *)
HistoryIsKept ==
    [][\A date \in AudienceDates :
          \/ \A p \in Policies : \A day \in {d \in Dates : d < date} :
                EligibleOn(assignments, p, day)' = EligibleOn(assignments, p, day)
          \/ ~ Reconciling(date)]_audienceVars

=============================================================================
