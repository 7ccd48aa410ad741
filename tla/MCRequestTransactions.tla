------------------------- MODULE MCRequestTransactions -------------------------
(* Small instances of RequestTransactions for TLC: one employee with a      *)
(* metered policy for vacation, and in one of them another for sickness,   *)
(* whose negative floors let leave be taken before any accrual.  Each set  *)
(* of calls asks one question.                                             *)
EXTENDS RequestTransactions, TLC

CONSTANTS e1, vacation, sickness, pto, sick, r1, r2, r3, t1, t2, t3, t4, t5, t6, t7,
          payroll, accrual

OneAssignment ==
    {[employee |-> e1, category |-> vacation, policy |-> pto, from |-> 0, to |-> LastDate]}

TwoAssignments == OneAssignment \cup
    {[employee |-> e1, category |-> sickness, policy |-> sick, from |-> 0, to |-> LastDate]}

FloorMinusFour == {-4, 0}

NegativePolicy == [p \in Policies |-> [no |-> 1, from |-> 0, kind |-> "ACCRUAL", floor |-> -4]]

JobMinutes == {2, 3}

AsksFor(c, r, start, end, partial) ==
    [op |-> "submit", request |-> r, employee |-> e1, category |-> c,
     start |-> start, end |-> end, partial |-> partial]

Asks(r, start, end, partial) == AsksFor(vacation, r, start, end, partial)

Decides(op, r) == [op |-> op, request |-> r]

Posts(posts) == [op |-> "job", posts |-> posts]

(* The keys are told apart by their minutes. *)
PostTo(source, p) ==
    [source |-> source, account |-> <<e1, p>>,
     minutes |-> IF source = payroll THEN 3 ELSE 2, date |-> 0]

(* Submissions whose dates do not overlap, each decided by two reviewers.  *)
(* The first one crosses the year; the floor allows it or the other two.  *)
DecisionCalls ==
    (t1 :> {Asks(r1, 1, 2, WholeDay)}) @@
    (t2 :> {Decides("approve", r1)}) @@
    (t3 :> {Decides("approve", r1), Decides("deny", r1)}) @@
    (t4 :> {Asks(r2, 0, 0, 1)}) @@
    (t5 :> {Decides("approve", r2), Decides("deny", r1)}) @@
    (t6 :> {Decides("approve", r2), Decides("deny", r2)}) @@
    (t7 :> {Asks(r3, 3, 3, 1)})

(* The same with cancellations by the employee and by an administrator.    *)
CancelCalls ==
    (t1 :> {Asks(r1, 1, 2, WholeDay)}) @@
    (t2 :> {Decides("approve", r1)}) @@
    (t3 :> {Decides("deny", r1), Decides("approve", r1)}) @@
    (t4 :> {Decides("cancel", r1)}) @@
    (t5 :> {Decides("cancel", r1)}) @@
    (t6 :> {Asks(r2, 2, 2, 1)})

(* An accrual job beside its replay or a job with another key, which visit *)
(* the accounts in any order, while requests come and go that post nothing *)
(* themselves.                                                             *)
JobCalls ==
    (t1 :> {Posts(<<PostTo(accrual, pto), PostTo(accrual, sick)>>)}) @@
    (t2 :> {Posts(<<PostTo(s, sick), PostTo(s, pto)>>) : s \in JobSources} \cup
           {Posts(<<PostTo(s, pto), PostTo(s, sick)>>) : s \in JobSources}) @@
    (t3 :> {Asks(r1, 1, 1, WholeDay)}) @@
    (t4 :> {Decides("deny", r1), Decides("cancel", r1)}) @@
    (t5 :> {Asks(r2, 2, 2, 1), AsksFor(sickness, r2, 2, 2, WholeDay)})

(* Two tabs ask for the same day. *)
OverlapCalls == (t1 :> {Asks(r1, 1, 1, 1)}) @@ (t2 :> {Asks(r2, 1, 1, 1)})

(* A reviewer approves while the employee takes the request back.          *)
CancelRaceCalls ==
    (t1 :> {Asks(r1, 1, 1, 1)}) @@ (t2 :> {Decides("approve", r1)}) @@
    (t3 :> {Decides("cancel", r1)})

(* A job posts while a reviewer approves. *)
JobRaceCalls ==
    (t1 :> {Asks(r1, 1, 1, 1)}) @@ (t2 :> {Decides("approve", r1)}) @@
    (t3 :> {Posts(<<PostTo(accrual, pto)>>)})

=============================================================================
