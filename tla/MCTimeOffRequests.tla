--------------------------- MODULE MCTimeOffRequests ---------------------------
(* Small instances of TimeOffRequests for TLC. *)
EXTENDS TimeOffRequests, TLC

CONSTANTS e1, vacation, other, pto, unlimited

Symmetric == Permutations(Requests)

Row(e, c, p, from, to) ==
    [employee |-> e, category |-> c, policy |-> p, from |-> from, to |-> to]

(* A .cfg has no negative numbers. *)
Amounts == {-1, 3}
FloorsToMinusOne == {-1, 0}
FloorZero == {0}

(* One employee with a metered policy and an unlimited one for leave of   *)
(* another kind, which ends before the horizon does.                       *)
MixedAssignments ==
    {Row(e1, vacation, pto, 0, LastDate), Row(e1, other, unlimited, 0, LastDate - 1)}

MixedFirst ==
    [p \in Policies |->
        [no |-> 1, from |-> 0, kind |-> IF p = pto THEN "ACCRUAL" ELSE "UNLIMITED", floor |-> 0]]

(* The metered policy may get a lower floor, and either may change kind.   *)
MixedNew ==
    {[from |-> 2, kind |-> "ACCRUAL", floor |-> -1],
     [from |-> 1, kind |-> "UNLIMITED", floor |-> 0]}

(* Metered policies only: one that covers the horizon, one that ends.      *)
MeteredFirst == [p \in Policies |-> [no |-> 1, from |-> 0, kind |-> "ACCRUAL", floor |-> 0]]

MeteredNew == {[from |-> 2, kind |-> "ACCRUAL", floor |-> -1]}

=============================================================================
