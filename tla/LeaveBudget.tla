------------------------------ MODULE LeaveBudget ------------------------------
(***************************************************************************)
(* What the request workflow promises an employee, without its ledger,     *)
(* snapshots or holds: an account has the minutes the jobs granted it,     *)
(* every live request claims some of them, and a claim may be made or      *)
(* confirmed only while what is left stays at or above the floor of the    *)
(* policy version the request was made under.                              *)
(***************************************************************************)
EXTENDS MinuteSums

CONSTANTS
    Accounts, Requests,
    Grants,    \* the amounts one job entry may have
    Costs,     \* the minutes one request may claim
    Floors     \* the floors of the policy versions

VARIABLES
    granted,   \* per account: the minutes granted, less those taken away
    claims     \* per request: its account, minutes, floor and phase

budgetVars == <<granted, claims>>

Unclaimed == [phase |-> "none"]

LivePhases == {"held", "spent"}

ClaimsOn(a) == {r \in Requests : claims[r].phase \in LivePhases /\ claims[r].account = a}

Claimed(a) == SumAmounts({[request |-> r, amount |-> claims[r].minutes] : r \in ClaimsOn(a)})

Available(a) == granted[a] - Claimed(a)

Init ==
    /\ granted = [a \in Accounts |-> 0]
    /\ claims = [r \in Requests |-> Unclaimed]

(* The jobs credit an account, or forfeit and expire part of it. *)
Grant(a, minutes) ==
    /\ granted' = [granted EXCEPT ![a] = @ + minutes]
    /\ UNCHANGED claims

Claim(r, a, minutes, floor) ==
    /\ claims[r] = Unclaimed
    /\ Available(a) - minutes >= floor
    /\ claims' = [claims EXCEPT ![r] =
          [phase |-> "held", account |-> a, minutes |-> minutes, floor |-> floor]]
    /\ UNCHANGED granted

(* Confirming a claim moves no minutes, but needs them to be still there. *)
Confirm(r) ==
    /\ claims[r].phase = "held"
    /\ Available(claims[r].account) >= claims[r].floor
    /\ claims' = [claims EXCEPT ![r].phase = "spent"]
    /\ UNCHANGED granted

Release(r) ==
    /\ claims[r].phase \in LivePhases
    /\ claims' = [claims EXCEPT ![r].phase = "released"]
    /\ UNCHANGED granted

Next ==
    \/ \E a \in Accounts, minutes \in Grants : Grant(a, minutes)
    \/ \E r \in Requests, a \in Accounts, minutes \in Costs, floor \in Floors :
          Claim(r, a, minutes, floor)
    \/ \E r \in Requests : Confirm(r) \/ Release(r)

Spec == Init /\ [][Next]_budgetVars

=============================================================================
