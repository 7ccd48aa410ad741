--------------------------- MODULE MCPolicyAudience ---------------------------
(* Small instances of PolicyAudience for TLC. *)
EXTENDS PolicyAudience

CONSTANTS e1, e2, boss, g1, g2, p1, p2, vacation

Symmetric ==
    Permutations(Employees \ Admins) \cup Permutations(Groups) \cup Permutations(Policies)

OneCategory == [p \in Policies |-> vacation]

Rule(tier) ==
    [method |-> "TIME", amount |-> 1, unit |-> "MINUTE", frequency |-> "MONTHLY",
     accruesAt |-> "START_OF_PERIOD", per |-> None, tier |-> tier]

Draft(rules) ==
    [kind |-> "ACCRUAL", rules |-> rules, allowNegative |-> FALSE, floor |-> 0, cap |-> None,
     carryover |-> None, expires |-> FALSE, proration |-> "PRORATE"]

(* One draft the validation lets pass, and two whose tiers it refuses. *)
TierDrafts == {Draft(<<Rule(0), Rule(1)>>), Draft(<<Rule(1)>>), Draft(<<Rule(0), Rule(0)>>)}

=============================================================================
