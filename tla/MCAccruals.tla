------------------------------ MODULE MCAccruals ------------------------------
(* Small instances of Accruals for TLC: months of three and of two days,   *)
(* two of them a year.                                                     *)
EXTENDS Accruals

CONSTANTS e1, g1, p1, r1, run1, vacation

OneCategory == [p \in Policies |-> vacation]

HiredLate == [e \in Employees |-> 2]

YearEndPay == (run1 :> 4)

TimeRule(amount, accruesAt, tier) ==
    [method |-> "TIME", amount |-> amount, unit |-> "MINUTE", frequency |-> "MONTHLY",
     accruesAt |-> accruesAt, per |-> None, tier |-> tier]

WorkRule ==
    [method |-> "HOURS_WORKED", amount |-> 1, unit |-> "MINUTE", frequency |-> None,
     accruesAt |-> None, per |-> 2, tier |-> 0]

Draft(rules, cap, carryover, expires, proration) ==
    [kind |-> "ACCRUAL", rules |-> rules, allowNegative |-> FALSE, floor |-> 0, cap |-> cap,
     carryover |-> carryover, expires |-> expires, proration |-> proration]

Senior == Draft(<<TimeRule(2, "START_OF_PERIOD", 0), TimeRule(3, "START_OF_PERIOD", 1)>>,
                None, 1, FALSE, "PRORATE")

Capped == Draft(<<TimeRule(3, "END_OF_PERIOD", 0)>>, 4, None, TRUE, "NONE")

Paid == Draft(<<WorkRule>>, 2, None, FALSE, "FULL")

JobDrafts == {Senior, Capped, Paid}

CappedOnly == {Capped}

=============================================================================
