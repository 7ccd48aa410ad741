------------------------------ MODULE PolicyRules ------------------------------
(***************************************************************************)
(* What a policy version may say, and what its rules are worth: the checks *)
(* every draft passes before it becomes a version, the conversion of a     *)
(* rule's amount to minutes, and the year-end plan.  There is no state.    *)
(*                                                                         *)
(* A draft is a record                                                     *)
(*   [kind, rules, allowNegative, floor, cap, carryover, expires,          *)
(*    proration]                                                           *)
(* and a rule [method, amount, unit, frequency, accruesAt, per, tier];     *)
(* fields that are not given are None.  Amounts are decimals with a fixed  *)
(* number of places: amount counts units of 1 / AmountScale.               *)
(***************************************************************************)
EXTENDS AccrualCalendar, Sequences

CONSTANTS
    MinutesPerHour,   \* 60 in the code
    AmountScale,      \* 10000 in the code, for four decimal places
    None              \* a field that is not given, a row that does not exist

ASSUME UnitAssumption == MinutesPerHour \in Nat \ {0} /\ AmountScale \in Nat \ {0}

Kinds == {"ACCRUAL", "UNLIMITED"}

Prorations == {"FULL", "PRORATE", "NONE"}

RuleType ==
    [method : {"TIME", "HOURS_WORKED"}, amount : Int, unit : {"DAY", "HOUR", "MINUTE"},
     frequency : Schedules \cup {None}, accruesAt : {"START_OF_PERIOD", "END_OF_PERIOD", None},
     per : Nat \cup {None}, tier : Nat]

DraftType ==
    [kind : Kinds, rules : Seq(RuleType), allowNegative : BOOLEAN, floor : Int,
     cap : Int \cup {None}, carryover : Int \cup {None}, expires : BOOLEAN,
     proration : Prorations]

-----------------------------------------------------------------------------
(* Validation. *)

Tiers(rules) == {rules[i].tier : i \in DOMAIN rules}

(* A rule has the fields its method needs and shares them with the first. *)
ValidRule(rule, baseline) ==
    /\ rule.amount > 0
    /\ rule.method = baseline.method
    /\ rule.method = "TIME" =>
          /\ rule.frequency # None /\ rule.accruesAt # None
          /\ rule.frequency = baseline.frequency /\ rule.accruesAt = baseline.accruesAt
    /\ rule.method = "HOURS_WORKED" =>
          /\ rule.per \notin {None, 0}
          /\ rule.frequency = None /\ rule.accruesAt = None

MutValidRules_NoZeroTier(kind, rules) ==
    /\ kind = "UNLIMITED" => rules = <<>>
    /\ kind = "ACCRUAL" =>
          /\ rules # <<>>
          /\ Cardinality(Tiers(rules)) = Len(rules)
          /\ \A i \in DOMAIN rules : ValidRule(rules[i], rules[1])

ValidRules(kind, rules) ==
    /\ kind = "UNLIMITED" => rules = <<>>
    /\ kind = "ACCRUAL" =>
          /\ rules # <<>>
          /\ Cardinality(Tiers(rules)) = Len(rules) /\ 0 \in Tiers(rules)
          /\ \A i \in DOMAIN rules : ValidRule(rules[i], rules[1])

ValidSettings(draft) ==
    /\ draft.allowNegative => draft.floor < 0
    /\ draft.cap # None => draft.cap > 0
    /\ draft.carryover # None => draft.carryover >= 0
    /\ ~ (draft.expires /\ draft.carryover # None)

ValidDraft(draft) == ValidRules(draft.kind, draft.rules) /\ ValidSettings(draft)

-----------------------------------------------------------------------------
(* What a rule is worth. *)

(* Fractions of a minute are dropped. *)
ToMinutes(amount, unit) ==
    (amount * CASE unit = "DAY" -> DayMinutes
                [] unit = "HOUR" -> MinutesPerHour
                [] unit = "MINUTE" -> 1) \div AmountScale

(* An employee who becomes eligible inside the period earns all of it,     *)
(* nothing, or the share of its days that are left.                        *)
ScheduledAmount(rule, period, eligibleFrom, proration) ==
    LET full == ToMinutes(rule.amount, rule.unit)
    IN  CASE eligibleFrom <= period.start \/ proration = "FULL" -> full
          [] eligibleFrom > period.start /\ proration = "NONE" -> 0
          [] eligibleFrom > period.start /\ proration = "PRORATE" ->
                (full * (period.end - eligibleFrom + 1)) \div (period.end - period.start + 1)

PayrollAmount(minutesWorked, rule) ==
    (minutesWorked * ToMinutes(rule.amount, rule.unit)) \div rule.per

(* The rules of a method an employee is senior enough for. *)
EligibleRules(rules, method, tenure) ==
    {i \in DOMAIN rules : rules[i].method = method /\ rules[i].tier <= tenure}

(* The rule of the highest tier among them. *)
IsSelected(i, rules, method, tenure) ==
    /\ i \in EligibleRules(rules, method, tenure)
    /\ \A j \in EligibleRules(rules, method, tenure) : rules[j].tier <= rules[i].tier

-----------------------------------------------------------------------------
(* The legs that close a policy year: all of a positive balance expires on *)
(* the last day, and what is carried over is credited on the next one.     *)

Carried(balance, version) ==
    IF version.expires THEN 0 ELSE Min({balance, version.carryover})

MutPlan_ExpiresRest(balance, periodEnd, version) ==
    IF balance <= 0 \/ (~ version.expires /\ version.carryover = None)
    THEN {}
    ELSE LET carried == Carried(balance, version)
         IN  {[type |-> "EXPIRATION", amount |-> carried - balance, effective |-> periodEnd]} \cup
             {[type |-> "CARRYOVER", amount |-> x, effective |-> periodEnd + 1] :
                 x \in {carried} \ {0}}

Plan(balance, periodEnd, version) ==
    IF balance <= 0 \/ (~ version.expires /\ version.carryover = None)
    THEN {}
    ELSE LET carried == Carried(balance, version)
         IN  {[type |-> "EXPIRATION", amount |-> -balance, effective |-> periodEnd]} \cup
             {[type |-> "CARRYOVER", amount |-> x, effective |-> periodEnd + 1] :
                 x \in {carried} \ {0}}

=============================================================================
