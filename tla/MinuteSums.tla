------------------------------ MODULE MinuteSums ------------------------------
(***************************************************************************)
(* SUM(amount_minutes) over a finite set of records with an integer        *)
(* "amount".  A sum is a count of minutes, those of the credits less those *)
(* of the debits, so that what is known of finite sets applies to it and   *)
(* no recursion is needed.                                                 *)
(***************************************************************************)
EXTENDS Integers, FiniteSets

CreditMinutes(S) == UNION {{x} \X (1 .. x.amount) : x \in S}

DebitMinutes(S) == UNION {{x} \X (1 .. -x.amount) : x \in S}

SumAmounts(S) == Cardinality(CreditMinutes(S)) - Cardinality(DebitMinutes(S))

=============================================================================
