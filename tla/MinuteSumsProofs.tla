--------------------------- MODULE MinuteSumsProofs ---------------------------
(* What the sums of MinuteSums obey: they are integers, add up over        *)
(* disjoint sets, and are the amount itself for a single record.  Before   *)
(* them, two ways to reason about any number of things: the least number   *)
(* of a set, and induction over the subsets of a finite one.               *)
EXTENDS MinuteSums, FiniteSetTheorems, WellFoundedInduction, TLAPS

(* Every set of numbers has a least one. *)
LEMMA LeastNumber ==
    ASSUME NEW S \in SUBSET Nat, S # {}
    PROVE  \E m \in S : \A k \in S : m <= k
<1>1. PICK m \in S : \A k \in S : <<k, m>> \notin OpToRel(<, Nat)
    BY NatLessThanWellFounded, WFMin
<1>2. \A k \in S : ~ (k < m)
    BY <1>1 DEF OpToRel
<1> QED
    BY <1>2

(* What holds of no elements, and of one element more whenever it holds of *)
(* some, holds of a finite set.  The predicate is the set of the subsets   *)
(* it holds of, so that the provers need not instantiate an operator.      *)
LEMMA SubsetInduction ==
    ASSUME NEW F, IsFiniteSet(F), NEW Good, {} \in Good,
           \A G \in SUBSET F : \A x \in F \ G : G \in Good => G \cup {x} \in Good
    PROVE  F \in Good
<1> DEFINE Bad == {G \in SUBSET F : G \notin Good}
           Sizes == {n \in Nat : \E G \in Bad : Cardinality(G) = n}
<1>1. SUFFICES ASSUME Bad # {} PROVE FALSE
    OBVIOUS
<1>2. \A G \in SUBSET F : IsFiniteSet(G) /\ Cardinality(G) \in Nat
    BY FS_Subset, FS_CardinalityType
<1>3. Sizes # {}
    BY <1>1, <1>2
<1>4. PICK n \in Sizes : \A k \in Sizes : n <= k
    BY <1>3, LeastNumber
<1>5. PICK G \in Bad : Cardinality(G) = n
    OBVIOUS
<1>6. PICK x \in G : TRUE
    OBVIOUS
<1>7. Cardinality(G \ {x}) = n - 1 /\ n - 1 \in Nat
  <2>1. Cardinality(G \ {x}) = Cardinality(G) - 1
      BY <1>2, <1>6, FS_RemoveElement
  <2>2. Cardinality(G \ {x}) \in Nat
      BY <1>2
  <2> QED
      BY <1>5, <2>1, <2>2
<1>8. G \in SUBSET F /\ G \notin Good
    BY <1>5
<1>9. G \ {x} \in SUBSET F /\ x \in F \ (G \ {x}) /\ (G \ {x}) \cup {x} = G
    BY <1>6, <1>8
<1>10. G \ {x} \in Good
  <2>1. n - 1 \notin Sizes
      BY <1>4, <1>7
  <2> QED
      BY <1>7, <1>9, <2>1
<1> HIDE DEF Bad, Sizes
<1> QED
    BY <1>8, <1>9, <1>10

-----------------------------------------------------------------------------

HasAmounts(S) == IsFiniteSet(S) /\ \A x \in S : x.amount \in Int

(* The image of a finite set is finite; the library states this with an    *)
(* operator parameter, this one with the function.                         *)
LEMMA FiniteImage ==
    ASSUME NEW S, IsFiniteSet(S), NEW f, DOMAIN f = S
    PROVE  IsFiniteSet({f[x] : x \in S})
<1> DEFINE T == {f[x] : x \in S}
           g == [x \in S |-> f[x]]
<1>1. g \in Surjection(S, T)
    BY DEF Surjection
<1> QED
    BY <1>1, FS_Surjection

LEMMA UpTo ==
    ASSUME NEW k \in Int
    PROVE  IsFiniteSet(1 .. k) /\ Cardinality(1 .. k) = IF k >= 1 THEN k ELSE 0
<1>1. IsFiniteSet(1 .. k) /\ Cardinality(1 .. k) = IF 1 > k THEN 0 ELSE k - 1 + 1
    <2>1. 1 \in Int
        OBVIOUS
    <2> QED
        BY <2>1, FS_Interval
<1> QED
    BY <1>1

(* A record with k minutes has k of them. *)
LEMMA Tagged ==
    ASSUME NEW x, NEW k \in Int
    PROVE  IsFiniteSet({x} \X (1 .. k))
           /\ Cardinality({x} \X (1 .. k)) = IF k >= 1 THEN k ELSE 0
<1>1. IsFiniteSet({x}) /\ Cardinality({x}) = 1
    BY FS_Singleton
<1>2. IsFiniteSet(1 .. k) /\ Cardinality(1 .. k) = IF k >= 1 THEN k ELSE 0
    BY UpTo
<1>3. IsFiniteSet({x} \X (1 .. k)) /\ Cardinality({x} \X (1 .. k)) = 1 * Cardinality(1 .. k)
    BY <1>1, <1>2, FS_Product
<1> QED
    BY <1>2, <1>3

(* Minutes of each sign are finitely many, so that counting them is sound. *)
LEMMA MinutesFinite ==
    ASSUME NEW S, HasAmounts(S)
    PROVE  IsFiniteSet(CreditMinutes(S)) /\ IsFiniteSet(DebitMinutes(S))
<1>1. ASSUME NEW c, c = [x \in S |-> {x} \X (1 .. x.amount)]
      PROVE  IsFiniteSet(CreditMinutes(S))
  <2>1. \A T \in {c[x] : x \in S} : IsFiniteSet(T)
    <3>1. \A x \in S : x.amount \in Int
        BY DEF HasAmounts
    <3> QED
        BY <1>1, <3>1, Tagged
  <2>2. DOMAIN c = S
      BY <1>1
  <2>3. IsFiniteSet({c[x] : x \in S})
      BY <2>2, FiniteImage DEF HasAmounts
  <2>4. UNION {c[x] : x \in S} = CreditMinutes(S)
      BY <1>1 DEF CreditMinutes
  <2> QED
      BY <2>1, <2>3, <2>4, FS_UNION
<1>2. ASSUME NEW d, d = [x \in S |-> {x} \X (1 .. -x.amount)]
      PROVE  IsFiniteSet(DebitMinutes(S))
  <2>1. \A x \in S : -x.amount \in Int
      BY DEF HasAmounts
  <2>2. \A T \in {d[x] : x \in S} : IsFiniteSet(T)
      BY <1>2, <2>1, Tagged
  <2>3. DOMAIN d = S
      BY <1>2
  <2>4. IsFiniteSet({d[x] : x \in S})
      BY <2>3, FiniteImage DEF HasAmounts
  <2>5. UNION {d[x] : x \in S} = DebitMinutes(S)
      BY <1>2 DEF DebitMinutes
  <2> QED
      BY <2>2, <2>4, <2>5, FS_UNION
<1> QED
    BY <1>1, <1>2

(* A sum of integer amounts is an integer. *)
LEMMA SumType ==
    ASSUME NEW S, HasAmounts(S)
    PROVE  SumAmounts(S) \in Int
BY MinutesFinite, FS_CardinalityType DEF SumAmounts

(* Nothing sums to zero. *)
LEMMA SumEmpty == SumAmounts({}) = 0
<1>1. CreditMinutes({}) = {} /\ DebitMinutes({}) = {}
    BY DEF CreditMinutes, DebitMinutes
<1> QED
    BY <1>1, FS_EmptySet DEF SumAmounts

LEMMA DisjointUnion ==
    ASSUME NEW A, NEW B, IsFiniteSet(A), IsFiniteSet(B), A \cap B = {}
    PROVE  Cardinality(A \cup B) = Cardinality(A) + Cardinality(B)
<1>1. Cardinality(A) \in Nat /\ Cardinality(B) \in Nat
    BY FS_CardinalityType
<1>2. Cardinality(A \cup B) = Cardinality(A) + Cardinality(B) - Cardinality(A \cap B)
    BY FS_Union
<1>3. Cardinality(A \cap B) = 0
    BY FS_EmptySet
<1> QED
    BY <1>1, <1>2, <1>3

(* The sum over two disjoint sets is the sum of the sums. *)
LEMMA SumUnion ==
    ASSUME NEW S, NEW T, HasAmounts(S), HasAmounts(T), S \cap T = {}
    PROVE  SumAmounts(S \cup T) = SumAmounts(S) + SumAmounts(T)
<1>1. /\ CreditMinutes(S \cup T) = CreditMinutes(S) \cup CreditMinutes(T)
      /\ DebitMinutes(S \cup T) = DebitMinutes(S) \cup DebitMinutes(T)
    BY DEF CreditMinutes, DebitMinutes
<1>2. /\ CreditMinutes(S) \cap CreditMinutes(T) = {}
      /\ DebitMinutes(S) \cap DebitMinutes(T) = {}
    BY DEF CreditMinutes, DebitMinutes
<1>3. /\ IsFiniteSet(CreditMinutes(S)) /\ IsFiniteSet(DebitMinutes(S))
      /\ IsFiniteSet(CreditMinutes(T)) /\ IsFiniteSet(DebitMinutes(T))
    BY MinutesFinite
<1>4. /\ Cardinality(CreditMinutes(S)) \in Nat /\ Cardinality(DebitMinutes(S)) \in Nat
      /\ Cardinality(CreditMinutes(T)) \in Nat /\ Cardinality(DebitMinutes(T)) \in Nat
    BY <1>3, FS_CardinalityType
<1>5. Cardinality(CreditMinutes(S \cup T)) =
          Cardinality(CreditMinutes(S)) + Cardinality(CreditMinutes(T))
    BY <1>1, <1>2, <1>3, DisjointUnion
<1>6. Cardinality(DebitMinutes(S \cup T)) =
          Cardinality(DebitMinutes(S)) + Cardinality(DebitMinutes(T))
    BY <1>1, <1>2, <1>3, DisjointUnion
<1> QED
    BY <1>4, <1>5, <1>6 DEF SumAmounts

(* A single record sums to its amount, whatever its sign. *)
LEMMA SumSingleton ==
    ASSUME NEW x, x.amount \in Int
    PROVE  SumAmounts({x}) = x.amount
<1>1. CreditMinutes({x}) = {x} \X (1 .. x.amount) /\ DebitMinutes({x}) = {x} \X (1 .. -x.amount)
    BY DEF CreditMinutes, DebitMinutes
<1>2. -x.amount \in Int
    OBVIOUS
<1>3. Cardinality(CreditMinutes({x})) = IF x.amount >= 1 THEN x.amount ELSE 0
    BY <1>1, Tagged
<1>4. Cardinality(DebitMinutes({x})) = IF -x.amount >= 1 THEN -x.amount ELSE 0
    BY <1>1, <1>2, Tagged
<1> QED
    BY <1>3, <1>4 DEF SumAmounts

=============================================================================
