-------------------------- MODULE FiniteInduction ---------------------------
(***************************************************************************)
(* Induction and recursion over numbers and finite sets, with sets and     *)
(* functions in the place of predicates and operators: the least number    *)
(* principle, induction over the subsets of a finite set, and functions    *)
(* defined by recursion over them, as the folds of the models are.         *)
(***************************************************************************)
EXTENDS Integers, FiniteSetTheorems, WellFoundedInduction, TLAPS

(* A set of natural numbers that is not empty has a least one.             *)
LEMMA LeastExists ==
    ASSUME NEW T \in SUBSET Nat, T # {}
    PROVE  \E x \in T : \A y \in T : x <= y
<1> DEFINE R == OpToRel(<, Nat)
<1>1. IsWellFoundedOn(R, Nat)
  BY NatLessThanWellFounded
<1>2. \A a, b \in Nat : a < b => <<a, b>> \in R
  BY DEF OpToRel
<1> HIDE DEF R
<1>3. PICK x \in T : \A y \in T : <<y, x>> \notin R
  BY <1>1, WFMin
<1>4. \A y \in T : ~ (y < x)
  <2>1. \A y \in T : y \in Nat /\ x \in Nat
    OBVIOUS
  <2>2. QED
    BY <1>2, <1>3, <2>1, Zenon
<1>5. \A y \in T : ~ (y < x) <=> x <= y
  OBVIOUS
<1>6. QED
  BY <1>4, <1>5

(* Induction over the natural numbers.                                     *)
LEMMA NumberInduction ==
    ASSUME NEW A, 0 \in A, \A n \in Nat : n \in A => n + 1 \in A
    PROVE  \A n \in Nat : n \in A
<1> SUFFICES ASSUME NEW n \in Nat, n \notin A PROVE FALSE
  OBVIOUS
<1> DEFINE T == Nat \ A
<1>1. PICK m \in T : \A k \in T : m <= k
  <2>1. T \in SUBSET Nat /\ T # {}
    OBVIOUS
  <2>2. QED
    BY <2>1, LeastExists
<1>2. m # 0 /\ m - 1 \in Nat /\ (m - 1) + 1 = m /\ ~ (m <= m - 1)
  BY <1>1
<1>3. m - 1 \in A
  BY <1>1, <1>2
<1>4. QED
  BY <1>1, <1>2, <1>3

(* Induction over the subsets of a finite set.                             *)
LEMMA SubsetInduction ==
    ASSUME NEW S, IsFiniteSet(S), NEW A, {} \in A,
           \A s \in SUBSET S : s # {} /\ (\A x \in s : s \ {x} \in A) => s \in A
    PROVE  \A s \in SUBSET S : s \in A
<1> DEFINE B == {n \in Nat : \A s \in SUBSET S : Cardinality(s) = n => s \in A}
<1>1. \A s \in SUBSET S : IsFiniteSet(s) /\ Cardinality(s) \in Nat
  BY FS_Subset, FS_CardinalityType
<1>2. 0 \in B
  BY <1>1, FS_EmptySet
<1>3. ASSUME NEW n \in Nat, n \in B PROVE n + 1 \in B
  <2> SUFFICES ASSUME NEW s \in SUBSET S, Cardinality(s) = n + 1 PROVE s \in A
    OBVIOUS
  <2>1. s # {}
    BY FS_EmptySet
  <2>2. ASSUME NEW x \in s PROVE s \ {x} \in A
    <3>1. Cardinality(s \ {x}) = n /\ s \ {x} \in SUBSET S
      BY <1>1, FS_RemoveElement
    <3>2. QED
      BY <1>3, <3>1
  <2>3. QED
    BY <2>1, <2>2
<1> HIDE DEF B
<1>4. \A n \in Nat : n \in B
  BY <1>2, <1>3, NumberInduction
<1>5. QED
  BY <1>1, <1>4 DEF B

(* A function over the subsets of a finite set that is defined by          *)
(* recursion exists, whatever element `pick` takes out of a set.           *)
IsFoldBy(it, S, pick, base, step) ==
    it = [s \in SUBSET S |-> IF s = {} THEN base ELSE step[<<pick[s], it[s \ {pick[s]}]>>]]

LEMMA FoldByExists ==
    ASSUME NEW S, IsFiniteSet(S), NEW V, NEW base \in V, NEW step \in [S \X V -> V],
           NEW pick, \A s \in SUBSET S : s # {} => pick[s] \in s
    PROVE  \E it \in [SUBSET S -> V] : IsFoldBy(it, S, pick, base, step)
<1> DEFINE Small(n) == {s \in SUBSET S : Cardinality(s) <= n}
           Rest(s) == s \ {pick[s]}
           Value(it, s) == IF s = {} THEN base ELSE step[<<pick[s], it[Rest(s)]>>]
           B == {n \in Nat : \E it \in [Small(n) -> V] : \A s \in Small(n) : it[s] = Value(it, s)}
<1>1. \A s \in SUBSET S : IsFiniteSet(s) /\ Cardinality(s) \in Nat
  BY FS_Subset, FS_CardinalityType
<1>2. ASSUME NEW s \in SUBSET S, s # {}
      PROVE  pick[s] \in s /\ Rest(s) \in SUBSET S /\ Cardinality(Rest(s)) = Cardinality(s) - 1
  BY <1>1, <1>2, FS_RemoveElement
<1>3. 0 \in B
  <2> DEFINE it == [s \in Small(0) |-> base]
  <2>1. \A s \in Small(0) : s = {}
    BY <1>1, FS_EmptySet
  <2>2. it \in [Small(0) -> V] /\ \A s \in Small(0) : it[s] = Value(it, s)
    BY <2>1
  <2>3. QED
    BY <2>2
<1>4. ASSUME NEW n \in Nat, n \in B PROVE n + 1 \in B
  <2>1. PICK it \in [Small(n) -> V] : \A s \in Small(n) : it[s] = Value(it, s)
    BY <1>4
  <2> DEFINE new == [s \in Small(n + 1) |-> Value(it, s)]
  <2>2. ASSUME NEW s \in Small(n + 1), s # {} PROVE Rest(s) \in Small(n) /\ pick[s] \in S
    BY <1>1, <1>2, <2>2
  <2>3. \A s \in Small(n + 1) : Value(it, s) \in V
    BY <2>2
  <2>4. Small(n) \subseteq Small(n + 1)
    BY <1>1
  <2>5. \A s \in Small(n) : new[s] = it[s]
    BY <2>1, <2>4
  <2>6. ASSUME NEW s \in Small(n + 1) PROVE new[s] = Value(new, s)
    <3>1. new[s] = Value(it, s)
      OBVIOUS
    <3> HIDE DEF new, Small, Rest
    <3>2. QED
      BY <2>2, <2>5, <3>1
  <2>7. new \in [Small(n + 1) -> V]
    BY <2>3
  <2> HIDE DEF new, Small, Value
  <2>8. QED
    BY <2>6, <2>7
<1> HIDE DEF B
<1>5. \A n \in Nat : n \in B
  BY <1>3, <1>4, NumberInduction
<1> DEFINE n == Cardinality(S)
<1>6. n \in Nat /\ Small(n) = SUBSET S
  BY <1>1, FS_Subset
<1> HIDE DEF n
<1>7. PICK it \in [Small(n) -> V] : \A s \in Small(n) : it[s] = Value(it, s)
  BY <1>5, <1>6 DEF B
<1>8. IsFoldBy(it, S, pick, base, step)
  BY <1>6, <1>7 DEF IsFoldBy
<1>9. QED
  BY <1>6, <1>7, <1>8

(* The same where the element taken out is CHOOSE's.                       *)
Pick(s) == CHOOSE x \in s : TRUE

IsFold(it, S, base, step) ==
    it = [s \in SUBSET S |-> IF s = {} THEN base ELSE step[<<Pick(s), it[s \ {Pick(s)}]>>]]

LEMMA FoldExists ==
    ASSUME NEW S, IsFiniteSet(S), NEW V, NEW base \in V, NEW step \in [S \X V -> V]
    PROVE  \E it \in [SUBSET S -> V] : IsFold(it, S, base, step)
<1> DEFINE pick == [s \in SUBSET S |-> Pick(s)]
<1>1. \A s \in SUBSET S : s # {} => pick[s] \in s
  BY DEF Pick
<1>2. \A s \in SUBSET S : pick[s] = Pick(s)
  OBVIOUS
<1> HIDE DEF pick
<1>3. PICK it \in [SUBSET S -> V] : IsFoldBy(it, S, pick, base, step)
  BY <1>1, FoldByExists
<1>4. [s \in SUBSET S |-> IF s = {} THEN base ELSE step[<<pick[s], it[s \ {pick[s]}]>>]]
        = [s \in SUBSET S |-> IF s = {} THEN base ELSE step[<<Pick(s), it[s \ {Pick(s)}]>>]]
  BY <1>2
<1>5. QED
  BY <1>3, <1>4 DEF IsFoldBy, IsFold


(* A finite set of numbers that is not empty has a greatest one.           *)
LEMMA GreatestExists ==
    ASSUME NEW S \in SUBSET Int, IsFiniteSet(S), S # {}
    PROVE  \E m \in S : \A t \in S : t <= m
<1> DEFINE A == {T \in SUBSET S : T # {} => \E m \in T : \A t \in T : t <= m}
<1>1. {} \in A
  OBVIOUS
<1>2. ASSUME NEW T \in SUBSET S, T # {}, \A x \in T : T \ {x} \in A PROVE T \in A
  <2>1. PICK x \in T : TRUE
    BY <1>2
  <2>2. CASE T \ {x} = {}
    BY <2>1, <2>2
  <2>3. CASE T \ {x} # {}
    <3>1. PICK m \in T \ {x} : \A t \in T \ {x} : t <= m
      BY <1>2, <2>1, <2>3
    <3>2. CASE x <= m
      BY <3>1, <3>2
    <3>3. CASE ~ (x <= m)
      BY <2>1, <3>1, <3>3
    <3>4. QED
      BY <3>2, <3>3
  <2>4. QED
    BY <2>2, <2>3
<1> HIDE DEF A
<1>3. S \in A
  BY <1>1, <1>2, SubsetInduction
<1>4. QED
  BY <1>3 DEF A

(* A sequence whose elements follow from the ones before: one of any       *)
(* length exists.                                                          *)
IsSequence(it, n, start, step) ==
    it = [k \in 0..n |-> IF k = 0 THEN start ELSE step[it[k - 1]]]

LEMMA SequenceExists ==
    ASSUME NEW X, NEW start \in X, NEW step \in [X -> X], NEW n \in Nat
    PROVE  \E it \in [0..n -> X] : IsSequence(it, n, start, step)
<1> DEFINE Fits(it, m) == it = [k \in 0..m |-> IF k = 0 THEN start ELSE step[it[k - 1]]]
           A == {m \in Nat : \E it \in [0..m -> X] : Fits(it, m)}
<1>1. 0 \in A
  <2> DEFINE it == [k \in 0..0 |-> start]
  <2>1. it \in [0..0 -> X] /\ \A k \in 0..0 : k = 0
    OBVIOUS
  <2>2. Fits(it, 0)
    BY <2>1
  <2>3. QED
    BY <2>1, <2>2
<1>2. ASSUME NEW m \in Nat, m \in A PROVE m + 1 \in A
  <2>1. PICK it \in [0..m -> X] : Fits(it, m)
    BY <1>2
  <2> DEFINE new == [k \in 0..(m + 1) |-> IF k = 0 THEN start ELSE step[it[k - 1]]]
  <2>2. \A k \in 0..(m + 1) : k # 0 => k - 1 \in 0..m /\ k - 1 \in 0..(m + 1)
    OBVIOUS
  <2>3. new \in [0..(m + 1) -> X]
    BY <2>2
  <2>4. \A k \in 0..m : new[k] = it[k]
    BY <2>1
  <2>5. Fits(new, m + 1)
    <3>1. \A k \in 0..(m + 1) : k # 0 => new[k - 1] = it[k - 1]
      BY <2>2, <2>4
    <3>2. new = [k \in 0..(m + 1) |-> IF k = 0 THEN start ELSE step[it[k - 1]]]
      OBVIOUS
    <3> HIDE DEF new
    <3>3. QED
      BY <3>1, <3>2
  <2> HIDE DEF new, Fits
  <2>6. m + 1 \in Nat
    OBVIOUS
  <2>7. QED
    BY <2>3, <2>5, <2>6
<1> HIDE DEF A
<1>3. \A m \in Nat : m \in A
  BY <1>1, <1>2, NumberInduction
<1>4. QED
  BY <1>3 DEF A, IsSequence
=============================================================================
