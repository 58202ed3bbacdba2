----------------------------- MODULE FoldLemmas -----------------------------
(***************************************************************************)
(* Induction for the provers, and what it says of FoldLeft.                *)
(*                                                                         *)
(* The induction theorems of the library have an operator as parameter,    *)
(* which no prover at hand can instantiate.  Here the induction is over a  *)
(* set of numbers, and a fold goes stage by stage through a function: both *)
(* are first-order, so that a fold can be reasoned about for lists of      *)
(* every length.                                                           *)
(***************************************************************************)
EXTENDS Integers, SequencesExt, FiniteSetTheorems, WellFoundedInduction, TLAPS

\* "Less than" as a relation on the natural numbers.
Before == OpToRel(<, Nat)

LEMMA BeforeIsLess == \A m, n \in Nat : <<m, n>> \in Before <=> m < n
  BY Zenon DEF Before, OpToRel

\* Every set of natural numbers that has an element has a least one.
LEMMA LeastNatural ==
  ASSUME NEW S \in SUBSET Nat, S # {}
  PROVE  \E m \in S : \A n \in S : m <= n
<1>1. IsWellFoundedOn(Before, Nat)
  BY NatLessThanWellFounded, Zenon DEF Before
<1>2. PICK m \in S : \A n \in S : <<n, m>> \notin Before
  BY <1>1, WFMin, Zenon
<1>3. ASSUME NEW n \in S PROVE m <= n
  <2>1. m \in Nat /\ n \in Nat /\ ~(n < m)
    BY <1>2, BeforeIsLess, Zenon
  <2> QED
    BY <2>1, SMT
<1> QED
  BY <1>3

\* What holds of 0, and of n + 1 whenever it holds of n, holds of every natural
\* number: here for membership in a set.
LEMMA SetInduction ==
  ASSUME NEW S, 0 \in S, \A n \in Nat : n \in S => n + 1 \in S
  PROVE  Nat \subseteq S
<1> SUFFICES ASSUME Nat \ S # {} PROVE FALSE
  OBVIOUS
<1>1. PICK m \in Nat \ S : \A n \in Nat \ S : m <= n
  BY LeastNatural
<1>2. m - 1 \in Nat /\ m - 1 \in S
  BY <1>1
<1> QED
  BY <1>1, <1>2

\* Max of the numbers up to n is the greatest of them.
LEMMA MaxOfInterval ==
  ASSUME NEW n \in Nat, NEW S \in SUBSET (1..n), S # {}
  PROVE  Max(S) \in S /\ \A x \in S : x <= Max(S)
<1> DEFINE T == {n - x : x \in S}
<1>0. S \subseteq Int /\ \A x \in S : x <= n
  OBVIOUS
<1>1. T \in SUBSET Nat /\ T # {}
  <2>1. \A x \in S : n - x \in Nat
    BY <1>0
  <2>2. T \subseteq Nat
    BY <2>1
  <2>3. PICK x \in S : TRUE
    OBVIOUS
  <2>4. n - x \in T
    BY <2>3
  <2> QED
    BY <2>2, <2>4
<1>2. PICK m \in T : \A k \in T : m <= k
  BY <1>1, LeastNatural
<1>3. PICK x \in S : m = n - x
  BY <1>2
<1>4. ASSUME NEW y \in S PROVE x >= y
  <2>1. n - y \in T
    OBVIOUS
  <2>2. n - x <= n - y
    BY <1>2, <1>3, <2>1
  <2>3. x \in Int /\ y \in Int /\ n \in Int
    BY <1>0
  <2>4. \A a, b, c \in Int : c - a <= c - b => a >= b
    OBVIOUS
  <2> QED
    BY <2>2, <2>3, <2>4, Zenon
<1> QED
  BY <1>4 DEF Max

\* it is defined by a recursion that takes the greatest number out of a set, as
\* long as its values are those the stages are for.
IsFold(it, n, V, base, stage) ==
  /\ it[{}] = base
  /\ \A s \in SUBSET (1..n) :
       s # {} /\ it[s \ {Max(s)}] \in V =>
         it[s] = stage[Max(s)][it[s \ {Max(s)}]]

\* c is what the stages make of base, one after the other.
Passes(c, n, V, base, stage) ==
  /\ c \in [0..n -> V]
  /\ c[0] = base
  /\ \A i \in 1..n : c[i] = stage[i][c[i - 1]]

\* What such a function makes of the intervals 1..i.
Along(it, n) == [i \in 0..n |-> it[1..i]]

\* There is such a function.
LEMMA FoldExists ==
  ASSUME NEW n \in Nat, NEW V, NEW base \in V, NEW stage \in [1..n -> [V -> V]]
  PROVE  \E it : it \in [SUBSET (1..n) -> V] /\ IsFold(it, n, V, base, stage)
<1> DEFINE Folds(k, it) ==
             \A s \in SUBSET (1..k) :
               it[s] = IF s = {} THEN base
                       ELSE stage[Max(s)][it[s \ {Max(s)}]]
           Exists(k) == k <= n =>
                          \E it \in [SUBSET (1..k) -> V] : Folds(k, it)
<1>1. Exists(0)
  <2>1. 1..0 = {}
    OBVIOUS
  <2>2. Folds(0, [s \in SUBSET (1..0) |-> base])
    BY <2>1
  <2>3. [s \in SUBSET (1..0) |-> base] \in [SUBSET (1..0) -> V]
    OBVIOUS
  <2> QED
    BY <2>2, <2>3
<1>2. ASSUME NEW k \in Nat, Exists(k) PROVE Exists(k + 1)
  <2> SUFFICES ASSUME k + 1 <= n
               PROVE  \E it \in [SUBSET (1..(k + 1)) -> V] : Folds(k + 1, it)
    OBVIOUS
  <2>1. PICK it \in [SUBSET (1..k) -> V] : Folds(k, it)
    <3>1. k <= n
      OBVIOUS
    <3> QED
      BY <1>2, <3>1, Zenon
  <2> DEFINE more == [s \in SUBSET (1..(k + 1)) |->
                        IF k + 1 \in s THEN stage[k + 1][it[s \ {k + 1}]]
                        ELSE it[s]]
  <2>2. \A s \in SUBSET (1..(k + 1)) : s \ {k + 1} \in SUBSET (1..k)
    OBVIOUS
  <2>3. more \in [SUBSET (1..(k + 1)) -> V]
    <3> SUFFICES ASSUME NEW s \in SUBSET (1..(k + 1))
                 PROVE  (IF k + 1 \in s THEN stage[k + 1][it[s \ {k + 1}]]
                         ELSE it[s]) \in V
      OBVIOUS
    <3>1. CASE k + 1 \in s
      <4>1. it[s \ {k + 1}] \in V
        BY <2>2
      <4>2. stage[k + 1] \in [V -> V]
        OBVIOUS
      <4> QED
        BY <3>1, <4>1, <4>2
    <3>2. CASE k + 1 \notin s
      <4>1. s \in SUBSET (1..k)
        BY <3>2
      <4> QED
        BY <3>2, <4>1
    <3> QED
      BY <3>1, <3>2
  <2>4. ASSUME NEW s \in SUBSET (1..(k + 1)), s # {}
        PROVE  more[s] = stage[Max(s)][more[s \ {Max(s)}]]
    <3>1. Max(s) \in s /\ \A x \in s : x <= Max(s)
      <4>1. k + 1 \in Nat
        OBVIOUS
      <4> QED
        BY <2>4, <4>1, MaxOfInterval, Zenon
    <3>2. CASE k + 1 \in s
      <4>1. Max(s) = k + 1
        <5>1. Max(s) \in 1..(k + 1) /\ k + 1 <= Max(s)
          BY <3>1, <3>2, Zenon
        <5> QED
          BY <5>1
      <4>2. more[s] = stage[k + 1][it[s \ {k + 1}]]
        BY <3>2
      <4>3. more[s \ {k + 1}] = it[s \ {k + 1}]
        OBVIOUS
      <4> QED
        BY <4>1, <4>2, <4>3
    <3>3. CASE k + 1 \notin s
      <4>1. s \in SUBSET (1..k)
        BY <3>3
      <4>2. it[s] = stage[Max(s)][it[s \ {Max(s)}]]
        BY <2>1, <2>4, <4>1
      <4>3. more[s] = it[s] /\ more[s \ {Max(s)}] = it[s \ {Max(s)}]
        BY <3>3
      <4> QED
        BY <4>2, <4>3
    <3> QED
      BY <3>2, <3>3
  <2>5. more[{}] = base
    BY <2>1
  <2>6. Folds(k + 1, more)
    BY <2>4, <2>5
  <2> QED
    BY <2>3, <2>6
<1>3. Exists(n)
  <2> HIDE DEF Exists
  <2> DEFINE S == {k \in Nat : Exists(k)}
  <2>1. 0 \in S /\ \A k \in Nat : k \in S => k + 1 \in S
    BY <1>1, <1>2
  <2>2. Nat \subseteq S
    <3> HIDE DEF S
    <3> QED
      BY <2>1, SetInduction
  <2> QED
    BY <2>2
<1>4. \E it \in [SUBSET (1..n) -> V] : Folds(n, it)
  <2>1. n <= n
    OBVIOUS
  <2> QED
    BY <1>3, <2>1, Zenon
<1> QED
  BY <1>4 DEF IsFold

\* Such a function goes through the intervals 1..i, one stage at a time.
LEMMA FoldValues ==
  ASSUME NEW n \in Nat, NEW V, NEW base \in V, NEW stage \in [1..n -> [V -> V]],
         NEW it, IsFold(it, n, V, base, stage)
  PROVE  Passes(Along(it, n), n, V, base, stage)
<1> DEFINE c == Along(it, n)
           S == {i \in Nat : i <= n => it[1..i] \in V}
<1>1. it[1..0] = base
  <2>1. 1..0 = {} /\ {} \in SUBSET (1..n)
    OBVIOUS
  <2> QED
    BY <2>1 DEF IsFold
<1>2. ASSUME NEW i \in 1..n, it[1..(i - 1)] \in V
      PROVE  it[1..i] = stage[i][it[1..(i - 1)]]
  <2>1. i \in 1..i /\ 1..i \subseteq 1..n
    OBVIOUS
  <2>2. Max(1..i) = i
    <3>1. Max(1..i) \in 1..i /\ \A x \in 1..i : x <= Max(1..i)
      BY <2>1, MaxOfInterval
    <3> QED
      BY <2>1, <3>1
  <2>3. (1..i) \ {i} = 1..(i - 1)
    OBVIOUS
  <2>4. 1..i \in SUBSET (1..n) /\ 1..i # {}
    BY <2>1
  <2>5. it[1..i] = stage[Max(1..i)][it[(1..i) \ {Max(1..i)}]]
    BY <1>2, <2>2, <2>3, <2>4 DEF IsFold
  <2> QED
    BY <2>2, <2>3, <2>5
<1>3. 0 \in S
  BY <1>1
<1>4. ASSUME NEW i \in Nat, i \in S PROVE i + 1 \in S
  <2> SUFFICES ASSUME i + 1 <= n PROVE it[1..(i + 1)] \in V
    OBVIOUS
  <2>1. i + 1 \in 1..n /\ (i + 1) - 1 = i /\ it[1..i] \in V
    BY <1>4
  <2>2. it[1..(i + 1)] = stage[i + 1][it[1..i]]
    BY <1>2, <2>1
  <2>3. stage[i + 1] \in [V -> V]
    BY <2>1
  <2> QED
    BY <2>1, <2>2, <2>3
<1>5. \A i \in 0..n : it[1..i] \in V
  <2>1. Nat \subseteq S
    <3> HIDE DEF S
    <3> QED
      BY <1>3, <1>4, SetInduction
  <2> QED
    BY <2>1
<1>6. \A i \in 1..n : it[1..i] = stage[i][it[1..(i - 1)]]
  BY <1>2, <1>5
<1>7. c \in [0..n -> V]
  BY <1>5 DEF Along
<1>8. \A i \in 1..n : c[i] = stage[i][c[i - 1]]
  BY <1>6 DEF Along
<1>9. c[0] = base
  BY <1>1 DEF Along
<1> QED
  BY <1>7, <1>8, <1>9 DEF Passes
=============================================================================
