------------------------------ MODULE DataLemmas ------------------------------
(***************************************************************************)
(* Facts about numbers, sequences and finite sets that the proofs about    *)
(* the components rest on and the library does not state.                  *)
(***************************************************************************)
EXTENDS Naturals, Sequences, FiniteSets, SequencesExt, SequenceTheorems, FiniteSetTheorems,
        WellFoundedInduction, TLAPS

LEMMA NatOrder == IsWellFoundedOn({p \in Nat \X Nat : p[1] < p[2]}, Nat)
<1>1. {p \in Nat \X Nat : p[1] < p[2]} = OpToRel(<, Nat)
  BY DEF OpToRel
<1> QED BY <1>1, NatLessThanWellFounded

(* What stands for induction: a set of numbers has a least one.             *)
LEMMA Least ==
  ASSUME NEW T \in SUBSET Nat, T # {}
  PROVE  \E n \in T : \A m \in T : n <= m
<1> DEFINE R == {p \in Nat \X Nat : p[1] < p[2]}
<1>1. IsWellFoundedOn(R, Nat)
  BY NatOrder
<1>2. PICK n \in T : \A m \in T : <<m, n>> \notin R
  BY <1>1, WFMin
<1>3. ASSUME NEW m \in T PROVE n <= m
  <2>1. <<m, n>>[1] = m /\ <<m, n>>[2] = n /\ <<m, n>> \in Nat \X Nat
    OBVIOUS
  <2>2. ~(m < n)
    BY <1>2, <2>1
  <2> QED BY <2>2
<1> QED BY <1>3

LEMMA Remainder == ASSUME NEW a \in Nat, NEW n \in Nat \ {0} PROVE a % n \in 0..(n - 1)
OBVIOUS

(* A sequence takes its values where it is defined, and those are its range. *)
LEMMA InRange ==
  ASSUME NEW s, s \in Seq(Range(s))
  PROVE  /\ DOMAIN s = 1..Len(s) /\ Len(s) \in Nat
         /\ \A i \in 1..Len(s) : s[i] \in Range(s)
         /\ \A x \in Range(s) : \E i \in 1..Len(s) : s[i] = x
         /\ Len(s) = 0 <=> Range(s) = {}
<1>1. DOMAIN s = 1..Len(s) /\ Len(s) \in Nat
  BY LenProperties
<1>2. \A i \in 1..Len(s) : s[i] \in Range(s)
  BY <1>1 DEF Range
<1>3. \A x \in Range(s) : \E i \in 1..Len(s) : s[i] = x
  BY <1>1 DEF Range
<1>4. Len(s) = 0 => Range(s) = {}
  BY <1>1, <1>3
<1>5. Len(s) # 0 => Range(s) # {}
  <2> SUFFICES ASSUME Len(s) # 0 PROVE s[1] \in Range(s)
    OBVIOUS
  <2>1. 1 \in 1..Len(s)
    BY <1>1
  <2> QED BY <1>2, <2>1
<1> QED BY <1>1, <1>2, <1>3, <1>4, <1>5

LEMMA InSeqRange == ASSUME NEW S, NEW s \in Seq(S) PROVE Range(s) \subseteq S
<1>1. DOMAIN s = 1..Len(s) /\ \A i \in 1..Len(s) : s[i] \in S
  BY LenProperties, ElementOfSeq
<1> QED BY <1>1 DEF Range

LEMMA FirstNumbers == ASSUME NEW n \in Nat PROVE IsFiniteSet(1..n) /\ Cardinality(1..n) = n
BY FS_Interval

LEMMA Greatest ==
  ASSUME NEW T \in SUBSET Nat, T # {}, NEW b \in Nat, \A m \in T : m <= b
  PROVE  \E n \in T : \A m \in T : m <= n
<1> DEFINE U == {b - m : m \in T}
<1>1. U \in SUBSET Nat /\ U # {}
  <2>1. \A m \in T : b - m \in Nat
    OBVIOUS
  <2> QED BY <2>1
<1>2. PICK u \in U : \A v \in U : u <= v
  <2> HIDE DEF U
  <2> QED BY <1>1, Least
<1>3. PICK n \in T : u = b - n
  BY <1>2
<1>4. ASSUME NEW m \in T PROVE m <= n
  <2>1. b - m \in U
    OBVIOUS
  <2> QED BY <1>2, <1>3, <2>1
<1> QED BY <1>4

(* p and q agree up to where one of them ends or they differ.               *)
Agrees(a, b, p, q) ==
  \E n \in 0..a : /\ n <= b /\ \A i \in 1..n : p[i] = q[i]
                  /\ n = a \/ n = b \/ p[n + 1] # q[n + 1]

LEMMA Agree ==
  ASSUME NEW a \in Nat, NEW b \in Nat, NEW p, NEW q
  PROVE  Agrees(a, b, p, q)
<1> DEFINE S == {n \in Nat : n <= a /\ n <= b /\ (n = a \/ n = b \/ p[n + 1] # q[n + 1])}
<1>1. S \in SUBSET Nat /\ S # {}
  <2>1. CASE a <= b
    BY <2>1
  <2>2. CASE b <= a
    BY <2>2
  <2> QED BY <2>1, <2>2
<1>2. PICK n \in S : \A m \in S : n <= m
  <2> HIDE DEF S
  <2> QED BY <1>1, Least
<1>3. ASSUME NEW i \in 1..n PROVE p[i] = q[i]
  <2>1. i - 1 \in Nat /\ i - 1 < n /\ (i - 1) + 1 = i
    BY <1>2
  <2>2. i - 1 \notin S
    BY <1>2, <2>1
  <2> QED BY <1>2, <2>1, <2>2
<1> QED BY <1>2, <1>3 DEF Agrees

(* The elements of a finite set are numbered from 0 by how many come before *)
(* them in a strict order.                                                  *)
Orders(R, S) ==
  /\ \A x \in S : <<x, x>> \notin R
  /\ \A x, y, z \in S : <<x, y>> \in R /\ <<y, z>> \in R => <<x, z>> \in R
  /\ \A x, y \in S : x # y => <<x, y>> \in R \/ <<y, x>> \in R

Before(R, S, x) == {y \in S : <<y, x>> \in R}

IsNumbered(R, S) ==
  /\ \A x \in S : Cardinality(Before(R, S, x)) \in 0..(Cardinality(S) - 1)
  /\ \A x, y \in S : Cardinality(Before(R, S, x)) = Cardinality(Before(R, S, y)) => x = y
  /\ \A k \in 0..(Cardinality(S) - 1) : \E x \in S : Cardinality(Before(R, S, x)) = k

LEMMA Numbered ==
  ASSUME NEW S, NEW R, IsFiniteSet(S), Orders(R, S)
  PROVE  IsNumbered(R, S)
<1> DEFINE n == Cardinality(S)
           f == [x \in S |-> Cardinality(Before(R, S, x))]
<1>1. n \in Nat
  BY FS_CardinalityType
<1>2. ASSUME NEW x \in S
      PROVE  IsFiniteSet(Before(R, S, x)) /\ Cardinality(Before(R, S, x)) \in 0..(n - 1)
  <2>1. Before(R, S, x) \in SUBSET S /\ x \notin Before(R, S, x)
    BY DEF Before, Orders
  <2>2. /\ IsFiniteSet(Before(R, S, x)) /\ Cardinality(Before(R, S, x)) <= n
        /\ Cardinality(Before(R, S, x)) \in Nat /\ Cardinality(Before(R, S, x)) # n
    BY <2>1, FS_Subset, FS_CardinalityType
  <2> HIDE DEF n
  <2> QED BY <1>1, <2>2
<1>3. ASSUME NEW x \in S, NEW y \in S, <<x, y>> \in R
      PROVE  Cardinality(Before(R, S, x)) # Cardinality(Before(R, S, y))
  <2>1. Before(R, S, x) \in SUBSET Before(R, S, y) /\ x \in Before(R, S, y) /\ x \notin Before(R, S, x)
    BY <1>3 DEF Before, Orders
  <2> QED BY <1>2, <2>1, FS_Subset
<1>4. f \in [S -> 0..(n - 1)]
  BY <1>2
<1>5. \A x, y \in S : f[x] = f[y] => x = y
  BY <1>3 DEF Orders
<1>6. IsFiniteSet(0..(n - 1)) /\ Cardinality(0..(n - 1)) = n
  <2> HIDE DEF n
  <2>1. 0 \in Int /\ n - 1 \in Int
    BY <1>1
  <2> QED BY <1>1, <2>1, FS_Interval
<1>7. f \in Injection(S, 0..(n - 1))
  <2> HIDE DEF f, n
  <2> QED BY <1>4, <1>5 DEF Injection, IsInjective
<1>8. f \in Surjection(S, 0..(n - 1))
  <2> HIDE DEF f
  <2> QED BY <1>6, <1>7, FS_Injection
<1>9. \A k \in 0..(n - 1) : \E x \in S : f[x] = k
  <2> HIDE DEF f, n
  <2> QED BY <1>8 DEF Surjection
<1> QED BY <1>2, <1>5, <1>9 DEF IsNumbered
================================================================================
