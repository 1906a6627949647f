------------------------------- MODULE Numbers -------------------------------
(***************************************************************************)
(* Facts about numbers and finite sets that the proofs share.  Induction   *)
(* is stated for sets of numbers and rests on a counting argument, since   *)
(* the induction theorems of the library cannot be applied.                *)
(***************************************************************************)
EXTENDS Integers, FiniteSets, FiniteSetTheorems, TLAPS

\* The empty set is the only set of numbers up to n that contains with every
\* number the one before it and does not contain 0.  (k -> k - 1 would map the
\* part of such a set up to a member x into that part without x.)
LEMMA NoDescent ==
  ASSUME NEW n \in Nat, NEW C \in SUBSET (0 .. n), \A k \in C : k # 0 /\ k - 1 \in C
  PROVE  C = {}
<1> SUFFICES ASSUME NEW x \in C PROVE FALSE
  OBVIOUS
<1> DEFINE E == {k \in C : k <= x}
           F == E \ {x}
           g == [k \in E |-> k - 1]
<1>1. IsFiniteSet(C)
  <2>1. IsFiniteSet(0 .. n)
    BY FS_Interval
  <2> QED
    BY <2>1, FS_Subset
<1>2. IsFiniteSet(E) /\ x \in E
  <2>1. E \subseteq C /\ x \in E
    OBVIOUS
  <2> QED
    BY <1>1, <2>1, FS_Subset
<1>3. \A k \in E : k \in Int /\ k - 1 \in F
  OBVIOUS
<1> HIDE DEF E, F
<1>4. g \in [E -> F] /\ \A a, b \in E : g[a] = g[b] => a = b
  BY <1>3
<1> HIDE DEF g
<1>5. IsFiniteSet(F) /\ Cardinality(F) = Cardinality(E) - 1 /\ Cardinality(E) \in Nat
  BY <1>2, FS_RemoveElement, FS_CardinalityType DEF F
<1>6. g \in Injection(E, F)
  BY <1>4 DEF Injection, IsInjective
<1>7. Cardinality(E) <= Cardinality(F)
  BY <1>5, <1>6, FS_Injection
<1> QED
  BY <1>5, <1>7

\* A set of numbers that is not empty has a least element.
LEMMA LeastElement ==
  ASSUME NEW S \in SUBSET Nat, NEW s0 \in S
  PROVE  \E s \in S : \A u \in S : s <= u
<1> SUFFICES ASSUME \A s \in S : \E u \in S : ~(s <= u) PROVE FALSE
  OBVIOUS
<1> DEFINE C == {k \in 0 .. s0 : \E s \in S : s <= k}
<1>1. s0 \in C
  OBVIOUS
<1>2. ASSUME NEW k \in C PROVE k # 0 /\ k - 1 \in C
  <2>1. PICK s \in S : s <= k
    OBVIOUS
  <2>2. PICK u \in S : ~(s <= u)
    OBVIOUS
  <2>3. k \in Nat /\ k <= s0 /\ u \in Nat /\ s \in Nat /\ s0 \in Nat
    OBVIOUS
  <2>4. u <= k - 1 /\ k # 0 /\ k - 1 \in 0 .. s0
    BY <2>1, <2>2, <2>3
  <2> QED
    BY <2>4
<1>3. s0 \in Nat /\ C \in SUBSET (0 .. s0)
  OBVIOUS
<1> HIDE DEF C
<1>4. C = {}
  BY <1>2, <1>3, NoDescent
<1> QED
  BY <1>1, <1>4

\* Induction.
LEMMA Induct ==
  ASSUME NEW S \in SUBSET Nat, 0 \in S, \A n \in S : n + 1 \in S
  PROVE  S = Nat
<1> SUFFICES ASSUME NEW n \in Nat, n \notin S PROVE FALSE
  OBVIOUS
<1> DEFINE C == Nat \ S
<1>1. C \in SUBSET Nat /\ n \in C
  OBVIOUS
<1>2. PICK m \in C : \A u \in C : m <= u
  BY <1>1, LeastElement
<1>3. m \in Nat /\ m # 0 /\ m \notin S
  OBVIOUS
<1>4. m - 1 \in Nat /\ m - 1 \notin C
  BY <1>2, <1>3
<1>5. (m - 1) + 1 \in S /\ (m - 1) + 1 = m
  BY <1>3, <1>4
<1> QED
  BY <1>3, <1>5

\* g maps its domain one to one onto T.
OneToOne(g, T) ==
  /\ \A x \in DOMAIN g : g[x] \in T
  /\ \A x, y \in DOMAIN g : g[x] = g[y] => x = y
  /\ \A f \in T : \E x \in DOMAIN g : g[x] = f

\* Then the domain has as many elements as T.
LEMMA Counted ==
  ASSUME NEW g, NEW T, OneToOne(g, T), IsFiniteSet(T)
  PROVE  IsFiniteSet(DOMAIN g) /\ Cardinality(DOMAIN g) = Cardinality(T)
<1> DEFINE D == DOMAIN g
           inv == [f \in T |-> CHOOSE x \in D : g[x] = f]
<1>1. \A f \in T : inv[f] \in D /\ g[inv[f]] = f
  BY DEF OneToOne
<1>2. \A x \in D : g[x] \in T /\ inv[g[x]] = x
  BY <1>1 DEF OneToOne
<1>3. inv \in [T -> D]
  BY <1>1
<1> HIDE DEF inv, D
<1>4. inv \in Surjection(T, D)
  BY <1>2, <1>3 DEF Surjection
<1>5. inv \in Injection(T, D)
  <2>1. \A a, b \in T : inv[a] = inv[b] => a = b
    BY <1>1
  <2> QED
    BY <1>3, <2>1 DEF Injection, IsInjective
<1>6. IsFiniteSet(D) /\ (Cardinality(D) = Cardinality(T) <=> inv \in Injection(T, D))
  BY <1>4, FS_Surjection
<1> QED
  BY <1>5, <1>6 DEF D

\* The size of a union of disjoint sets.
LEMMA Disjoint ==
  ASSUME NEW S, NEW T, IsFiniteSet(S), IsFiniteSet(T), S \cap T = {}
  PROVE  /\ IsFiniteSet(S \cup T) /\ Cardinality(S \cup T) = Cardinality(S) + Cardinality(T)
         /\ Cardinality(S) \in Nat /\ Cardinality(T) \in Nat
<1>1. Cardinality(S \cap T) = 0
  BY FS_EmptySet
<1>2. /\ IsFiniteSet(S \cup T)
      /\ Cardinality(S \cup T) = Cardinality(S) + Cardinality(T) - Cardinality(S \cap T)
  BY FS_Union
<1>3. Cardinality(S) \in Nat /\ Cardinality(T) \in Nat
  BY FS_CardinalityType
<1> QED
  BY <1>1, <1>2, <1>3

\* The remainder of a number below twice the divisor.
LEMMA SmallRemainder ==
  ASSUME NEW k \in Nat \ {0}, NEW a \in 0 .. 2 * k - 1
  PROVE  a % k = IF a < k THEN a ELSE a - k
<1>0. a \in Int /\ k \in Int /\ k > 0
  OBVIOUS
<1>1. a \div k \in Int /\ a % k \in 0 .. k - 1 /\ a = k * (a \div k) + (a % k)
  BY <1>0
<1>2. a \div k < 2
  <2>1. SUFFICES ASSUME a \div k >= 2 PROVE FALSE
    BY <1>1
  <2>2. k * (a \div k) >= k * 2
    BY <1>1, <2>1
  <2> QED
    BY <1>1, <2>2
<1>3. a \div k >= 0
  <2>1. SUFFICES ASSUME a \div k <= -1 PROVE FALSE
    BY <1>1
  <2>2. k * (a \div k) <= k * (-1)
    BY <1>1, <2>1
  <2> QED
    BY <1>1, <2>2
<1>4. a \div k = 0 \/ a \div k = 1
  BY <1>1, <1>2, <1>3
<1> QED
  BY <1>1, <1>4

\* Quotient and remainder.
LEMMA DivisionWithRest ==
  ASSUME NEW n \in Nat, NEW k \in Nat \ {0}
  PROVE  n \div k \in Nat /\ n % k \in 0 .. k - 1 /\ n = k * (n \div k) + (n % k)
<1>0. n \in Int /\ k \in Int /\ k > 0
  OBVIOUS
<1>1. n \div k \in Int /\ n % k \in 0 .. k - 1 /\ n = k * (n \div k) + (n % k)
  BY <1>0
<1>2. n \div k >= 0
  <2>1. SUFFICES ASSUME n \div k <= -1 PROVE FALSE
    BY <1>1
  <2>2. k * (n \div k) <= k * (-1)
    BY <1>1, <2>1
  <2> QED
    BY <1>1, <2>2
<1>3. n \div k \in Nat
  <2>1. n \div k \in Int
    BY <1>1
  <2> QED
    BY <1>2, <2>1
<1> QED
  BY <1>1, <1>3

LEMMA RestUnique ==
  ASSUME NEW k \in Nat \ {0}, NEW q \in Nat, NEW r \in 0 .. k - 1
  PROVE  (k * q + r) % k = r /\ (k * q + r) \div k = q
<1> DEFINE n == k * q + r
           p == n \div k
<1>1. n \in Nat
  <2>1. k * q \in Nat
    OBVIOUS
  <2> QED
    BY <2>1
<1>2. p \in Nat /\ n % k \in 0 .. k - 1 /\ n = k * p + (n % k)
  BY <1>1, DivisionWithRest
<1>3. p = q
  <2>1. k * p + (n % k) = k * q + r
    BY <1>2
  <2> HIDE DEF p
  <2>2. ASSUME NEW d \in Nat \ {0} PROVE k * d \in Int /\ k * d >= k
    <3>1. d >= 1 /\ k >= 1
      OBVIOUS
    <3>2. k * (d - 1) >= 0 /\ k * (d - 1) = k * d - k
      BY <3>1
    <3> QED
      BY <3>2
  <2>3. ASSUME p > q PROVE FALSE
    <3>1. p - q \in Nat \ {0} /\ k * (p - q) = k * p - k * q
      BY <1>2, <2>3
    <3>2. k * (p - q) >= k
      BY <2>2, <3>1
    <3> QED
      BY <1>2, <2>1, <3>1, <3>2
  <2>4. ASSUME q > p PROVE FALSE
    <3>1. q - p \in Nat \ {0} /\ k * (q - p) = k * q - k * p
      BY <1>2, <2>4
    <3>2. k * (q - p) >= k
      BY <2>2, <3>1
    <3> QED
      BY <1>2, <2>1, <3>1, <3>2
  <2> QED
    BY <1>2, <2>3, <2>4
<1> QED
  BY <1>2, <1>3

=============================================================================
