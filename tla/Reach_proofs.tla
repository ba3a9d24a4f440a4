---------------------------- MODULE Reach_proofs -----------------------------
(***************************************************************************)
(* Lemmas in place of an induction rule.  Least, that a set of numbers has *)
(* a least one, is used on sets of counterexamples: what cannot fail first *)
(* cannot fail.  From it: a function can be iterated, what is reached from *)
(* an element of a finite set in as many steps as the set has elements is  *)
(* closed, and each element so reached has one before it that is nearer.   *)
(* And a recursive definition that follows a falling rank has a solution   *)
(* (Recursion), which is what the folds of the library need to be read.    *)
(***************************************************************************)
EXTENDS Integers, FiniteSetTheorems, WellFoundedInduction, TLAPS

(* A set of numbers has a least one: what cannot fail first cannot fail.   *)
LEMMA Least ==
  ASSUME NEW T \in SUBSET Nat, T # {}
  PROVE  \E m \in T : \A k \in T : m <= k
<1> DEFINE F == {0..x : x \in T}
           R == StrictSubsetOrdering(Nat)
           S == FiniteSubsetsOf(Nat)
<1>1. IsWellFoundedOn(R, S)
  BY FS_StrictSubsetOrderingWellFounded
<1>2. F \subseteq S /\ F # {}
  <2>1. \A x \in T : 0..x \subseteq Nat /\ IsFiniteSet(0..x)
    BY FS_Interval
  <2>2. QED
    BY <2>1 DEF FiniteSubsetsOf
<1> HIDE DEF R, S
<1>3. PICK u \in F : \A v \in F : ~(<<v, u>> \in R)
  <2> HIDE DEF F
  <2>1. QED
    BY <1>1, <1>2, WFMin
<1>4. PICK m \in T : u = 0..m
  BY <1>3 DEF F
<1>5. ASSUME NEW k \in T, k < m PROVE FALSE
  <2>1. 0..k \in F
    BY DEF F
  <2>2. 0..k \subseteq 0..m /\ m \in 0..m /\ m \notin 0..k
    BY <1>5, SMT
  <2>3. 0..k \in S /\ 0..m \in S
    BY <1>2, <1>4, <2>1
  <2>4. <<0..k, 0..m>> \in R
    BY <2>2, <2>3 DEF R, S, StrictSubsetOrdering, FiniteSubsetsOf
  <2>5. QED
    BY <1>3, <1>4, <2>1, <2>4
<1>6. QED
  BY <1>5, SMT

(* Of a set some element has a least number.                               *)
LEMMA Lowest ==
  ASSUME NEW D, NEW rank \in [D -> Nat], NEW T \in SUBSET D, T # {}
  PROVE  \E d \in T : \A e \in T : rank[d] <= rank[e]
<1> DEFINE R == {rank[d] : d \in T}
<1>1. R \in SUBSET Nat /\ R # {}
  OBVIOUS
<1>2. PICK m \in R : \A k \in R : m <= k
  BY <1>1, Least
<1>3. QED
  BY <1>2

-----------------------------------------------------------------------------
(* What is reached from a node in as many steps as there are nodes.        *)

Iterates(f, a, st, k) == f[0] = a /\ \A i \in 1..k : f[i] = st[f[i - 1]]

LEMMA Iteration ==
  ASSUME NEW D, NEW a \in D, NEW st \in [D -> D], NEW N \in Nat
  PROVE  \E f \in [0..N -> D] : Iterates(f, a, st, N)
<1> DEFINE Good(k, f) == f \in [0..k -> D] /\ f[0] = a /\ \A i \in 1..k : f[i] = st[f[i - 1]]
           bad == {k \in Nat : \A f : ~Good(k, f)}
<1>1. bad = {}
  <2> SUFFICES ASSUME bad # {} PROVE FALSE
    OBVIOUS
  <2>1. PICK k \in bad : \A j \in bad : k <= j
    BY Least
  <2>2. k \in Nat /\ \A f : ~Good(k, f)
    OBVIOUS
  <2> HIDE DEF bad
  <2>3. k # 0
    <3>1. Good(0, [i \in 0..0 |-> a])
      BY SMT
    <3>2. QED
      BY <2>2, <3>1
  <2>4. k - 1 \in Nat /\ ~(k <= k - 1)
    BY <2>2, <2>3, SMT
  <2>5. PICK f : Good(k - 1, f)
    <3> HIDE DEF Good
    <3>1. k - 1 \notin bad
      BY <2>1, <2>4
    <3>2. QED
      BY <2>4, <3>1 DEF bad
  <2> DEFINE h == [i \in 0..k |-> IF i = k THEN st[f[k - 1]] ELSE f[i]]
  <2>6. k - 1 \in 0..(k - 1) /\ f[k - 1] \in D /\ st[f[k - 1]] \in D
    BY <2>4, <2>5, SMT
  <2>7. \A i \in 0..k : i # k => i \in 0..(k - 1) /\ h[i] = f[i] /\ f[i] \in D
    BY <2>2, <2>5, SMT
  <2>8. h \in [0..k -> D]
    BY <2>6, <2>7
  <2>9. h[0] = a
    BY <2>2, <2>3, <2>5, <2>7, SMT
  <2>10. ASSUME NEW i \in 1..k PROVE h[i] = st[h[i - 1]]
    <3>1. i \in 0..k /\ i - 1 \in 0..k /\ i - 1 # k
      BY <2>2, SMT
    <3>2. h[i - 1] = f[i - 1]
      BY <2>7, <3>1
    <3> HIDE DEF Good
    <3>3. CASE i = k
      BY <3>1, <3>2, <3>3
    <3>4. CASE i # k
      <4>1. i \in 1..(k - 1)
        BY <2>2, <3>4, SMT
      <4>2. f[i] = st[f[i - 1]]
        BY <2>5, <4>1 DEF Good
      <4>3. QED
        BY <2>7, <3>1, <3>2, <3>4, <4>2
    <3>5. QED
      BY <3>3, <3>4
  <2>11. Good(k, h)
    BY <2>8, <2>9, <2>10
  <2>12. QED
    BY <2>2, <2>11
<1>2. QED
  BY <1>1 DEF Iterates

Grown(g, X) == UNION {{m} \cup g[m] : m \in X}
Grows(f, n, g, k) == f[0] = {n} /\ \A i \in 1..k : f[i] = Grown(g, f[i - 1])

LEMMA GrownIs ==
  ASSUME NEW L, NEW g \in [L -> SUBSET L], NEW X \in SUBSET L
  PROVE  /\ Grown(g, X) \in SUBSET L /\ X \subseteq Grown(g, X)
         /\ \A m \in X : g[m] \subseteq Grown(g, X)
         /\ \A c \in Grown(g, X) : c \in X \/ \E m \in X : c \in g[m]
BY DEF Grown

LEMMA Unfolds ==
  ASSUME NEW L, NEW n \in L, NEW N \in Nat, NEW g \in [L -> SUBSET L]
  PROVE  \E f \in [0..N -> SUBSET L] : Grows(f, n, g, N)
<1> DEFINE st == [X \in SUBSET L |-> Grown(g, X)]
<1>1. st \in [SUBSET L -> SUBSET L] /\ {n} \in SUBSET L
  BY GrownIs
<1>2. PICK f \in [0..N -> SUBSET L] : Iterates(f, {n}, st, N)
  <2> HIDE DEF st
  <2>1. QED
    BY <1>1, Iteration
<1>3. ASSUME NEW i \in 1..N PROVE f[i] = Grown(g, f[i - 1])
  <2>1. i - 1 \in 0..N
    BY SMT
  <2>2. f[i - 1] \in SUBSET L
    BY <2>1
  <2>3. QED
    BY <1>2, <2>2 DEF Iterates
<1>4. QED
  BY <1>2, <1>3 DEF Iterates, Grows

(* Each node of X but n is reached from one of X that rank puts earlier.   *)
Nearer(rank, X, n, g) ==
  \A m \in X : m = n \/ (\E p \in X : m \in g[p] /\ rank[p] < rank[m])

LEMMA Closed ==
  ASSUME NEW L, IsFiniteSet(L), NEW n \in L, NEW N \in Nat, Cardinality(L) <= N,
         NEW g \in [L -> SUBSET L], NEW f \in [0..N -> SUBSET L], Grows(f, n, g, N)
  PROVE  /\ f[N] \in SUBSET L /\ n \in f[N]
         /\ \A m \in f[N] : g[m] \subseteq f[N]
         /\ \E rank \in [L -> Nat] : Nearer(rank, f[N], n, g)
<1> USE DEF Grows
<1>1. \A i \in 0..N : f[i] \in SUBSET L /\ i \in Nat
  BY SMT
<1>2. \A i \in 1..N : i - 1 \in 0..N /\ i \in 0..N /\ f[i - 1] \subseteq f[i]
  <2> SUFFICES ASSUME NEW i \in 1..N PROVE i - 1 \in 0..N /\ i \in 0..N /\ f[i - 1] \subseteq f[i]
    OBVIOUS
  <2>1. i - 1 \in 0..N /\ i \in 0..N
    BY SMT
  <2>2. QED
    BY <1>1, <2>1, GrownIs
<1>3. \A j \in 0..N : \A i \in 0..j : f[i] \subseteq f[j]
  <2> DEFINE bad == {j \in 0..N : ~ \A i \in 0..j : f[i] \subseteq f[j]}
  <2> SUFFICES ASSUME bad # {} PROVE FALSE
    OBVIOUS
  <2>1. bad \in SUBSET Nat
    BY <1>1
  <2>2. PICK j \in bad : \A k \in bad : j <= k
    BY <2>1, Least
  <2>3. PICK i \in 0..j : ~(f[i] \subseteq f[j])
    BY <2>2
  <2>4. j \in 0..N /\ i # j
    BY <2>3
  <2>5. j \in 1..N /\ i \in 0..(j - 1) /\ j - 1 \in 0..N /\ ~(j <= j - 1)
    BY <2>3, <2>4, SMT
  <2>6. f[i] \subseteq f[j - 1]
    BY <2>2, <2>5
  <2>7. f[j - 1] \subseteq f[j]
    BY <1>2, <2>5
  <2>8. QED
    BY <2>3, <2>6, <2>7
<1>4. 0 \in 0..N /\ N \in 0..N
  BY SMT
<1>5. f[N] \in SUBSET L /\ n \in f[N]
  BY <1>1, <1>3, <1>4
<1>6. \A m \in f[N] : g[m] \subseteq f[N]
  <2> SUFFICES ASSUME NEW x \in f[N], ~(g[x] \subseteq f[N]) PROVE FALSE
    OBVIOUS
  <2>1. ASSUME NEW i \in 0..N, Grown(g, f[i]) = f[i] PROVE FALSE
    <3> DEFINE bad == {j \in 0..N : i <= j /\ f[j] # f[i]}
    <3>1. bad = {}
      <4> SUFFICES ASSUME bad # {} PROVE FALSE
        OBVIOUS
      <4>1. bad \in SUBSET Nat
        BY <1>1
      <4>2. PICK j \in bad : \A k \in bad : j <= k
        BY <4>1, Least
      <4>3. j \in 0..N /\ i <= j /\ i # j
        BY <4>2
      <4>4. j \in 1..N /\ i <= j - 1 /\ j - 1 \in 0..N /\ ~(j <= j - 1)
        BY <4>3, SMT
      <4>5. f[j - 1] = f[i]
        BY <4>2, <4>4
      <4>6. f[j] = Grown(g, f[j - 1])
        BY <4>4
      <4>7. QED
        BY <2>1, <4>2, <4>5, <4>6
    <3>2. i <= N
      BY SMT
    <3>3. f[N] = f[i]
      BY <1>4, <3>1, <3>2
    <3>4. g[x] \subseteq Grown(g, f[N])
      BY <1>5, GrownIs
    <3>5. QED
      BY <2>1, <3>3, <3>4
  <2>2. \A i \in 0..N : IsFiniteSet(f[i]) /\ Cardinality(f[i]) \in Nat
    BY <1>1, FS_Subset, FS_CardinalityType
  <2>3. \A i \in 0..N : i + 1 <= Cardinality(f[i])
    <3> DEFINE bad == {i \in 0..N : ~(i + 1 <= Cardinality(f[i]))}
    <3> SUFFICES ASSUME bad # {} PROVE FALSE
      OBVIOUS
    <3>1. bad \in SUBSET Nat
      BY <1>1
    <3>2. PICK i \in bad : \A k \in bad : i <= k
      BY <3>1, Least
    <3>3. i \in 0..N /\ ~(i + 1 <= Cardinality(f[i]))
      BY <3>2
    <3>4. CASE i = 0
      <4>1. Cardinality(f[0]) = 1
        BY FS_Singleton
      <4>2. 0 + 1 <= 1
        BY SMT
      <4>3. QED
        BY <3>3, <3>4, <4>1, <4>2
    <3>5. CASE i # 0
      <4>1. i \in 1..N /\ i - 1 \in 0..N /\ ~(i <= i - 1)
        BY <3>3, <3>5, SMT
      <4>2. (i - 1) + 1 <= Cardinality(f[i - 1])
        BY <3>2, <4>1
      <4>3. f[i - 1] \subseteq f[i] /\ f[i - 1] # f[i]
        BY <1>2, <2>1, <4>1
      <4>4. Cardinality(f[i - 1]) < Cardinality(f[i])
        <5> DEFINE X == f[i - 1]
                   Y == f[i]
        <5>1. IsFiniteSet(Y) /\ X \in SUBSET Y /\ X # Y
          BY <2>2, <3>3, <4>3
        <5> HIDE DEF X, Y
        <5>2. Cardinality(X) < Cardinality(Y)
          <6>1. /\ IsFiniteSet(X) /\ Cardinality(X) <= Cardinality(Y)
                /\ Cardinality(X) # Cardinality(Y)
            BY <5>1, FS_Subset
          <6>2. Cardinality(X) \in Nat /\ Cardinality(Y) \in Nat
            BY <5>1, <6>1, FS_CardinalityType
          <6>3. QED
            BY <6>1, <6>2, SMT
        <5>3. QED
          BY <5>2 DEF X, Y
      <4>5. QED
        BY <2>2, <3>3, <4>1, <4>2, <4>4, SMT
    <3>6. QED
      BY <3>4, <3>5
  <2>4. Cardinality(f[N]) <= Cardinality(L) /\ Cardinality(L) \in Nat
    BY <1>5, FS_Subset, FS_CardinalityType
  <2>5. N + 1 <= Cardinality(f[N])
    BY <1>4, <2>3
  <2>6. Cardinality(f[N]) \in Nat
    BY <1>4, <2>2
  <2>7. QED
    BY <2>4, <2>5, <2>6, SMT
<1>7. \E rank \in [L -> Nat] : Nearer(rank, f[N], n, g)
  <2> DEFINE at(m) == {i \in 0..N : m \in f[i]}
             rank == [m \in L |-> IF m \in f[N] THEN CHOOSE i \in at(m) : \A k \in at(m) : i <= k
                                  ELSE 0]
  <2>1. ASSUME NEW m \in f[N]
        PROVE  rank[m] \in at(m) /\ \A k \in at(m) : rank[m] <= k
    <3>1. at(m) \in SUBSET Nat /\ at(m) # {}
      BY <1>1, <1>4
    <3>2. \E i \in at(m) : \A k \in at(m) : i <= k
      <4> HIDE DEF at
      <4>1. QED
        BY <3>1, Least
    <3>3. rank[m] = CHOOSE i \in at(m) : \A k \in at(m) : i <= k
      BY <1>5
    <3> HIDE DEF at, rank
    <3>4. QED
      BY <3>2, <3>3
  <2>2. rank \in [L -> Nat]
    <3>1. ASSUME NEW m \in L PROVE rank[m] \in Nat
      <4>1. CASE m \in f[N]
        <5>1. rank[m] \in at(m) /\ at(m) \subseteq Nat
          BY <1>1, <2>1, <4>1
        <5>2. QED
          BY <5>1
      <4>2. CASE m \notin f[N]
        BY <4>2
      <4>3. QED
        BY <4>1, <4>2
    <3>2. rank = [m \in L |-> rank[m]]
      OBVIOUS
    <3> HIDE DEF rank
    <3>3. QED
      BY <3>1, <3>2
  <2> HIDE DEF rank
  <2>3. ASSUME NEW m \in f[N], m # n
        PROVE  \E p \in f[N] : m \in g[p] /\ rank[p] < rank[m]
    <3> DEFINE r == rank[m]
    <3>1. r \in 0..N /\ m \in f[r] /\ \A k \in 0..N : m \in f[k] => r <= k
      BY <2>1
    <3>2. r # 0
      BY <2>3, <3>1
    <3> HIDE DEF r
    <3>3. r \in 1..N /\ r - 1 \in 0..N /\ ~(r <= r - 1) /\ r \in Int
      BY <3>1, <3>2, SMT
    <3>4. m \in Grown(g, f[r - 1]) /\ m \notin f[r - 1]
      BY <3>1, <3>3
    <3>5. PICK p \in f[r - 1] : m \in g[p]
      BY <1>1, <3>3, <3>4, GrownIs
    <3>6. f[r - 1] \subseteq f[N]
      <4>1. r - 1 \in 0..N
        BY <3>3
      <4>2. QED
        BY <1>3, <1>4, <4>1
    <3>7. rank[p] <= r - 1 /\ rank[p] \in Nat
      <4>1. p \in f[N] /\ p \in L
        BY <1>5, <3>5, <3>6
      <4>2. r - 1 \in at(p)
        BY <3>3, <3>5
      <4>3. QED
        BY <2>1, <2>2, <4>1, <4>2
    <3>8. rank[p] < r
      BY <3>3, <3>7, SMT
    <3>9. QED
      BY <3>5, <3>6, <3>8 DEF r
  <2>4. QED
    BY <2>2, <2>3 DEF Nearer
<1>8. QED
  BY <1>5, <1>6, <1>7

Together(f, h, k) == f[0] = h[0] /\ \A i \in 1..k : f[i - 1] = h[i - 1] => f[i] = h[i]
Alike(f, h, k)    == \A i \in 0..k : f[i] = h[i]

LEMMA SameSteps ==
  ASSUME NEW N \in Nat, NEW f, NEW h, Together(f, h, N)
  PROVE  Alike(f, h, N)
<1> DEFINE bad == {i \in 0..N : f[i] # h[i]}
<1> SUFFICES ASSUME bad # {} PROVE FALSE
  BY DEF Alike
<1>1. bad \in SUBSET Nat
  BY SMT
<1>2. PICK i \in bad : \A k \in bad : i <= k
  BY <1>1, Least
<1>3. i \in 0..N /\ f[i] # h[i] /\ i # 0
  BY <1>2 DEF Together
<1>4. i \in 1..N /\ i - 1 \in 0..N /\ ~(i <= i - 1)
  BY <1>3, SMT
<1>5. f[i - 1] = h[i - 1]
  BY <1>2, <1>4
<1>6. QED
  BY <1>3, <1>4, <1>5 DEF Together

-----------------------------------------------------------------------------
(* A function that is defined by recursion exists.                         *)

(* step's value at an element is that of f at elements of lower rank.      *)
DependsBelow(step, rank, D, V) ==
  \A f, g \in [D -> V] : \A d \in D :
    (\A e \in D : rank[e] < rank[d] => f[e] = g[e]) => step[f][d] = step[g][d]

HasFixpoint(step, D, V) == \E f \in [D -> V] : f = step[f]

LEMMA Recursion ==
  ASSUME NEW D, NEW V, NEW v \in V, NEW N \in Nat, NEW rank \in [D -> 0..N],
         NEW step \in [[D -> V] -> [D -> V]], DependsBelow(step, rank, D, V)
  PROVE  HasFixpoint(step, D, V)
<1> DEFINE F == [D -> V]
           a == [d \in D |-> v]
           M == N + 1
<1>1. a \in F /\ step \in [F -> F] /\ M \in Nat
  OBVIOUS
<1>2. PICK h \in [0..M -> F] : Iterates(h, a, step, M)
  <2> HIDE DEF F, a, M
  <2>1. QED
    BY <1>1, Iteration
<1>3. \A k \in 0..M : h[k] \in F /\ step[h[k]] \in F
  <2> HIDE DEF F
  <2>1. QED
    BY <1>1, <1>2
<1>4. \A k \in 1..M : h[k] = step[h[k - 1]] /\ k - 1 \in 0..M
  <2> HIDE DEF F, a, M
  <2>1. \A k \in 1..M : k - 1 \in 0..M
    BY <1>1
  <2>2. \A k \in 1..M : h[k] = step[h[k - 1]]
    BY <1>2, Zenon DEF Iterates
  <2>3. QED
    BY <2>1, <2>2
<1> DEFINE Fixed(k) == \A d \in D : rank[d] < k => h[k][d] = step[h[k]][d]
           bad == {k \in 0..M : ~Fixed(k)}
<1> HIDE DEF F, a, M
<1>5. bad = {}
  <2> SUFFICES ASSUME bad # {} PROVE FALSE
    OBVIOUS
  <2>1. bad \in SUBSET Nat
    OBVIOUS
  <2>2. PICK k \in bad : \A j \in bad : k <= j
    BY <2>1, Least
  <2>3. k \in 0..M /\ ~Fixed(k)
    OBVIOUS
  <2> HIDE DEF bad
  <2>4. k # 0
    BY <2>3
  <2>5. k \in 1..M /\ k - 1 \in 0..M /\ ~(k <= k - 1)
    BY <1>1, <2>3, <2>4
  <2>6. Fixed(k - 1)
    BY <2>2, <2>5 DEF bad
  <2>7. PICK d \in D : rank[d] < k /\ h[k][d] # step[h[k]][d]
    BY <2>3
  <2>8. ASSUME NEW e \in D, rank[e] < rank[d] PROVE h[k - 1][e] = h[k][e]
    <3>1. rank[e] < k - 1
      BY <2>3, <2>7, <2>8
    <3>2. h[k - 1][e] = step[h[k - 1]][e]
      BY <2>6, <3>1
    <3>3. QED
      BY <1>4, <2>5, <3>2
  <2>9. step[h[k - 1]][d] = step[h[k]][d]
    <3> DEFINE f == h[k - 1]
               g == h[k]
    <3>1. f \in [D -> V] /\ g \in [D -> V] /\ \A e \in D : rank[e] < rank[d] => f[e] = g[e]
      BY <1>3, <2>5, <2>8 DEF F
    <3> HIDE DEF f, g
    <3>2. step[f][d] = step[g][d]
      BY <3>1 DEF DependsBelow
    <3>3. QED
      BY <3>2 DEF f, g
  <2>10. QED
    BY <1>4, <2>5, <2>7, <2>9
<1>6. M \in 0..M /\ \A d \in D : rank[d] < M
  BY <1>1 DEF M
<1>7. Fixed(M)
  BY <1>5, <1>6
<1> DEFINE f == h[M]
<1>8. f \in F /\ step[f] \in F /\ \A d \in D : f[d] = step[f][d]
  BY <1>3, <1>6, <1>7
<1> HIDE DEF f
<1>9. f = step[f]
  BY <1>8 DEF F
<1>10. QED
  BY <1>8, <1>9 DEF F, HasFixpoint
=============================================================================
