------------------------------ MODULE Counting ------------------------------
(***************************************************************************)
(* Induction for the proofs of this project, as the existence of smallest  *)
(* elements: of a family of finite sets and of a set of numbers.  With it, *)
(* what the sums and recursive functions of the modules compute; and the   *)
(* quotients and remainders of their arithmetic.                           *)
(***************************************************************************)
EXTENDS FiniteSetTheorems, FiniteSetsExt, TLAPS

\* A family of finite sets has a member that contains no other one.
LEMMA SmallestSubset ==
  ASSUME NEW S, NEW F, F # {}, F \subseteq FiniteSubsetsOf(S)
  PROVE  \E T \in F : \A U \in F : U \subseteq T => U = T
<1>1. IsWellFoundedOn(StrictSubsetOrdering(S), FiniteSubsetsOf(S))
  BY FS_StrictSubsetOrderingWellFounded
<1>2. PICK T \in F : \A U \in F : <<U, T>> \notin StrictSubsetOrdering(S)
  BY <1>1, WFMin
<1>3. \A U \in F : U \subseteq T => U = T
  BY <1>2 DEF StrictSubsetOrdering, FiniteSubsetsOf
<1> QED BY <1>3

\* A set of natural numbers has a least one.
LEMMA LeastNumber ==
  ASSUME NEW N \in SUBSET Nat, N # {}
  PROVE  \E n \in N : \A m \in N : n <= m
<1> DEFINE F == {0..m : m \in N}
<1>1. F # {} /\ F \subseteq FiniteSubsetsOf(Nat)
  <2>1. \A m \in N : IsFiniteSet(0..m) /\ 0..m \subseteq Nat
    <3> TAKE m \in N
    <3>1. m \in Int /\ 0 \in Int /\ m \in Nat
      OBVIOUS
    <3>2. IsFiniteSet(0..m)
      BY <3>1, FS_Interval
    <3> QED BY <3>1, <3>2
  <2> QED BY <2>1 DEF FiniteSubsetsOf
<1>2. PICK T \in F : \A U \in F : U \subseteq T => U = T
  <2> HIDE DEF F
  <2> QED BY <1>1, SmallestSubset
<1>3. PICK n \in N : T = 0..n
  BY <1>2
<1>4. ASSUME NEW m \in N, ~(n <= m) PROVE FALSE
  <2>1. m \in Nat /\ n \in Nat /\ m < n
    BY <1>4
  <2>2. 0..m \in F
    OBVIOUS
  <2>3. 0..m \subseteq 0..n
    BY <2>1
  <2>4. 0..m = 0..n
    BY <1>2, <1>3, <2>2, <2>3
  <2>5. n \in 0..n /\ n \notin 0..m
    BY <2>1
  <2> QED BY <2>4, <2>5
<1> QED BY <1>4

-----------------------------------------------------------------------------
(* The sum of a function over a finite set, as FoldSet computes it, is the  *)
(* number of units under its graph.                                         *)

Units(r, s) == {u \in s \X Nat : u[2] < r[u[1]]}

Sum(r, S) == FoldSet(LAMBDA t, n : r[t] + n, 0, S)

\* The units of one more element.
LEMMA UnitsOfOneMore ==
  ASSUME NEW S, NEW r \in [S -> Nat], NEW s \in SUBSET S, NEW x \in s,
         IsFiniteSet(Units(r, s \ {x}))
  PROVE  /\ IsFiniteSet(Units(r, s))
         /\ Cardinality(Units(r, s)) = r[x] + Cardinality(Units(r, s \ {x}))
<1> DEFINE Under == {x} \X (0..(r[x] - 1))
           Rest == Units(r, s \ {x})
<1>1. IsFiniteSet(Under) /\ Cardinality(Under) = r[x]
  <2>1. IsFiniteSet({x}) /\ Cardinality({x}) = 1
    BY FS_Singleton
  <2>2. /\ IsFiniteSet(0..(r[x] - 1))
        /\ Cardinality(0..(r[x] - 1)) = r[x]
    <3>1. r[x] \in Nat /\ r[x] - 1 \in Int /\ 0 \in Int
      OBVIOUS
    <3>2. /\ IsFiniteSet(0..(r[x] - 1))
          /\ Cardinality(0..(r[x] - 1)) = IF 0 > r[x] - 1 THEN 0 ELSE r[x] - 1 - 0 + 1
      BY <3>1, FS_Interval
    <3> QED BY <3>1, <3>2
  <2>3. 1 * r[x] = r[x]
    OBVIOUS
  <2> QED BY <2>1, <2>2, <2>3, FS_Product
<1>2. Units(r, s) = Under \cup Rest /\ Under \cap Rest = {}
  BY DEF Units
<1> HIDE DEF Under, Rest
<1>3. /\ IsFiniteSet(Under \cup Rest)
      /\ Cardinality(Under \cup Rest) =
           Cardinality(Under) + Cardinality(Rest) - Cardinality(Under \cap Rest)
  BY <1>1, FS_Union DEF Rest
<1>4. Cardinality(Under \cap Rest) = 0 /\ Cardinality(Rest) \in Nat
  BY <1>2, FS_EmptySet, FS_CardinalityType DEF Rest
<1>5. r[x] \in Nat
  OBVIOUS
<1> QED BY <1>1, <1>2, <1>3, <1>4, <1>5 DEF Rest

LEMMA UnitsFinite ==
  ASSUME NEW S, IsFiniteSet(S), NEW r \in [S -> Nat]
  PROVE  \A s \in SUBSET S : IsFiniteSet(Units(r, s))
<1> DEFINE F == {s \in SUBSET S : ~ IsFiniteSet(Units(r, s))}
<1> SUFFICES ASSUME F # {} PROVE FALSE
  OBVIOUS
<1>1. F \subseteq FiniteSubsetsOf(S)
  BY FS_Subset DEF FiniteSubsetsOf
<1>2. PICK T \in F : \A U \in F : U \subseteq T => U = T
  <2> HIDE DEF F
  <2> QED BY <1>1, SmallestSubset
<1>3. Units(r, {}) = {}
  BY DEF Units
<1>4. PICK x \in T : TRUE
  BY <1>3, FS_EmptySet
<1>5. IsFiniteSet(Units(r, T \ {x}))
  BY <1>2, <1>4
<1> QED BY <1>4, <1>5, UnitsOfOneMore

LEMMA UnitsSplit ==
  ASSUME NEW S, IsFiniteSet(S), NEW r \in [S -> Nat]
  PROVE  \A s \in SUBSET S : \A x \in s :
           Cardinality(Units(r, s)) = r[x] + Cardinality(Units(r, s \ {x}))
<1>1. ASSUME NEW s \in SUBSET S, NEW x \in s
      PROVE  Cardinality(Units(r, s)) = r[x] + Cardinality(Units(r, s \ {x}))
  <2>1. s \ {x} \in SUBSET S
    OBVIOUS
  <2>2. IsFiniteSet(Units(r, s \ {x}))
    BY <2>1, UnitsFinite
  <2> QED BY <2>2, UnitsOfOneMore
<1> QED BY <1>1

LEMMA SumIsUnits ==
  ASSUME NEW S, IsFiniteSet(S), NEW r \in [S -> Nat]
  PROVE  Sum(r, S) = Cardinality(Units(r, S))
<1>0. \A s \in SUBSET S : \A x \in s :
        Cardinality(Units(r, s)) = r[x] + Cardinality(Units(r, s \ {x}))
  BY UnitsSplit
<1> DEFINE c(s) == CHOOSE x \in s : TRUE
           Step(g) == [s \in SUBSET S |-> IF s = {} THEN 0 ELSE r[c(s)] + g[s \ {c(s)}]]
           f == CHOOSE g : g = Step(g)
           u == [s \in SUBSET S |-> Cardinality(Units(r, s))]
           F == {s \in SUBSET S : f[s] # u[s]}
<1>1. Sum(r, S) = f[S]
  BY DEF Sum, FoldSet, MapThenFoldSet
<1>2. u[{}] = 0
  BY FS_EmptySet DEF Units
<1>3. ASSUME NEW s \in SUBSET S, s # {}
      PROVE  c(s) \in s /\ u[s] = r[c(s)] + u[s \ {c(s)}]
  <2>1. c(s) \in s /\ s \ {c(s)} \in SUBSET S
    BY <1>3
  <2> HIDE DEF c
  <2> QED BY <1>0, <2>1
<1>4. u = Step(u)
  BY <1>2, <1>3
<1>5. f = Step(f)
  <2>1. \E g : g = Step(g)
    <3> HIDE DEF Step, u
    <3> QED BY <1>4
  <2> HIDE DEF Step
  <2> QED BY <2>1, Zenon
<1>6. /\ f[{}] = 0
      /\ \A s \in SUBSET S : s # {} => f[s] = r[c(s)] + f[s \ {c(s)}]
  <2> HIDE DEF f
  <2> QED BY <1>5
<1> HIDE DEF f, u, c
<1>7. F \subseteq FiniteSubsetsOf(S)
  BY FS_Subset DEF FiniteSubsetsOf
<1>8. ASSUME F # {} PROVE FALSE
  <2>1. PICK T \in F : \A U \in F : U \subseteq T => U = T
    <3> HIDE DEF F
    <3> QED BY <1>7, <1>8, SmallestSubset
  <2>2. T # {} /\ T \in SUBSET S
    BY <1>2, <1>6
  <2>3. T \ {c(T)} \notin F /\ T \ {c(T)} \in SUBSET S
    BY <1>3, <2>1, <2>2
  <2> QED BY <1>3, <1>6, <2>2, <2>3
<1>9. f[S] = u[S]
  BY <1>8
<1> QED BY <1>1, <1>9 DEF u

LEMMA SumType ==
  ASSUME NEW S, IsFiniteSet(S), NEW r \in [S -> Nat]
  PROVE  Sum(r, S) \in Nat
BY SumIsUnits, UnitsFinite, FS_CardinalityType

LEMMA SumOfNothing ==
  ASSUME NEW S, IsFiniteSet(S), NEW r \in [S -> Nat], \A t \in S : r[t] = 0
  PROVE  Sum(r, S) = 0
<1>1. Units(r, S) = {}
  BY DEF Units
<1> QED BY <1>1, SumIsUnits, FS_EmptySet

LEMMA SumOneMore ==
  ASSUME NEW S, IsFiniteSet(S), NEW r \in [S -> Nat], NEW t \in S,
         NEW q, q = [r EXCEPT ![t] = @ + 1]
  PROVE  Sum(q, S) = Sum(r, S) + 1
<1>1. q \in [S -> Nat] /\ \A u \in S : q[u] = IF u = t THEN r[t] + 1 ELSE r[u]
  OBVIOUS
<1>2. r[t] \in Nat
  OBVIOUS
<1>3. Units(q, S) = Units(r, S) \cup {<<t, r[t]>>}
  BY <1>1, <1>2 DEF Units
<1>4. <<t, r[t]>> \notin Units(r, S)
  BY <1>2 DEF Units
<1>5. IsFiniteSet(Units(r, S))
  BY UnitsFinite
<1>6. Cardinality(Units(q, S)) = Cardinality(Units(r, S)) + 1
  BY <1>3, <1>4, <1>5, FS_AddElement
<1>7. Sum(q, S) = Cardinality(Units(q, S)) /\ Sum(r, S) = Cardinality(Units(r, S))
  BY <1>1, SumIsUnits
<1> QED BY <1>6, <1>7

LEMMA SumAtMost ==
  ASSUME NEW S, IsFiniteSet(S), NEW r \in [S -> Nat], NEW b \in Nat,
         \A t \in S : r[t] <= b
  PROVE  Sum(r, S) <= Cardinality(S) * b
<1> PICK m \in Int : m = b - 1
  OBVIOUS
<1>1. IsFiniteSet(0..m) /\ Cardinality(0..m) = b
  <2>1. IsFiniteSet(0..m) /\ Cardinality(0..m) = IF 0 > m THEN 0 ELSE m - 0 + 1
    <3>1. 0 \in Int
      OBVIOUS
    <3> QED BY <3>1, FS_Interval
  <2> QED BY <2>1
<1>2. Units(r, S) \subseteq S \X (0..m)
  <2> SUFFICES ASSUME NEW u \in Units(r, S) PROVE u \in S \X (0..m)
    OBVIOUS
  <2>1. PICK t \in S, n \in Nat : u = <<t, n>> /\ n < r[t]
    BY DEF Units
  <2>2. r[t] \in Nat /\ r[t] <= b
    OBVIOUS
  <2>3. n \in 0..m
    BY <2>1, <2>2
  <2> QED BY <2>1, <2>3
<1>3. IsFiniteSet(S \X (0..m)) /\ Cardinality(S \X (0..m)) = Cardinality(S) * b
  BY <1>1, FS_Product
<1>4. Cardinality(Units(r, S)) <= Cardinality(S \X (0..m))
  BY <1>2, <1>3, FS_Subset
<1>5. Sum(r, S) = Cardinality(Units(r, S))
  BY SumIsUnits
<1> QED BY <1>3, <1>4, <1>5

-----------------------------------------------------------------------------
(* Quotients and remainders by a divisor that is not a number.            *)

LEMMA Divided ==
  ASSUME NEW n \in Nat \ {0}, NEW x \in Nat
  PROVE  x \div n \in Nat /\ x % n \in 0..(n - 1) /\ x = n * (x \div n) + (x % n)
OBVIOUS

LEMMA OneQuotient ==
  ASSUME NEW n \in Nat \ {0}, NEW q \in Nat, NEW r \in 0..(n - 1),
         NEW p \in Nat, NEW s \in 0..(n - 1), n * q + r = n * p + s
  PROVE  q = p /\ r = s
<1>1. CASE q < p
  <2>1. PICK d \in Nat : p = q + 1 + d
    <3>1. p - q - 1 \in Nat /\ p = q + 1 + (p - q - 1)
      BY <1>1
    <3> QED BY <3>1
  <2>2. n * p = n * q + n + n * d
    BY <2>1
  <2>3. n * d \in Nat /\ n * q \in Nat
    OBVIOUS
  <2> QED BY <2>2, <2>3
<1>2. CASE p < q
  <2>1. PICK d \in Nat : q = p + 1 + d
    <3>1. q - p - 1 \in Nat /\ q = p + 1 + (q - p - 1)
      BY <1>2
    <3> QED BY <3>1
  <2>2. n * q = n * p + n + n * d
    BY <2>1
  <2>3. n * d \in Nat /\ n * p \in Nat
    OBVIOUS
  <2> QED BY <2>2, <2>3
<1>3. CASE p = q
  BY <1>3
<1> QED BY <1>1, <1>2, <1>3

LEMMA Quotient ==
  ASSUME NEW n \in Nat \ {0}, NEW q \in Nat, NEW r \in 0..(n - 1), NEW x, x = n * q + r
  PROVE  x \div n = q /\ x % n = r
<1>1. x \in Nat
  OBVIOUS
<1> QED BY <1>1, Divided, OneQuotient

-----------------------------------------------------------------------------
(* A function defined by recursion over the numbers.                       *)

\* g follows F from x for n steps.
Follows(g, F, X, x, n) ==
  /\ g \in [0..n -> X]
  /\ g[0] = x
  /\ \A k \in 1..n : g[k] = F[k][g[k - 1]]

LEMMA FollowsOn ==
  ASSUME NEW X, NEW x \in X, NEW F \in [Nat -> [X -> X]], NEW n \in Nat
  PROVE  \E g : Follows(g, F, X, x, n)
<1> DEFINE N == {k \in Nat : ~ \E g : Follows(g, F, X, x, k)}
<1>1. SUFFICES ASSUME N # {} PROVE FALSE
  OBVIOUS
<1>2. PICK k \in N : \A m \in N : k <= m
  <2>1. N \in SUBSET Nat
    OBVIOUS
  <2> HIDE DEF N
  <2> QED BY <1>1, <2>1, LeastNumber
<1>3. k \in Nat /\ ~ \E g : Follows(g, F, X, x, k)
  OBVIOUS
<1>4. CASE k = 0
  <2>1. Follows([i \in 0..k |-> x], F, X, x, k)
    BY <1>4 DEF Follows
  <2> QED BY <1>3, <2>1
<1>5. CASE k # 0
  <2>1. k - 1 \in Nat /\ k - 1 \notin N
    <3>1. k - 1 \in Nat /\ ~(k <= k - 1)
      BY <1>3, <1>5
    <3> HIDE DEF N
    <3> QED BY <1>2, <3>1
  <2>2. PICK g : Follows(g, F, X, x, k - 1)
    BY <2>1
  <2> DEFINE h == [i \in 0..k |-> IF i = k THEN F[k][g[k - 1]] ELSE g[i]]
  <2>3. \A i \in 0..(k - 1) : h[i] = g[i] /\ g[i] \in X
    <3>1. \A i \in 0..(k - 1) : i \in 0..k /\ i # k
      BY <1>3
    <3> QED BY <2>2, <3>1 DEF Follows
  <2>4. h[k] = F[k][g[k - 1]] /\ h[k] \in X
    <3>1. k \in 0..k /\ k - 1 \in 0..(k - 1)
      BY <1>3, <2>1
    <3> QED BY <1>3, <2>3, <3>1
  <2>5. \A i \in 0..k : i = k \/ i \in 0..(k - 1)
    BY <1>3
  <2>6. h \in [0..k -> X]
    <3>1. \A i \in 0..k : h[i] \in X
      <4> HIDE DEF h
      <4> QED BY <2>3, <2>4, <2>5
    <3> QED BY <3>1
  <2> HIDE DEF h
  <2>7. \A i \in 1..k : h[i] = F[i][h[i - 1]]
    <3> TAKE i \in 1..k
    <3>1. i - 1 \in 0..(k - 1) /\ (i = k \/ i \in 1..(k - 1))
      BY <1>3
    <3>2. CASE i = k
      BY <2>3, <2>4, <3>1, <3>2
    <3>3. CASE i \in 1..(k - 1)
      <4>1. g[i] = F[i][g[i - 1]]
        BY <2>2, <3>3 DEF Follows
      <4>2. i \in 0..(k - 1)
        BY <3>3
      <4> QED BY <2>3, <3>1, <4>1, <4>2
    <3> QED BY <3>1, <3>2, <3>3
  <2>8. h[0] = x
    <3>1. 0 \in 0..(k - 1)
      BY <2>1
    <3> QED BY <2>2, <2>3, <3>1 DEF Follows
  <2>9. Follows(h, F, X, x, k)
    BY <2>6, <2>7, <2>8 DEF Follows
  <2> QED BY <1>3, <2>9
<1> QED BY <1>4, <1>5

LEMMA FollowsOne ==
  ASSUME NEW X, NEW x, NEW F, NEW m \in Nat, NEW n \in Nat, NEW g, NEW h,
         Follows(g, F, X, x, m), Follows(h, F, X, x, n), m <= n
  PROVE  \A k \in 0..m : g[k] = h[k]
<1> DEFINE N == {k \in 0..m : g[k] # h[k]}
<1>1. SUFFICES ASSUME N # {} PROVE FALSE
  OBVIOUS
<1>2. PICK k \in N : \A j \in N : k <= j
  <2>1. N \in SUBSET Nat
    OBVIOUS
  <2> HIDE DEF N
  <2> QED BY <1>1, <2>1, LeastNumber
<1>3. k \in 0..m /\ g[k] # h[k]
  OBVIOUS
<1>4. k # 0
  BY <1>3 DEF Follows
<1>5. k - 1 \in 0..m /\ k \in 1..m /\ k \in 1..n /\ ~(k <= k - 1)
  BY <1>3, <1>4
<1>6. g[k - 1] = h[k - 1]
  BY <1>2, <1>5
<1>7. g[k] = F[k][g[k - 1]] /\ h[k] = F[k][h[k - 1]]
  BY <1>5 DEF Follows
<1> QED BY <1>3, <1>6, <1>7

StepFunctions(X) == [Nat -> [X -> X]]

\* g begins with x and goes from n - 1 to n by F[n].
Goes(g, F, X, x) ==
  /\ g \in [Nat -> X]
  /\ g[0] = x
  /\ \A n \in Nat \ {0} : g[n] = F[n][g[n - 1]]

\* A recursion over the numbers has a solution.
LEMMA Recursion ==
  ASSUME NEW X, NEW x \in X, NEW F \in StepFunctions(X)
  PROVE  \E g : Goes(g, F, X, x)
<1> DEFINE Some(n) == CHOOSE g : Follows(g, F, X, x, n)
           h == [n \in Nat |-> Some(n)[n]]
<1>1. \A n \in Nat : Follows(Some(n), F, X, x, n)
  BY FollowsOn DEF StepFunctions
<1> HIDE DEF Some
<1>2. \A n \in Nat : h[n] = Some(n)[n]
  OBVIOUS
<1>3. h \in [Nat -> X]
  <2>1. \A n \in Nat : Some(n)[n] \in X
    <3> TAKE n \in Nat
    <3>1. n \in 0..n
      OBVIOUS
    <3> QED BY <1>1, <3>1 DEF Follows
  <2> QED BY <2>1
<1> HIDE DEF h
<1>4. h[0] = x
  BY <1>1, <1>2 DEF Follows
<1>5. ASSUME NEW n \in Nat \ {0}
      PROVE  h[n] = F[n][h[n - 1]]
  <2>1. n - 1 \in Nat /\ n - 1 <= n /\ n \in 1..n /\ n - 1 \in 0..(n - 1)
    OBVIOUS
  <2>2. Some(n)[n] = F[n][Some(n)[n - 1]]
    BY <1>1, <2>1 DEF Follows
  <2>3. Some(n - 1)[n - 1] = Some(n)[n - 1]
    <3>1. Follows(Some(n - 1), F, X, x, n - 1) /\ Follows(Some(n), F, X, x, n)
      BY <1>1, <2>1
    <3> QED BY <2>1, <3>1, FollowsOne
  <2> QED BY <1>2, <2>1, <2>2, <2>3
<1> QED BY <1>3, <1>4, <1>5 DEF Goes
=============================================================================
