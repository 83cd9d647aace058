------------------------------ MODULE NatLemmas ------------------------------
(***************************************************************************)
(* Extreme elements of sets of numbers, what holds of a finite set because *)
(* it holds of what is left when an element is taken, and sums over finite *)
(* sets.  They take the place of induction in the proofs: the library's induction theorems have an       *)
(* operator as a parameter, while these speak of sets only and follow from *)
(* the well-foundedness of the strict subset ordering on finite sets.      *)
(***************************************************************************)
EXTENDS Integers, FiniteSetTheorems, WellFoundedInduction, TLAPS

(* A non-empty bounded set of numbers has a largest element: n..cap is     *)
(* smallest, as a set, for the largest n.                                  *)
LEMMA LargestElement ==
  ASSUME NEW cap \in Int, NEW low \in Int, NEW S \in SUBSET (low .. cap), S # {}
  PROVE  \E m \in S : \A n \in S : n <= m
<1> DEFINE U == low .. cap
           F == {n .. cap : n \in S}
<1>1. IsFiniteSet(U)
  BY FS_Interval
<1>2. F \subseteq FiniteSubsetsOf(U)
  <2>1. F \subseteq SUBSET U
    OBVIOUS
  <2>2. FiniteSubsetsOf(U) = SUBSET U
    BY <1>1, FS_FiniteSubsetsOfFinite
  <2> QED
    BY <2>1, <2>2
<1>3. IsWellFoundedOn(StrictSubsetOrdering(U), FiniteSubsetsOf(U))
  BY FS_StrictSubsetOrderingWellFounded
<1>4. F # {}
  OBVIOUS
<1>5. PICK X \in F : \A Y \in F : <<Y, X>> \notin StrictSubsetOrdering(U)
  <2> HIDE DEF U, F
  <2> QED
    BY <1>2, <1>3, <1>4, WFMin
<1>6. PICK m \in S : X = m .. cap
  OBVIOUS
<1>7. ASSUME NEW n \in S, n > m PROVE FALSE
  <2>1. n .. cap \in F
    OBVIOUS
  <2>2. n .. cap \subseteq m .. cap /\ n .. cap # m .. cap
    <3>1. m \in m .. cap /\ m \notin n .. cap
      BY <1>7
    <3> QED
      BY <3>1, <1>7
  <2>3. n .. cap \in SUBSET U /\ m .. cap \in SUBSET U
    OBVIOUS
  <2>4. <<n .. cap, m .. cap>> \in StrictSubsetOrdering(U)
    BY <2>2, <2>3 DEF StrictSubsetOrdering
  <2> QED
    BY <2>1, <2>4, <1>5, <1>6
<1> QED
  BY <1>7

(* A set of numbers that begins with low and has with every number the     *)
(* next one has them all.                                                  *)
LEMMA Upwards ==
  ASSUME NEW low \in Int, NEW cap \in Int, NEW S, low <= cap, low \in S,
         \A n \in low .. cap - 1 : n \in S => n + 1 \in S
  PROVE  low .. cap \subseteq S
<1> SUFFICES ASSUME NEW n \in low .. cap PROVE n \in S
  OBVIOUS
<1> DEFINE T == {i \in low .. n : i \in S}
<1>1. T \in SUBSET (low .. n) /\ low \in T /\ T # {} /\ n \in Int
  OBVIOUS
<1>2. PICK m \in T : \A i \in T : i <= m
  <2> HIDE DEF T
  <2> QED
    BY <1>1, LargestElement
<1>3. ASSUME m # n PROVE FALSE
  <2>1. m + 1 \in T
    BY <1>3
  <2> QED
    BY <2>1, <1>2
<1> QED
  BY <1>3

LEMMA FromZero ==
  ASSUME NEW n \in Nat, NEW S, 0 \in S, \A i \in 0 .. n - 1 : i \in S => i + 1 \in S
  PROVE  n \in S
<1>1. 0 .. n \subseteq S
  BY Upwards
<1> QED
  BY <1>1

(* The powers of a number as a recursive function: there is one.           *)
LEMMA PowersExist ==
  ASSUME NEW c \in Nat \ {0}
  PROVE  \E f \in [Nat -> Nat \ {0}] :
           f = [s \in Nat |-> IF s = 0 THEN 1 ELSE c * f[s - 1]]
<1> DEFINE Solves(n, g) == /\ g \in [0 .. n -> Nat \ {0}] /\ g[0] = 1
                           /\ \A s \in 1 .. n : g[s] = c * g[s - 1]
           P(n) == CHOOSE g : Solves(n, g)
<1>1. ASSUME NEW n \in Nat PROVE \E g : Solves(n, g)
  <2> DEFINE S == {i \in 0 .. n : \E g : Solves(i, g)}
  <2>1. 0 \in S
    <3>1. Solves(0, [s \in 0 .. 0 |-> 1])
      OBVIOUS
    <3> HIDE DEF Solves
    <3> QED
      BY <3>1
  <2>2. ASSUME NEW i \in 0 .. n - 1, i \in S PROVE i + 1 \in S
    <3>1. PICK g : Solves(i, g)
      BY <2>2
    <3> DEFINE h == [s \in 0 .. i + 1 |-> IF s = i + 1 THEN c * g[i] ELSE g[s]]
    <3>2. g[i] \in Nat \ {0} /\ c * g[i] \in Nat \ {0}
      BY <3>1
    <3>3. h \in [0 .. i + 1 -> Nat \ {0}] /\ h[0] = 1
      BY <3>1, <3>2
    <3>4. ASSUME NEW s \in 1 .. i + 1 PROVE h[s] = c * h[s - 1]
      <4>1. CASE s = i + 1
        BY <4>1
      <4>2. CASE s # i + 1
        <5>1. s \in 1 .. i
          BY <4>2
        <5> QED
          BY <3>1, <5>1
      <4> QED
        BY <4>1, <4>2
    <3>5. Solves(i + 1, h)
      BY <3>3, <3>4
    <3> HIDE DEF Solves, h
    <3>6. i + 1 \in 0 .. n
      OBVIOUS
    <3> QED
      BY <3>5, <3>6
  <2>3. 0 .. n \subseteq S
    <3> HIDE DEF S
    <3> QED
      BY <2>1, <2>2, Upwards
  <2> QED
    BY <2>3
<1>2. ASSUME NEW n \in Nat, NEW k \in 0 .. n, NEW g, NEW h, Solves(n, g), Solves(k, h)
      PROVE  g[k] = h[k]
  <2> DEFINE S == {i \in 0 .. k : g[i] = h[i]}
  <2>1. 0 \in S
    BY <1>2
  <2>2. ASSUME NEW i \in 0 .. k - 1, i \in S PROVE i + 1 \in S
    <3>1. i + 1 \in 1 .. n /\ i + 1 \in 1 .. k /\ (i + 1) - 1 = i
      OBVIOUS
    <3>2. g[i + 1] = c * g[i] /\ h[i + 1] = c * h[i]
      BY <1>2, <3>1
    <3> QED
      BY <2>2, <3>1, <3>2
  <2>3. 0 .. k \subseteq S
    <3> HIDE DEF S
    <3> QED
      BY <2>1, <2>2, Upwards
  <2> QED
    BY <2>3
<1>3. \A n \in Nat : Solves(n, P(n))
  <2> HIDE DEF Solves
  <2> QED
    BY <1>1
<1> DEFINE f == [s \in Nat |-> P(s)[s]]
<1> HIDE DEF P
<1>4. \A n \in Nat : P(n)[n] \in Nat \ {0} /\ P(0)[0] = 1
  BY <1>3
<1>5. ASSUME NEW n \in Nat, n # 0 PROVE P(n)[n] = c * P(n - 1)[n - 1]
  <2>1. n - 1 \in Nat /\ n - 1 \in 0 .. n /\ n \in 1 .. n
    BY <1>5
  <2>2. P(n)[n] = c * P(n)[n - 1]
    BY <1>3, <2>1
  <2>3. P(n)[n - 1] = P(n - 1)[n - 1]
    <3>1. Solves(n, P(n)) /\ Solves(n - 1, P(n - 1))
      BY <1>3, <2>1
    <3> HIDE DEF Solves
    <3> QED
      BY <1>2, <2>1, <3>1
  <2> QED
    BY <2>2, <2>3
<1>6. f \in [Nat -> Nat \ {0}]
  BY <1>4
<1>7. f = [s \in Nat |-> IF s = 0 THEN 1 ELSE c * f[s - 1]]
  <2>1. ASSUME NEW s \in Nat PROVE f[s] = IF s = 0 THEN 1 ELSE c * f[s - 1]
    <3>1. CASE s = 0
      BY <1>4, <3>1
    <3>2. CASE s # 0
      <4>1. s - 1 \in Nat
        BY <3>2
      <4> QED
        BY <1>5, <3>2, <4>1
    <3> QED
      BY <3>1, <3>2
  <2> QED
    BY <2>1
<1> QED
  BY <1>6, <1>7

(* Whatever satisfies the recursion has numbers as its values.             *)
LEMMA PowersType ==
  ASSUME NEW c \in Nat \ {0}, NEW f,
         f = [s \in Nat |-> IF s = 0 THEN 1 ELSE c * f[s - 1]]
  PROVE  f \in [Nat -> Nat \ {0}]
<1> DEFINE S == {s \in Nat : f[s] \in Nat \ {0}}
<1>1. \A s \in Nat : f[s] = IF s = 0 THEN 1 ELSE c * f[s - 1]
  OBVIOUS
<1>2. ASSUME NEW n \in Nat PROVE f[n] \in Nat \ {0}
  <2>1. 0 \in S
    BY <1>1
  <2>2. ASSUME NEW i \in 0 .. n - 1, i \in S PROVE i + 1 \in S
    <3>1. f[i + 1] = c * f[i] /\ f[i] \in Nat \ {0}
      BY <1>1, <2>2
    <3>2. i + 1 \in Nat /\ c * f[i] \in Nat \ {0}
      BY <3>1
    <3> QED
      BY <3>1, <3>2
  <2>3. 0 .. n \subseteq S
    <3> HIDE DEF S
    <3> QED
      BY <2>1, <2>2, Upwards
  <2> QED
    BY <2>3
<1> QED
  BY <1>2

(* A run along the numbers up to n, g[i] being its i-th step: there is one. *)
RunOf(n, S, start, g, p) == /\ p \in [0 .. n -> S] /\ p[0] = start
                            /\ \A i \in 1 .. n : p[i] = g[i][p[i - 1]]

LEMMA RunExists ==
  ASSUME NEW n \in Nat, NEW S, NEW start \in S, NEW g \in [1 .. n -> [S -> S]]
  PROVE  \E p : RunOf(n, S, start, g, p)
<1> DEFINE Run(k, p) == /\ p \in [0 .. k -> S] /\ p[0] = start
                        /\ \A i \in 1 .. k : p[i] = g[i][p[i - 1]]
           K == {k \in 0 .. n : \E p : Run(k, p)}
<1>1. 0 \in K
  <2>1. Run(0, [i \in 0 .. 0 |-> start])
    OBVIOUS
  <2> HIDE DEF Run
  <2> QED
    BY <2>1
<1>2. ASSUME NEW k \in 0 .. n - 1, k \in K PROVE k + 1 \in K
  <2>1. PICK p : Run(k, p)
    BY <1>2
  <2> DEFINE q == [i \in 0 .. k + 1 |-> IF i = k + 1 THEN g[k + 1][p[k]] ELSE p[i]]
  <2>2. p[k] \in S /\ g[k + 1] \in [S -> S] /\ g[k + 1][p[k]] \in S
    BY <2>1
  <2>3. q \in [0 .. k + 1 -> S] /\ q[0] = start
    BY <2>1, <2>2
  <2>4. ASSUME NEW i \in 1 .. k + 1 PROVE q[i] = g[i][q[i - 1]]
    <3>1. CASE i = k + 1
      BY <3>1
    <3>2. CASE i # k + 1
      <4>1. i \in 1 .. k
        BY <3>2
      <4> QED
        BY <2>1, <4>1
    <3> QED
      BY <3>1, <3>2
  <2> HIDE DEF q
  <2>5. Run(k + 1, q)
    BY <2>3, <2>4
  <2>6. k + 1 \in 0 .. n
    OBVIOUS
  <2> HIDE DEF Run
  <2> QED
    BY <2>5, <2>6
<1>3. 0 .. n \subseteq K
  <2> HIDE DEF K
  <2>1. 0 \in Int /\ n \in Int /\ 0 <= n
    OBVIOUS
  <2>2. \A k \in 0 .. n - 1 : k \in K => k + 1 \in K
    BY <1>2
  <2> HIDE DEF Run
  <2> QED
    BY <1>1, <2>1, <2>2, Upwards
<1>4. PICK p : Run(n, p)
  BY <1>3
<1> QED
  BY <1>4 DEF RunOf

-----------------------------------------------------------------------------
(* The same without a bound, for finite sets of numbers.                   *)
LEMMA LargestOf ==
  ASSUME NEW S \in SUBSET Int, IsFiniteSet(S), S # {}
  PROVE  \E m \in S : \A n \in S : n <= m
<1> DEFINE Above(n) == {i \in S : i >= n}
           F == {Above(n) : n \in S}
<1>1. F \subseteq FiniteSubsetsOf(S)
  <2>1. F \subseteq SUBSET S
    OBVIOUS
  <2>2. FiniteSubsetsOf(S) = SUBSET S
    BY FS_FiniteSubsetsOfFinite
  <2> QED
    BY <2>1, <2>2
<1>2. IsWellFoundedOn(StrictSubsetOrdering(S), FiniteSubsetsOf(S))
  BY FS_StrictSubsetOrderingWellFounded
<1>3. PICK X \in F : \A Y \in F : <<Y, X>> \notin StrictSubsetOrdering(S)
  <2>1. F # {}
    OBVIOUS
  <2> HIDE DEF F
  <2> QED
    BY <1>1, <1>2, <2>1, WFMin
<1>4. PICK m \in S : X = Above(m)
  OBVIOUS
<1>5. ASSUME NEW n \in S, n > m PROVE FALSE
  <2>1. Above(n) \in F /\ Above(n) \in SUBSET S /\ Above(m) \in SUBSET S
    OBVIOUS
  <2>2. Above(n) \subseteq Above(m) /\ Above(n) # Above(m)
    <3>1. m \in Above(m) /\ m \notin Above(n)
      BY <1>5
    <3>2. \A i \in Above(n) : i \in Above(m)
      BY <1>5
    <3> QED
      BY <3>1, <3>2
  <2>3. <<Above(n), Above(m)>> \in StrictSubsetOrdering(S)
    BY <2>1, <2>2 DEF StrictSubsetOrdering
  <2> QED
    BY <1>3, <1>4, <2>1, <2>3
<1> QED
  BY <1>5

LEMMA SmallestOf ==
  ASSUME NEW S \in SUBSET Int, IsFiniteSet(S), S # {}
  PROVE  \E m \in S : \A n \in S : m <= n
<1> DEFINE Below(n) == {i \in S : i <= n}
           F == {Below(n) : n \in S}
<1>1. F \subseteq FiniteSubsetsOf(S)
  <2>1. F \subseteq SUBSET S
    OBVIOUS
  <2>2. FiniteSubsetsOf(S) = SUBSET S
    BY FS_FiniteSubsetsOfFinite
  <2> QED
    BY <2>1, <2>2
<1>2. IsWellFoundedOn(StrictSubsetOrdering(S), FiniteSubsetsOf(S))
  BY FS_StrictSubsetOrderingWellFounded
<1>3. PICK X \in F : \A Y \in F : <<Y, X>> \notin StrictSubsetOrdering(S)
  <2>1. F # {}
    OBVIOUS
  <2> HIDE DEF F
  <2> QED
    BY <1>1, <1>2, <2>1, WFMin
<1>4. PICK m \in S : X = Below(m)
  OBVIOUS
<1>5. ASSUME NEW n \in S, n < m PROVE FALSE
  <2>1. Below(n) \in F /\ Below(n) \in SUBSET S /\ Below(m) \in SUBSET S
    OBVIOUS
  <2>2. Below(n) \subseteq Below(m) /\ Below(n) # Below(m)
    <3>1. m \in Below(m) /\ m \notin Below(n)
      BY <1>5
    <3>2. \A i \in Below(n) : i \in Below(m)
      BY <1>5
    <3> QED
      BY <3>1, <3>2
  <2>3. <<Below(n), Below(m)>> \in StrictSubsetOrdering(S)
    BY <2>1, <2>2 DEF StrictSubsetOrdering
  <2> QED
    BY <1>3, <1>4, <2>1, <2>3
<1> QED
  BY <1>5

(* What holds of the empty set, and of a set if it holds of what is left   *)
(* when an element is taken, holds of all subsets of a finite set.         *)
Picked(s) == CHOOSE x \in s : TRUE

LEMMA SubsetByElement ==
  ASSUME NEW U, IsFiniteSet(U), NEW P, {} \in P,
         \A s \in SUBSET U : s # {} /\ s \ {Picked(s)} \in P => s \in P
  PROVE  \A s \in SUBSET U : s \in P
<1>1. PICK N \in Nat : N = Cardinality(U)
  BY FS_CardinalityType
<1>2. \A s \in SUBSET U : IsFiniteSet(s) /\ Cardinality(s) \in Nat /\ Cardinality(s) <= N
  BY <1>1, FS_Subset, FS_CardinalityType
<1>3. PICK T : T = {n \in 0 .. N : \A s \in SUBSET U : Cardinality(s) <= n => s \in P}
  OBVIOUS
<1>4. 0 \in T
  <2> SUFFICES ASSUME NEW s \in SUBSET U, Cardinality(s) <= 0 PROVE s \in P
    BY <1>1, <1>3
  <2>1. s = {}
    BY <1>2, FS_EmptySet
  <2> QED
    BY <2>1
<1>5. ASSUME NEW n \in 0 .. N - 1, n \in T PROVE n + 1 \in T
  <2>1. SUFFICES ASSUME NEW s \in SUBSET U, Cardinality(s) <= n + 1 PROVE s \in P
    BY <1>1, <1>3, <1>5
  <2>2. CASE s = {}
    BY <2>2
  <2>3. CASE s # {}
    <3>1. Picked(s) \in s
      BY <2>3 DEF Picked
    <3>2. PICK r : r = s \ {Picked(s)}
      OBVIOUS
    <3>3. r \in SUBSET U /\ Cardinality(r) = Cardinality(s) - 1
      BY <1>2, <3>1, <3>2, FS_RemoveElement
    <3>4. Cardinality(r) <= n
      BY <1>2, <2>1, <3>3
    <3>5. r \in P
      BY <1>3, <1>5, <3>3, <3>4
    <3> QED
      BY <2>3, <3>2, <3>5
  <2> QED
    BY <2>2, <2>3
<1>6. N \in T
  BY <1>1, <1>4, <1>5, FromZero
<1> QED
  BY <1>2, <1>3, <1>6

(* The sum of f over the subsets of U, element by element: there is one,   *)
(* and it is as many times greater as f.                                   *)
IsSum(f, U, it) ==
  it = [s \in SUBSET U |-> IF s = {} THEN 0 ELSE f[Picked(s)] + it[s \ {Picked(s)}]]

LEMMA SumExists ==
  ASSUME NEW U, IsFiniteSet(U), NEW f \in [U -> Int]
  PROVE  \E it : IsSum(f, U, it)
<1> DEFINE Rest(s) == s \ {Picked(s)}
           Onto(it, s) == IF s = {} THEN 0 ELSE f[Picked(s)] + it[Rest(s)]
           Solves(n, it) == /\ it \in [SUBSET U -> Int]
                            /\ \A s \in SUBSET U : Cardinality(s) <= n => it[s] = Onto(it, s)
<1>1. PICK N \in Nat : N = Cardinality(U)
  BY FS_CardinalityType
<1>2. \A s \in SUBSET U : IsFiniteSet(s) /\ Cardinality(s) \in Nat /\ Cardinality(s) <= N
  BY <1>1, FS_Subset, FS_CardinalityType
<1>3. ASSUME NEW s \in SUBSET U, s # {}
      PROVE  /\ Picked(s) \in U /\ Rest(s) \in SUBSET U
             /\ Cardinality(Rest(s)) = Cardinality(s) - 1
  <2>1. Picked(s) \in s
    BY <1>3 DEF Picked
  <2> QED
    BY <1>2, <2>1, FS_RemoveElement
<1>4. PICK T : T = {n \in 0 .. N : \E it : Solves(n, it)}
  OBVIOUS
<1>5. 0 \in T
  <2>1. PICK it : it = [s \in SUBSET U |-> 0]
    OBVIOUS
  <2>2. \A s \in SUBSET U : Cardinality(s) <= 0 => s = {}
    BY <1>2, FS_EmptySet
  <2>3. Solves(0, it)
    BY <2>1, <2>2
  <2> HIDE DEF Solves
  <2> QED
    BY <1>1, <1>4, <2>3
<1>6. ASSUME NEW n \in 0 .. N - 1, n \in T PROVE n + 1 \in T
  <2>1. PICK it : Solves(n, it)
    BY <1>4, <1>6
  <2>2. PICK jt : jt = [s \in SUBSET U |-> IF Cardinality(s) <= n THEN it[s] ELSE Onto(it, s)]
    OBVIOUS
  <2>3. ASSUME NEW s \in SUBSET U PROVE Onto(it, s) \in Int
    <3>1. CASE s = {}
      BY <3>1
    <3>2. CASE s # {}
      <4>1. f[Picked(s)] \in Int /\ it[Rest(s)] \in Int
        BY <1>3, <2>1, <3>2
      <4> QED
        BY <3>2, <4>1
    <3> QED
      BY <3>1, <3>2
  <2>4. jt \in [SUBSET U -> Int]
    <3> HIDE DEF Onto
    <3>1. \A s \in SUBSET U : it[s] \in Int
      BY <2>1
    <3> QED
      BY <2>2, <2>3, <3>1
  <2>5. ASSUME NEW s \in SUBSET U, Cardinality(s) <= n + 1 PROVE jt[s] = Onto(jt, s)
    <3>1. jt[s] = Onto(it, s)
      <4>1. CASE Cardinality(s) <= n
        <5>1. it[s] = Onto(it, s)
          BY <2>1, <4>1
        <5> HIDE DEF Onto
        <5> QED
          BY <2>2, <4>1, <5>1
      <4>2. CASE ~(Cardinality(s) <= n)
        <5> HIDE DEF Onto
        <5> QED
          BY <2>2, <4>2
      <4> QED
        BY <4>1, <4>2
    <3>2. ASSUME s # {} PROVE jt[Rest(s)] = it[Rest(s)]
      <4>1. Rest(s) \in SUBSET U /\ Cardinality(Rest(s)) <= n
        BY <1>2, <1>3, <2>5, <3>2
      <4> HIDE DEF Rest, Onto
      <4> QED
        BY <2>2, <4>1
    <3> HIDE DEF Rest
    <3> QED
      BY <3>1, <3>2
  <2>6. Solves(n + 1, jt)
    BY <2>4, <2>5
  <2> HIDE DEF Solves
  <2> QED
    BY <1>1, <1>4, <1>6, <2>6
<1>7. N \in T
  BY <1>1, <1>5, <1>6, FromZero
<1>8. PICK it : Solves(N, it)
  BY <1>4, <1>7
<1>9. it \in [SUBSET U -> Int] /\ \A s \in SUBSET U : it[s] = Onto(it, s)
  BY <1>2, <1>8
<1> QED
  BY <1>9 DEF IsSum

LEMMA SumScaled ==
  ASSUME NEW U, IsFiniteSet(U), NEW f \in [U -> Int], NEW g \in [U -> Int],
         NEW m \in Int, \A x \in U : g[x] = m * f[x],
         NEW it, IsSum(f, U, it), NEW jt, IsSum(g, U, jt)
  PROVE  \A s \in SUBSET U : it[s] \in Int /\ jt[s] = m * it[s]
<1>1. PICK P : P = {s \in SUBSET U : it[s] \in Int /\ jt[s] = m * it[s]}
  OBVIOUS
<1>2. \A s \in SUBSET U :
        /\ it[s] = IF s = {} THEN 0 ELSE f[Picked(s)] + it[s \ {Picked(s)}]
        /\ jt[s] = IF s = {} THEN 0 ELSE g[Picked(s)] + jt[s \ {Picked(s)}]
  BY DEF IsSum
<1>3. {} \in P
  <2>1. {} \in SUBSET U
    OBVIOUS
  <2>2. it[{}] = 0 /\ jt[{}] = 0
    BY <1>2, <2>1, Zenon
  <2>3. m * 0 = 0
    OBVIOUS
  <2> QED
    BY <1>1, <2>1, <2>2, <2>3
<1>4. ASSUME NEW s \in SUBSET U, s # {}, s \ {Picked(s)} \in P PROVE s \in P
  <2>1. Picked(s) \in U
    BY <1>4 DEF Picked
  <2>2. PICK a \in Int, b \in Int : a = f[Picked(s)] /\ b = it[s \ {Picked(s)}]
    BY <1>1, <1>4, <2>1
  <2>3. g[Picked(s)] = m * a /\ jt[s \ {Picked(s)}] = m * b
    BY <1>1, <1>4, <2>1, <2>2
  <2>4. it[s] = a + b /\ jt[s] = m * a + m * b
    BY <1>2, <1>4, <2>2, <2>3
  <2>5. m * a + m * b = m * (a + b)
    OBVIOUS
  <2> QED
    BY <1>1, <2>4, <2>5
<1>5. \A s \in SUBSET U : s \in P
  BY <1>3, <1>4, SubsetByElement
<1> QED
  BY <1>1, <1>5
=============================================================================
