----------------------------- MODULE Induction -----------------------------
(***************************************************************************)
(* Induction and recursion over the numbers up to a bound, stated with     *)
(* sets and functions instead of operators, so that they can be cited.     *)
(***************************************************************************)
EXTENDS Integers, TLAPS, FiniteSetTheorems, WellFoundedInduction

\* A set of numbers that holds 0 and with k < n also k + 1 holds 0 .. n.  The
\* least initial segment 0 .. k whose end is missing would have k # 0 and a
\* shorter one before it.
LEMMA UpTo ==
    ASSUME NEW n \in Nat, NEW K, 0 \in K,
           \A k \in 0 .. (n - 1) : k \in K => k + 1 \in K
    PROVE  0 .. n \subseteq K
<1> SUFFICES ASSUME NEW b \in 0 .. n, b \notin K PROVE FALSE
  OBVIOUS
<1> DEFINE T == {0 .. k : k \in {j \in 0 .. n : j \notin K}}
           R == StrictSubsetOrdering(Nat)
<1>1. T \subseteq FiniteSubsetsOf(Nat)
  <2>1. ASSUME NEW k \in 0 .. n PROVE 0 .. k \in FiniteSubsetsOf(Nat)
    BY FS_Interval DEF FiniteSubsetsOf
  <2> QED BY <2>1
<1>2. T # {}
  OBVIOUS
<1>3. IsWellFoundedOn(R, FiniteSubsetsOf(Nat))
  BY FS_StrictSubsetOrderingWellFounded
<1> HIDE DEF T, R
<1>4. PICK x \in T : \A y \in T : ~ (<<y, x>> \in R)
  BY <1>1, <1>2, <1>3, WFMin
<1>5. PICK k \in 0 .. n : k \notin K /\ x = 0 .. k
  BY DEF T
<1>6. k # 0 /\ k - 1 \in 0 .. (n - 1)
  BY <1>5
<1>7. k - 1 \notin K
  BY <1>5, <1>6
<1>8. 0 .. (k - 1) \in T
  BY <1>6, <1>7 DEF T
<1>9. 0 .. (k - 1) \subseteq x /\ 0 .. (k - 1) # x
  <2>1. k \in 0 .. k /\ k \notin 0 .. (k - 1)
    BY <1>6
  <2> QED BY <1>5, <1>6, <2>1
<1>10. 0 .. (k - 1) \in SUBSET Nat /\ x \in SUBSET Nat
  BY <1>5
<1>11. <<0 .. (k - 1), x>> \in R
  BY <1>9, <1>10 DEF R, StrictSubsetOrdering
<1> QED BY <1>4, <1>8, <1>11

\* A nonempty set of numbers up to a bound has a least element.
LEMMA HasLeast ==
    ASSUME NEW n \in Nat, NEW S \in SUBSET (0 .. n), S # {}
    PROVE  \E x \in S : \A y \in S : x <= y
<1> SUFFICES ASSUME \A x \in S : \E y \in S : ~ (x <= y) PROVE FALSE
  OBVIOUS
<1> DEFINE K == {k \in 0 .. n : \A y \in S : k <= y}
<1>1. 0 \in K
  OBVIOUS
<1>2. ASSUME NEW k \in 0 .. (n - 1), k \in K PROVE k + 1 \in K
  <2>1. k \notin S
    BY <1>2
  <2> QED BY <1>2, <2>1
<1>3. n \in K
  <2> HIDE DEF K
  <2>1. 0 .. n \subseteq K
    BY <1>1, <1>2, UpTo
  <2> QED BY <2>1
<1>4. PICK y \in S : TRUE
  OBVIOUS
<1>5. \A x \in S : x = n
  BY <1>3
<1> QED BY <1>4, <1>5

\* And a greatest one.
LEMMA HasGreatest ==
    ASSUME NEW n \in Nat, NEW S \in SUBSET (0 .. n), S # {}
    PROVE  \E x \in S : \A y \in S : x >= y
<1> DEFINE T == {n - x : x \in S}
<1>1. T \in SUBSET (0 .. n) /\ T # {}
  <2>1. PICK x \in S : TRUE
    OBVIOUS
  <2>2. n - x \in T
    BY <2>1
  <2> QED BY <2>2
<1>2. \E t \in T : \A y \in T : t <= y
  <2> HIDE DEF T
  <2> QED BY <1>1, HasLeast
<1>3. PICK x \in S : \A y \in T : n - x <= y
  BY <1>2
<1>4. ASSUME NEW y \in S PROVE x >= y
  <2>1. n - y \in T
    OBVIOUS
  <2>2. n - x <= n - y
    BY <1>3, <2>1
  <2>3. x \in Int /\ y \in Int
    OBVIOUS
  <2> QED BY <2>2, <2>3
<1> QED BY <1>4

\* There is a function on 0 .. n that starts with b in V and makes each value
\* from the one before it as g says.
Recursive(n, V, b, g) ==
    \E f \in [0 .. n -> V] : f[0] = b /\ \A i \in 1 .. n : f[i] = g[i][f[i - 1]]

\* Such a function exists.
LEMMA Recursion ==
    ASSUME NEW n \in Nat, NEW V, NEW b \in V, NEW g \in [1 .. n -> [V -> V]]
    PROVE  Recursive(n, V, b, g)
<1> DEFINE Good(k, f) ==
               /\ f \in [0 .. k -> V]
               /\ f[0] = b
               /\ \A i \in 1 .. k : f[i] = g[i][f[i - 1]]
           K == {k \in 0 .. n : \E f \in [0 .. k -> V] : Good(k, f)}
<1>1. 0 \in K
  <2> DEFINE f == [i \in 0 .. 0 |-> b]
  <2>1. f \in [0 .. 0 -> V] /\ f[0] = b
    OBVIOUS
  <2>2. Good(0, f)
    BY <2>1
  <2> HIDE DEF Good, f
  <2> QED BY <2>1, <2>2
<1>2. ASSUME NEW k \in 0 .. (n - 1), k \in K PROVE k + 1 \in K
  <2>1. PICK f \in [0 .. k -> V] : Good(k, f)
    BY <1>2
  <2> DEFINE h == [i \in 0 .. (k + 1) |-> IF i = k + 1 THEN g[k + 1][f[k]] ELSE f[i]]
  <2>2. g[k + 1][f[k]] \in V
    BY <2>1
  <2>3. h \in [0 .. (k + 1) -> V]
    BY <2>1, <2>2
  <2>4. h[0] = b
    BY <2>1
  <2>5. ASSUME NEW i \in 1 .. (k + 1) PROVE h[i] = g[i][h[i - 1]]
    <3>1. h[i - 1] = f[i - 1]
      OBVIOUS
    <3>2. CASE i = k + 1
      <4>1. i - 1 = k /\ h[i] = g[k + 1][f[k]]
        BY <3>2
      <4> QED BY <3>1, <3>2, <4>1
    <3>3. CASE i \in 1 .. k
      BY <2>1, <3>1, <3>3
    <3> QED BY <3>2, <3>3
  <2>6. k + 1 \in 0 .. n
    OBVIOUS
  <2> HIDE DEF h
  <2>7. Good(k + 1, h)
    BY <2>3, <2>4, <2>5
  <2> HIDE DEF Good
  <2> QED BY <2>3, <2>6, <2>7
<1> HIDE DEF K
<1>3. n \in K
  <2>1. 0 .. n \subseteq K
    BY <1>1, <1>2, UpTo
  <2> QED BY <2>1
<1>4. PICK f \in [0 .. n -> V] : Good(n, f)
  <2> HIDE DEF Good
  <2> QED BY <1>3 DEF K
<1> QED BY <1>4 DEF Recursive

=============================================================================
