-------------------------- MODULE EdgeRangesProofs --------------------------
(***************************************************************************)
(* Proofs about the ranges of an edge.  With the bounds of every range in  *)
(* order each fold, and each collapse of a pair, makes of two ranges one   *)
(* that holds what both held.  One branch of optimizeRanges fills the gap  *)
(* between two ranges; it is harmless because the sort, whose order is no  *)
(* weak order, still leaves no gap that another range does not fill        *)
(* (Bridged).  The ranges of an edge of a DFA never overlap, so the sort   *)
(* orders them and the scan only joins neighbours that touch.              *)
(***************************************************************************)
EXTENDS EdgeRanges, Induction

-----------------------------------------------------------------------------
(* Numbers and lists. *)

\* Min is the least element of a set of numbers up to a bound.
LEMMA Least ==
    ASSUME NEW n \in Nat, NEW S \in SUBSET (0 .. n), S # {}
    PROVE  Min(S) \in S /\ \A y \in S : Min(S) <= y
<1>1. \E x : x \in S /\ \A y \in S : x =< y
  BY HasLeast
<1> QED BY <1>1 DEF Min

\* Max is the greatest one.
LEMMA Greatest ==
    ASSUME NEW n \in Nat, NEW S \in SUBSET (0 .. n), S # {}
    PROVE  Max(S) \in S /\ \A y \in S : y <= Max(S)
<1>1. \E x : x \in S /\ \A y \in S : x >= y
  BY HasGreatest
<1>2. Max(S) \in S /\ \A y \in S : Max(S) >= y
  BY <1>1 DEF Max
<1> QED BY <1>2

\* The list rs with v put in behind its first p elements.
Insertion(rs, v, p, new) ==
    /\ Len(new) = Len(rs) + 1
    /\ new[p + 1] = v
    /\ \A i \in 1 .. p : new[i] = rs[i]
    /\ \A i \in (p + 1) .. Len(rs) : new[i + 1] = rs[i]

\* The elements of a concatenation.
LEMMA Concatenation ==
    ASSUME NEW S, NEW a \in Seq(S), NEW b \in Seq(S)
    PROVE  /\ a \o b \in Seq(S) /\ Len(a \o b) = Len(a) + Len(b)
           /\ \A i \in 1 .. Len(a) : (a \o b)[i] = a[i]
           /\ \A i \in (Len(a) + 1) .. (Len(a) + Len(b)) : (a \o b)[i] = b[i - Len(a)]
  OBVIOUS

\* InsertAt puts an element in.
LEMMA InsertAtShape ==
    ASSUME NEW S, NEW rs \in Seq(S), NEW v \in S, NEW p \in 0 .. Len(rs)
    PROVE  /\ InsertAt(rs, p + 1, v) \in Seq(S)
           /\ Insertion(rs, v, p, InsertAt(rs, p + 1, v))
<1> DEFINE a == SubSeq(rs, 1, p)
           b == SubSeq(rs, p + 1, Len(rs))
<1>1. a \in Seq(S) /\ Len(a) = p /\ \A i \in 1 .. p : a[i] = rs[i]
  OBVIOUS
<1>2. b \in Seq(S) /\ Len(b) = Len(rs) - p /\ \A i \in 1 .. (Len(rs) - p) : b[i] = rs[p + i]
  OBVIOUS
<1>3. InsertAt(rs, p + 1, v) = (a \o <<v>>) \o b
  <2>1. (p + 1) - 1 = p
    OBVIOUS
  <2> QED BY <2>1 DEF InsertAt
<1> DEFINE c == a \o <<v>>
<1> HIDE DEF a, b
<1>4. c \in Seq(S) /\ Len(c) = p + 1 /\ c[p + 1] = v /\ \A i \in 1 .. p : c[i] = rs[i]
  BY <1>1
<1> HIDE DEF c
<1>5. InsertAt(rs, p + 1, v) = c \o b
  BY <1>3 DEF c
<1>6. /\ c \o b \in Seq(S) /\ Len(c \o b) = Len(rs) + 1
      /\ \A i \in 1 .. (p + 1) : (c \o b)[i] = c[i]
      /\ \A i \in (p + 2) .. (Len(rs) + 1) : (c \o b)[i] = b[i - (p + 1)]
  <2>1. /\ c \o b \in Seq(S) /\ Len(c \o b) = Len(c) + Len(b)
        /\ \A i \in 1 .. Len(c) : (c \o b)[i] = c[i]
        /\ \A i \in (Len(c) + 1) .. (Len(c) + Len(b)) : (c \o b)[i] = b[i - Len(c)]
    BY <1>2, <1>4, Concatenation
  <2>2. Len(c) + Len(b) = Len(rs) + 1 /\ Len(c) + 1 = p + 2 /\ Len(c) = p + 1
    BY <1>2, <1>4
  <2> QED BY <2>1, <2>2
<1>7. ASSUME NEW i \in (p + 1) .. Len(rs) PROVE (c \o b)[i + 1] = rs[i]
  <2>1. /\ i - p \in 1 .. (Len(rs) - p) /\ i + 1 \in (p + 2) .. (Len(rs) + 1)
        /\ (i + 1) - (p + 1) = i - p /\ p + (i - p) = i
    OBVIOUS
  <2>2. (c \o b)[i + 1] = b[i - p]
    BY <1>6, <2>1
  <2>3. b[i - p] = rs[p + (i - p)]
    BY <1>2, <2>1
  <2> QED BY <2>1, <2>2, <2>3
<1>8. p + 1 \in 1 .. (p + 1) /\ \A i \in 1 .. p : i \in 1 .. (p + 1)
  OBVIOUS
<1> QED BY <1>4, <1>5, <1>6, <1>7, <1>8 DEF Insertion

\* RemoveAt takes one out.
LEMMA RemoveAtShape ==
    ASSUME NEW S, NEW rs \in Seq(S), NEW p \in 1 .. Len(rs)
    PROVE  /\ RemoveAt(rs, p) \in Seq(S)
           /\ Len(RemoveAt(rs, p)) = Len(rs) - 1
           /\ \A i \in 1 .. (p - 1) : RemoveAt(rs, p)[i] = rs[i]
           /\ \A i \in p .. (Len(rs) - 1) : RemoveAt(rs, p)[i] = rs[i + 1]
<1> DEFINE a == SubSeq(rs, 1, p - 1)
           b == SubSeq(rs, p + 1, Len(rs))
<1>1. a \in Seq(S) /\ Len(a) = p - 1 /\ \A i \in 1 .. (p - 1) : a[i] = rs[i]
  OBVIOUS
<1>2. b \in Seq(S) /\ Len(b) = Len(rs) - p /\ \A i \in 1 .. (Len(rs) - p) : b[i] = rs[p + i]
  OBVIOUS
<1>3. RemoveAt(rs, p) = a \o b
  BY DEF RemoveAt
<1> HIDE DEF a, b
<1>4. /\ a \o b \in Seq(S) /\ Len(a \o b) = Len(rs) - 1
      /\ \A i \in 1 .. (p - 1) : (a \o b)[i] = a[i]
      /\ \A i \in p .. (Len(rs) - 1) : (a \o b)[i] = b[i - (p - 1)]
  <2>1. /\ a \o b \in Seq(S) /\ Len(a \o b) = Len(a) + Len(b)
        /\ \A i \in 1 .. Len(a) : (a \o b)[i] = a[i]
        /\ \A i \in (Len(a) + 1) .. (Len(a) + Len(b)) : (a \o b)[i] = b[i - Len(a)]
    BY <1>1, <1>2, Concatenation
  <2>2. Len(a) + Len(b) = Len(rs) - 1 /\ Len(a) + 1 = p /\ Len(a) = p - 1
    BY <1>1, <1>2
  <2> QED BY <2>1, <2>2
<1>5. ASSUME NEW i \in p .. (Len(rs) - 1) PROVE (a \o b)[i] = rs[i + 1]
  <2>1. i - (p - 1) \in 1 .. (Len(rs) - p) /\ p + (i - (p - 1)) = i + 1
    OBVIOUS
  <2>2. b[i - (p - 1)] = rs[p + (i - (p - 1))]
    BY <1>2, <2>1
  <2> QED BY <1>4, <2>1, <2>2
<1> QED BY <1>1, <1>3, <1>4, <1>5

-----------------------------------------------------------------------------
(* Chars and ranges. *)

Char == MinChar .. MaxChar
Rng == [lo : Char, hi : Char]
Within(c, r) == r.lo <= c /\ c <= r.hi
Proper(rs) == \A i \in DOMAIN rs : rs[i].lo <= rs[i].hi

\* MinChar and MaxChar are integers of either sign.
LEMMA CharInt == MinChar \in Int /\ MinChar < 0 /\ MaxChar \in Nat /\ Char \subseteq Int
  BY BoundsAssumption DEF MinChar, Char

\* What one range folded into another is: it holds what both held, if their
\* bounds are in order.
LEMMA FoldedHolds ==
    ASSUME NEW n \in Rng, NEW r \in Rng
    PROVE  /\ Folded(n, r) \in Rng
           /\ n.lo <= n.hi /\ r.lo <= r.hi /\ CanFold(n, r) =>
                  /\ Folded(n, r).lo <= Folded(n, r).hi
                  /\ \A c \in Int : Within(c, Folded(n, r)) <=> Within(c, n) \/ Within(c, r)
<1>1. n.lo \in Int /\ n.hi \in Int /\ r.lo \in Int /\ r.hi \in Int
  BY CharInt DEF Rng
<1>2. Folded(n, r) \in Rng
  BY DEF Folded, Rng, Join
<1>3. CASE Inside(n, r)
  BY <1>1, <1>2, <1>3 DEF Folded, Within, Inside
<1>4. CASE ~Inside(n, r) /\ EndsBefore(n, r)
  BY <1>1, <1>2, <1>4 DEF Folded, Within, EndsBefore, Inside, Join
<1>5. CASE ~Inside(n, r) /\ ~EndsBefore(n, r) /\ StartsAfter(n, r)
  BY <1>1, <1>2, <1>5 DEF Folded, Within, StartsAfter, Inside, Join
<1>6. CASE /\ ~Inside(n, r) /\ ~EndsBefore(n, r) /\ ~StartsAfter(n, r)
           /\ OverlapsLow(n, r)
  BY <1>1, <1>2, <1>6 DEF Folded, Within, OverlapsLow, Inside, Join
<1>7. CASE /\ ~Inside(n, r) /\ ~EndsBefore(n, r) /\ ~StartsAfter(n, r)
           /\ ~OverlapsLow(n, r) /\ OverlapsHigh(n, r)
  BY <1>1, <1>2, <1>7 DEF Folded, Within, OverlapsHigh, Inside, Join
<1>8. CASE /\ ~Inside(n, r) /\ ~EndsBefore(n, r) /\ ~StartsAfter(n, r)
           /\ ~OverlapsLow(n, r) /\ ~OverlapsHigh(n, r)
  BY <1>1, <1>2, <1>8 DEF Folded, Within, Covers, CanFold
<1> QED BY <1>3, <1>4, <1>5, <1>6, <1>7, <1>8

\* Holds, range by range.
LEMMA HoldsWithin ==
    ASSUME NEW rs, NEW c PROVE Holds(rs, c) <=> \E i \in DOMAIN rs : Within(c, rs[i])
  BY DEF Holds, Within

\* addRange adds the characters of the range to those of the edge.
LEMMA WithRangeHolds ==
    ASSUME NEW rs \in Seq(Rng), NEW n \in Rng
    PROVE  /\ WithRange(rs, n) \in Seq(Rng)
           /\ Proper(rs) /\ n.lo <= n.hi =>
                  /\ Proper(WithRange(rs, n))
                  /\ \A c \in Int : Holds(WithRange(rs, n), c) <=> Holds(rs, c) \/ Within(c, n)
<1> DEFINE hits == {i \in DOMAIN rs : CanFold(n, rs[i])}
           i == Min(hits)
<1>1. CASE hits = {}
  <2>1. WithRange(rs, n) = Append(rs, n)
    BY <1>1 DEF WithRange
  <2>2. /\ Append(rs, n) \in Seq(Rng) /\ DOMAIN Append(rs, n) = 1 .. (Len(rs) + 1)
        /\ DOMAIN rs = 1 .. Len(rs)
        /\ Append(rs, n)[Len(rs) + 1] = n
        /\ \A j \in 1 .. Len(rs) : Append(rs, n)[j] = rs[j]
    OBVIOUS
  <2>3. ASSUME NEW c \in Int
        PROVE  Holds(Append(rs, n), c) <=> Holds(rs, c) \/ Within(c, n)
    <3> HIDE DEF hits
    <3>1. ASSUME NEW j \in DOMAIN rs, Within(c, rs[j])
          PROVE  \E k \in DOMAIN Append(rs, n) : Within(c, Append(rs, n)[k])
      BY <2>2, <3>1
    <3>2. ASSUME Within(c, n)
          PROVE  \E k \in DOMAIN Append(rs, n) : Within(c, Append(rs, n)[k])
      BY <2>2, <3>2
    <3>3. ASSUME NEW j \in DOMAIN Append(rs, n), Within(c, Append(rs, n)[j])
          PROVE  Within(c, n) \/ \E k \in DOMAIN rs : Within(c, rs[k])
      BY <2>2, <3>3
    <3> QED BY <3>1, <3>2, <3>3, HoldsWithin
  <2>4. Proper(rs) /\ n.lo <= n.hi => Proper(Append(rs, n))
    BY <2>2 DEF Proper
  <2> QED BY <2>1, <2>2, <2>3, <2>4
<1>2. CASE hits # {}
  <2>1. DOMAIN rs = 1 .. Len(rs) /\ Len(rs) \in Nat
    OBVIOUS
  <2>2. i \in DOMAIN rs /\ CanFold(n, rs[i])
    <3>1. hits \in SUBSET (0 .. Len(rs))
      BY <2>1
    <3>2. i \in hits
      <4> HIDE DEF hits
      <4> QED BY <1>2, <2>1, <3>1, Least
    <3> QED BY <3>2
  <2> DEFINE f == Folded(n, rs[i])
             new == [rs EXCEPT ![i] = f]
  <2>3. WithRange(rs, n) = new
    BY <1>2 DEF WithRange
  <2>4. rs[i] \in Rng /\ f \in Rng
    BY <2>2, FoldedHolds
  <2>5. new \in Seq(Rng)
    BY <2>2, <2>4
  <2>6. DOMAIN new = DOMAIN rs /\ new[i] = f /\ \A j \in DOMAIN rs : j # i => new[j] = rs[j]
    BY <2>2
  <2>7. ASSUME Proper(rs), n.lo <= n.hi
        PROVE  f.lo <= f.hi /\ \A c \in Int : Within(c, f) <=> Within(c, n) \/ Within(c, rs[i])
    BY <2>2, <2>4, <2>7, FoldedHolds DEF Proper
  <2> HIDE DEF new, f, i, hits
  <2>8. ASSUME Proper(rs), n.lo <= n.hi PROVE Proper(new)
    BY <2>6, <2>7, <2>8 DEF Proper
  <2>9. ASSUME Proper(rs), n.lo <= n.hi, NEW c \in Int
        PROVE  Holds(new, c) <=> Holds(rs, c) \/ Within(c, n)
    <3>1. ASSUME NEW j \in DOMAIN rs, Within(c, rs[j]) PROVE \E k \in DOMAIN new : Within(c, new[k])
      BY <2>2, <2>6, <2>7, <2>9, <3>1
    <3>2. ASSUME Within(c, n) PROVE \E k \in DOMAIN new : Within(c, new[k])
      BY <2>2, <2>6, <2>7, <2>9, <3>2
    <3>3. ASSUME NEW j \in DOMAIN new, Within(c, new[j])
          PROVE  Within(c, n) \/ \E k \in DOMAIN rs : Within(c, rs[k])
      BY <2>2, <2>6, <2>7, <2>9, <3>3
    <3> QED BY <3>1, <3>2, <3>3, HoldsWithin
  <2> QED BY <2>3, <2>5, <2>8, <2>9
<1> QED BY <1>1, <1>2

\* No two ranges of the list hold a common character.
Apart(rs) ==
    \A i, j \in DOMAIN rs : i # j => rs[i].hi < rs[j].lo \/ rs[j].hi < rs[i].lo

\* A range of characters the edge does not hold keeps its ranges apart.
LEMMA WithRangeApart ==
    ASSUME NEW rs \in Seq(Rng), NEW n \in Rng, Proper(rs), n.lo <= n.hi, Apart(rs),
           \A c \in Int : Within(c, n) => ~ Holds(rs, c)
    PROVE  Apart(WithRange(rs, n))
<1> DEFINE hits == {i \in DOMAIN rs : CanFold(n, rs[i])}
           p == Min(hits)
<1>1. \A i \in DOMAIN rs :
          /\ rs[i] \in Rng /\ rs[i].lo <= rs[i].hi
          /\ rs[i].lo \in Int /\ rs[i].hi \in Int
  <2>1. ASSUME NEW i \in DOMAIN rs PROVE rs[i] \in Rng
    OBVIOUS
  <2> QED BY <2>1, CharInt DEF Proper, Rng
<1>2. n.lo \in Int /\ n.hi \in Int
  BY CharInt DEF Rng
<1>3. ASSUME NEW i \in DOMAIN rs PROVE n.hi < rs[i].lo \/ rs[i].hi < n.lo
  <2>1. ~ Within(n.lo, rs[i]) /\ ~ Within(n.hi, rs[i]) /\ ~ (Within(rs[i].lo, n) /\ Within(rs[i].lo, rs[i]))
    BY <1>1, <1>2, HoldsWithin DEF Within
  <2> QED BY <1>1, <1>2, <2>1 DEF Within
<1>4. CASE hits = {}
  <2>1. WithRange(rs, n) = Append(rs, n)
    BY <1>4 DEF WithRange
  <2>2. /\ DOMAIN Append(rs, n) = 1 .. (Len(rs) + 1)
        /\ DOMAIN rs = 1 .. Len(rs)
        /\ Append(rs, n)[Len(rs) + 1] = n
        /\ \A j \in 1 .. Len(rs) : Append(rs, n)[j] = rs[j]
    OBVIOUS
  <2> QED BY <1>3, <2>1, <2>2 DEF Apart
<1>5. CASE hits # {}
  <2>1. p \in DOMAIN rs /\ CanFold(n, rs[p])
    <3>1. hits \in SUBSET (0 .. Len(rs)) /\ Len(rs) \in Nat
      OBVIOUS
    <3>2. p \in hits
      <4> HIDE DEF hits
      <4> QED BY <1>5, <3>1, Least
    <3> QED BY <3>2
  <2> DEFINE f == Folded(n, rs[p])
             new == [rs EXCEPT ![p] = f]
  <2>2. WithRange(rs, n) = new
    BY <1>5 DEF WithRange
  <2>3. /\ f \in Rng /\ f.lo <= f.hi
        /\ \A c \in Int : Within(c, f) <=> Within(c, n) \/ Within(c, rs[p])
    BY <1>1, <2>1, FoldedHolds
  <2>4. DOMAIN new = DOMAIN rs /\ new[p] = f /\ \A j \in DOMAIN rs : j # p => new[j] = rs[j]
    BY <2>1
  <2>5. f.lo \in Int /\ f.hi \in Int
    BY <2>3, CharInt DEF Rng
  <2> HIDE DEF f, new, p, hits
  <2>6. ASSUME NEW j \in DOMAIN rs, j # p PROVE f.hi < rs[j].lo \/ rs[j].hi < f.lo
    <3>1. \A c \in Int : Within(c, f) => ~ Within(c, rs[j])
      <4>1. rs[p].hi < rs[j].lo \/ rs[j].hi < rs[p].lo
        BY <2>1, <2>6 DEF Apart
      <4>2. \A c \in Int : Within(c, rs[p]) => ~ Within(c, rs[j])
        BY <1>1, <2>1, <4>1 DEF Within
      <4>3. \A c \in Int : Within(c, n) => ~ Within(c, rs[j])
        BY <1>1, <1>2, <1>3 DEF Within
      <4> QED BY <2>3, <4>2, <4>3
    <3>2. ~ Within(f.lo, rs[j]) /\ ~ Within(f.hi, rs[j])
          /\ ~ (Within(rs[j].lo, f) /\ Within(rs[j].lo, rs[j]))
      BY <1>1, <2>3, <2>5, <3>1 DEF Within
    <3> QED BY <1>1, <2>5, <3>2 DEF Within
  <2>7. Apart(new)
    BY <2>4, <2>6 DEF Apart
  <2> QED BY <2>2, <2>7
<1> QED BY <1>4, <1>5

\* The recursive function of AddAll is one.
LEMMA AddAllRec ==
    ASSUME NEW rs \in Seq(Rng)
    PROVE  \E f \in [0 .. Len(rs) -> Seq(Rng)] :
               /\ AddAll(rs) = f[Len(rs)]
               /\ f[0] = <<>>
               /\ \A i \in 1 .. Len(rs) : f[i] = WithRange(f[i - 1], rs[i])
<1> DEFINE n == Len(rs)
           V == Seq(Rng)
           g == [i \in 1 .. n |-> [x \in V |-> WithRange(x, rs[i])]]
           Good(f) == f = [i \in 0 .. n |-> IF i = 0 THEN <<>> ELSE WithRange(f[i - 1], rs[i])]
           F == CHOOSE f : Good(f)
<1>1. n \in Nat /\ <<>> \in V
  OBVIOUS
<1>2. g \in [1 .. n -> [V -> V]]
  <2>1. \A i \in 1 .. n : rs[i] \in Rng
    OBVIOUS
  <2> QED BY <2>1, WithRangeHolds
<1>3. AddAll(rs) = F[n]
  BY DEF AddAll
<1>4. Recursive(n, V, <<>>, g)
  <2> HIDE DEF n, V, g
  <2> QED BY <1>1, <1>2, Recursion
<1>5. PICK f \in [0 .. n -> V] : f[0] = <<>> /\ \A i \in 1 .. n : f[i] = g[i][f[i - 1]]
  BY <1>4 DEF Recursive
<1>6. ASSUME NEW i \in 1 .. n PROVE g[i][f[i - 1]] = WithRange(f[i - 1], rs[i])
  <2>1. f[i - 1] \in V
    OBVIOUS
  <2> QED BY <2>1
<1>7. \A i \in 1 .. n : f[i] = WithRange(f[i - 1], rs[i])
  <2> HIDE DEF g, V
  <2> QED BY <1>5, <1>6
<1>8. f[0] = <<>>
  BY <1>1, <1>5
<1>9. Good(f)
  <2>1. DOMAIN f = 0 .. n /\ f = [i \in 0 .. n |-> f[i]]
    OBVIOUS
  <2> HIDE DEF g, V, n
  <2>2. \A i \in 0 .. n : f[i] = IF i = 0 THEN <<>> ELSE WithRange(f[i - 1], rs[i])
    BY <1>1, <1>7, <1>8
  <2> QED BY <2>1, <2>2
<1>10. Good(F)
  <2> HIDE DEF Good
  <2> QED BY <1>9
<1>11. F = [i \in 0 .. n |-> IF i = 0 THEN <<>> ELSE WithRange(F[i - 1], rs[i])]
  BY <1>10
<1>12. \A k \in 0 .. n : F[k] = f[k]
  <2> DEFINE K == {k \in 0 .. n : F[k] = f[k]}
  <2> HIDE DEF F, g, V, n
  <2>1. 0 \in K
    BY <1>1, <1>8, <1>11
  <2>2. ASSUME NEW k \in 0 .. (n - 1), k \in K PROVE k + 1 \in K
    <3>1. k + 1 \in 1 .. n /\ (k + 1) - 1 = k
      BY <1>1
    <3>2. F[k + 1] = WithRange(F[k], rs[k + 1])
      BY <1>1, <1>11, <3>1
    <3>3. f[k + 1] = WithRange(f[k], rs[k + 1])
      BY <1>7, <3>1
    <3> QED BY <2>2, <3>1, <3>2, <3>3
  <2> HIDE DEF K
  <2>3. 0 .. n \subseteq K
    BY <1>1, <2>1, <2>2, UpTo
  <2> QED BY <2>3 DEF K
<1> HIDE DEF F, g
<1>13. AddAll(rs) = f[n]
  BY <1>1, <1>3, <1>12
<1> QED BY <1>7, <1>8, <1>13

\* addRange of each range of a list makes an edge with their characters.
LEMMA AddAllHolds ==
    ASSUME NEW rs \in Seq(Rng)
    PROVE  /\ AddAll(rs) \in Seq(Rng)
           /\ Proper(rs) =>
                  /\ Proper(AddAll(rs))
                  /\ \A c \in Int : Holds(AddAll(rs), c) <=> Holds(rs, c)
<1> DEFINE n == Len(rs)
<1>1. PICK f \in [0 .. n -> Seq(Rng)] :
          /\ AddAll(rs) = f[n]
          /\ f[0] = <<>>
          /\ \A i \in 1 .. n : f[i] = WithRange(f[i - 1], rs[i])
  BY AddAllRec
<1>2. n \in Nat /\ DOMAIN rs = 1 .. n
  OBVIOUS
<1> DEFINE K == {k \in 0 .. n :
                    /\ Proper(f[k])
                    /\ \A c \in Int : Holds(f[k], c) <=> \E i \in 1 .. k : Within(c, rs[i])}
<1>3. ASSUME Proper(rs) PROVE n \in K
  <2>1. 0 \in K
    <3>1. DOMAIN f[0] = {}
      BY <1>1
    <3> QED BY <1>2, <3>1, HoldsWithin DEF Proper
  <2>2. ASSUME NEW k \in 0 .. (n - 1), k \in K PROVE k + 1 \in K
    <3>1. k + 1 \in 1 .. n /\ (k + 1) - 1 = k /\ k \in 0 .. n
      BY <1>2
    <3>2. f[k + 1] = WithRange(f[k], rs[k + 1]) /\ f[k] \in Seq(Rng) /\ rs[k + 1] \in Rng
      <4>1. rs[k + 1] \in Rng
        BY <1>2, <3>1
      <4> QED BY <1>1, <3>1, <4>1
    <3>3. Proper(f[k]) /\ rs[k + 1].lo <= rs[k + 1].hi
      BY <1>2, <1>3, <2>2, <3>1 DEF Proper
    <3>4. /\ Proper(f[k + 1])
          /\ \A c \in Int : Holds(f[k + 1], c) <=> Holds(f[k], c) \/ Within(c, rs[k + 1])
      <4> DEFINE fk == f[k]
                 r == rs[k + 1]
      <4>1. fk \in Seq(Rng) /\ r \in Rng /\ Proper(fk) /\ r.lo <= r.hi /\ f[k + 1] = WithRange(fk, r)
        BY <3>2, <3>3
      <4> HIDE DEF fk, r
      <4>2. /\ Proper(WithRange(fk, r))
            /\ \A c \in Int : Holds(WithRange(fk, r), c) <=> Holds(fk, c) \/ Within(c, r)
        BY <4>1, WithRangeHolds
      <4> QED BY <4>1, <4>2 DEF fk, r
    <3>5. ASSUME NEW c \in Int
          PROVE  Holds(f[k + 1], c) <=> \E i \in 1 .. (k + 1) : Within(c, rs[i])
      <4>1. Holds(f[k], c) <=> \E i \in 1 .. k : Within(c, rs[i])
        BY <2>2
      <4>2. \A i \in 1 .. (k + 1) : i \in 1 .. k \/ i = k + 1
        BY <3>1
      <4>3. \A i \in 1 .. k : i \in 1 .. (k + 1)
        BY <3>1
      <4>4. k + 1 \in 1 .. (k + 1)
        BY <3>1
      <4> QED BY <3>4, <4>1, <4>2, <4>3, <4>4
    <3> QED BY <1>2, <3>1, <3>4, <3>5
  <2> HIDE DEF K, n
  <2>3. 0 .. n \subseteq K
    BY <1>2, <2>1, <2>2, UpTo
  <2> QED BY <1>2, <2>3
<1>4. AddAll(rs) \in Seq(Rng)
  BY <1>1, <1>2
<1> QED BY <1>1, <1>2, <1>3, <1>4, HoldsWithin

-----------------------------------------------------------------------------
(* Sorting. *)

\* Where an element goes: to the front when it is before the first one, else
\* behind the last one it is not before.
LEMMA SortInsertShape ==
    ASSUME NEW rs \in Seq(Rng), NEW v \in Rng
    PROVE  /\ SortInsert(rs, v) \in Seq(Rng)
           /\ \E p \in 0 .. Len(rs) :
                  /\ Insertion(rs, v, p, SortInsert(rs, v))
                  /\ \/ p = 0 /\ Len(rs) > 0 /\ Before(v, rs[1])
                     \/ /\ p > 0 => ~ Before(v, rs[p])
                        /\ \A i \in (p + 1) .. Len(rs) : Before(v, rs[i])
<1>1. Len(rs) \in Nat /\ DOMAIN rs = 1 .. Len(rs) /\ (rs # <<>> <=> Len(rs) > 0)
  OBVIOUS
<1>2. CASE rs # <<>> /\ Before(v, rs[1])
  <2>1. SortInsert(rs, v) = <<v>> \o rs
    BY <1>2 DEF SortInsert
  <2>2. /\ <<v>> \o rs \in Seq(Rng) /\ Len(<<v>> \o rs) = Len(rs) + 1
        /\ (<<v>> \o rs)[1] = v
        /\ \A i \in 1 .. Len(rs) : (<<v>> \o rs)[i + 1] = rs[i]
    OBVIOUS
  <2>3. Insertion(rs, v, 0, <<v>> \o rs)
    BY <1>1, <2>2 DEF Insertion
  <2>4. 0 \in 0 .. Len(rs)
    BY <1>1
  <2> QED BY <1>1, <1>2, <2>1, <2>2, <2>3, <2>4
<1>3. CASE ~ (rs # <<>> /\ Before(v, rs[1]))
  <2> DEFINE S == {0} \cup {i \in DOMAIN rs : ~ Before(v, rs[i])}
             p == Max(S)
  <2>1. SortInsert(rs, v) = InsertAt(rs, p + 1, v)
    BY <1>3 DEF SortInsert
  <2>2. S \in SUBSET (0 .. Len(rs)) /\ S # {}
    BY <1>1
  <2>3. p \in S /\ \A i \in S : i <= p
    <3> HIDE DEF S
    <3> QED BY <1>1, <2>2, Greatest
  <2>4. p \in 0 .. Len(rs) /\ (p > 0 => ~ Before(v, rs[p]))
    BY <1>1, <2>2, <2>3
  <2>5. ASSUME NEW i \in (p + 1) .. Len(rs) PROVE Before(v, rs[i])
    <3>1. i \notin S /\ i \in DOMAIN rs
      BY <1>1, <2>3, <2>4
    <3> QED BY <3>1
  <2> HIDE DEF p, S
  <2>6. /\ InsertAt(rs, p + 1, v) \in Seq(Rng)
        /\ Insertion(rs, v, p, InsertAt(rs, p + 1, v))
    BY <2>4, InsertAtShape
  <2> QED BY <2>1, <2>4, <2>5, <2>6
<1> QED BY <1>2, <1>3

\* The elements after an insertion are those before it and the new one.
LEMMA InsertionElements ==
    ASSUME NEW rs \in Seq(Rng), NEW v \in Rng, NEW p \in 0 .. Len(rs), NEW new \in Seq(Rng),
           Insertion(rs, v, p, new)
    PROVE  /\ \A i \in DOMAIN new :
                  \/ i \in 1 .. p /\ i \in DOMAIN rs /\ new[i] = rs[i]
                  \/ i = p + 1 /\ new[i] = v
                  \/ i - 1 \in (p + 1) .. Len(rs) /\ i - 1 \in DOMAIN rs /\ new[i] = rs[i - 1]
           /\ p + 1 \in DOMAIN new /\ new[p + 1] = v
           /\ \A i \in DOMAIN rs : \E j \in DOMAIN new : new[j] = rs[i]
<1>1. Len(rs) \in Nat /\ DOMAIN rs = 1 .. Len(rs) /\ DOMAIN new = 1 .. (Len(rs) + 1)
  BY DEF Insertion
<1>2. ASSUME NEW i \in DOMAIN new
      PROVE  \/ i \in 1 .. p /\ i \in DOMAIN rs /\ new[i] = rs[i]
             \/ i = p + 1 /\ new[i] = v
             \/ i - 1 \in (p + 1) .. Len(rs) /\ i - 1 \in DOMAIN rs /\ new[i] = rs[i - 1]
  <2>1. CASE i \in 1 .. p
    BY <1>1, <2>1 DEF Insertion
  <2>2. CASE i = p + 1
    BY <2>2 DEF Insertion
  <2>3. CASE i > p + 1
    <3>1. i - 1 \in (p + 1) .. Len(rs) /\ i - 1 \in DOMAIN rs /\ (i - 1) + 1 = i
      BY <1>1, <2>3
    <3>2. new[(i - 1) + 1] = rs[i - 1]
      BY <3>1 DEF Insertion
    <3> QED BY <3>1, <3>2
  <2> QED BY <1>1, <2>1, <2>2, <2>3
<1>3. ASSUME NEW i \in DOMAIN rs PROVE \E j \in DOMAIN new : new[j] = rs[i]
  <2>1. CASE i \in 1 .. p
    BY <1>1, <2>1 DEF Insertion
  <2>2. CASE i \in (p + 1) .. Len(rs)
    <3>1. i + 1 \in DOMAIN new /\ new[i + 1] = rs[i]
      BY <1>1, <2>2 DEF Insertion
    <3> QED BY <3>1
  <2> QED BY <1>1, <2>1, <2>2
<1>4. p + 1 \in DOMAIN new /\ new[p + 1] = v
  BY <1>1 DEF Insertion
<1> QED BY <1>2, <1>3, <1>4

\* Between a range and one behind it that ends earlier, every character is in
\* some range.
Bridged(rs) ==
    \A i, j \in DOMAIN rs : i < j =>
        \A c \in Int : rs[j].hi < c /\ c < rs[i].lo => Holds(rs, c)

\* Each range ends before the next ones begin.
Ascending(rs) == \A i, j \in DOMAIN rs : i < j => rs[i].hi < rs[j].lo

\* The bounds of a list of ranges.
LEMMA Bounds ==
    ASSUME NEW rs \in Seq(Rng), NEW i \in DOMAIN rs
    PROVE  /\ rs[i] \in Rng /\ rs[i].lo \in Int /\ rs[i].hi \in Int
           /\ rs[i].lo \in Char /\ rs[i].hi \in Char /\ i \in Nat \ {0}
<1>1. rs[i] \in Rng /\ i \in Nat \ {0}
  OBVIOUS
<1> QED BY <1>1, CharInt DEF Rng

\* An element sorted in leaves no gap behind it, although the order is none
\* for ranges that overlap.
LEMMA SortInsertBridged ==
    ASSUME NEW rs \in Seq(Rng), NEW v \in Rng, Proper(rs), v.lo <= v.hi, Bridged(rs)
    PROVE  Bridged(SortInsert(rs, v))
<1> DEFINE new == SortInsert(rs, v)
<1>1. new \in Seq(Rng)
  BY SortInsertShape
<1>2. PICK p \in 0 .. Len(rs) :
          /\ Insertion(rs, v, p, new)
          /\ \/ p = 0 /\ Len(rs) > 0 /\ Before(v, rs[1])
             \/ /\ p > 0 => ~ Before(v, rs[p])
                /\ \A i \in (p + 1) .. Len(rs) : Before(v, rs[i])
  BY SortInsertShape
<1> HIDE DEF new
<1>3. /\ \A i \in DOMAIN new :
             \/ i \in 1 .. p /\ i \in DOMAIN rs /\ new[i] = rs[i]
             \/ i = p + 1 /\ new[i] = v
             \/ i - 1 \in (p + 1) .. Len(rs) /\ i - 1 \in DOMAIN rs /\ new[i] = rs[i - 1]
      /\ \A i \in DOMAIN rs : \E j \in DOMAIN new : new[j] = rs[i]
  BY <1>1, <1>2, InsertionElements
<1>4. \A c : Holds(rs, c) => Holds(new, c)
  BY <1>3, HoldsWithin
<1>5. Len(rs) \in Nat /\ DOMAIN rs = 1 .. Len(rs) /\ v.lo \in Int /\ v.hi \in Int
  <2>1. Len(rs) \in Nat /\ DOMAIN rs = 1 .. Len(rs)
    OBVIOUS
  <2> QED BY <2>1, CharInt DEF Rng
<1>6. \A i \in DOMAIN rs : rs[i].lo \in Int /\ rs[i].hi \in Int /\ rs[i].lo <= rs[i].hi
  BY Bounds DEF Proper
<1>7. ASSUME NEW i \in 1 .. p, NEW c \in Int, v.hi < c, c < rs[i].lo PROVE Holds(rs, c)
  <2>1. ~ Before(v, rs[p]) /\ p \in DOMAIN rs /\ i \in DOMAIN rs
    BY <1>2, <1>5
  <2>2. rs[p].lo < c
    BY <1>5, <1>6, <1>7, <2>1 DEF Before
  <2>3. CASE c <= rs[p].hi
    BY <1>6, <2>1, <2>2, <2>3 DEF Holds
  <2>4. CASE rs[p].hi < c /\ i < p
    BY <1>7, <2>1, <2>4 DEF Bridged
  <2>5. i = p => FALSE
    BY <1>6, <1>7, <2>1, <2>2
  <2> QED BY <1>6, <2>1, <2>3, <2>4, <2>5
<1>8. ASSUME NEW j \in (p + 1) .. Len(rs), NEW c \in Int, rs[j].hi < c, c < v.lo PROVE Holds(rs, c)
  <2>1. j \in DOMAIN rs /\ ~ Before(v, rs[j])
    BY <1>5, <1>6, <1>8 DEF Before
  <2>2. p = 0 /\ Before(v, rs[1]) /\ 1 \in DOMAIN rs
    BY <1>2, <1>5, <2>1
  <2>3. c < rs[1].lo /\ 1 < j
    BY <1>5, <1>6, <1>8, <2>1, <2>2 DEF Before
  <2> QED BY <1>8, <2>1, <2>2, <2>3 DEF Bridged
<1>9. ASSUME NEW i \in DOMAIN new, NEW j \in DOMAIN new, i < j,
             NEW c \in Int, new[j].hi < c, c < new[i].lo
      PROVE  Holds(rs, c)
  <2>1. i \in Int /\ j \in Int
    BY <1>1
  <2>2. CASE i \in 1 .. p /\ new[i] = rs[i] /\ j \in 1 .. p /\ new[j] = rs[j]
    BY <1>3, <1>5, <1>9, <2>2 DEF Bridged
  <2>3. CASE i \in 1 .. p /\ new[i] = rs[i] /\ j = p + 1 /\ new[j] = v
    BY <1>7, <1>9, <2>3
  <2>4. CASE /\ i \in 1 .. p /\ new[i] = rs[i]
             /\ j - 1 \in (p + 1) .. Len(rs) /\ new[j] = rs[j - 1]
    <3>1. i \in DOMAIN rs /\ j - 1 \in DOMAIN rs /\ i < j - 1
      BY <1>5, <2>1, <2>4
    <3> QED BY <1>9, <2>4, <3>1 DEF Bridged
  <2>5. CASE /\ i = p + 1 /\ new[i] = v
             /\ j - 1 \in (p + 1) .. Len(rs) /\ new[j] = rs[j - 1]
    BY <1>8, <1>9, <2>5
  <2>6. CASE /\ i - 1 \in (p + 1) .. Len(rs) /\ new[i] = rs[i - 1]
             /\ j - 1 \in (p + 1) .. Len(rs) /\ new[j] = rs[j - 1]
    <3>1. i - 1 \in DOMAIN rs /\ j - 1 \in DOMAIN rs /\ i - 1 < j - 1
      BY <1>5, <1>9, <2>1, <2>6
    <3> QED BY <1>9, <2>6, <3>1 DEF Bridged
  <2> QED BY <1>3, <1>9, <2>1, <2>2, <2>3, <2>4, <2>5, <2>6
<1>10. Bridged(new)
  BY <1>4, <1>9 DEF Bridged
<1> QED BY <1>10 DEF new

\* Into ranges that are in order and apart from it, an element is sorted in
\* order.
LEMMA SortInsertAscending ==
    ASSUME NEW rs \in Seq(Rng), NEW v \in Rng, Proper(rs), v.lo <= v.hi, Ascending(rs),
           \A i \in DOMAIN rs : v.hi < rs[i].lo \/ rs[i].hi < v.lo
    PROVE  Ascending(SortInsert(rs, v))
<1> DEFINE new == SortInsert(rs, v)
<1>1. new \in Seq(Rng)
  BY SortInsertShape
<1>2. PICK p \in 0 .. Len(rs) :
          /\ Insertion(rs, v, p, new)
          /\ \/ p = 0 /\ Len(rs) > 0 /\ Before(v, rs[1])
             \/ /\ p > 0 => ~ Before(v, rs[p])
                /\ \A i \in (p + 1) .. Len(rs) : Before(v, rs[i])
  BY SortInsertShape
<1> HIDE DEF new
<1>3. \A i \in DOMAIN new :
          \/ i \in 1 .. p /\ i \in DOMAIN rs /\ new[i] = rs[i]
          \/ i = p + 1 /\ new[i] = v
          \/ i - 1 \in (p + 1) .. Len(rs) /\ i - 1 \in DOMAIN rs /\ new[i] = rs[i - 1]
  BY <1>1, <1>2, InsertionElements
<1>5. Len(rs) \in Nat /\ DOMAIN rs = 1 .. Len(rs) /\ v.lo \in Int /\ v.hi \in Int
  <2>1. Len(rs) \in Nat /\ DOMAIN rs = 1 .. Len(rs)
    OBVIOUS
  <2> QED BY <2>1, CharInt DEF Rng
<1>6. \A i \in DOMAIN rs : rs[i].lo \in Int /\ rs[i].hi \in Int /\ rs[i].lo <= rs[i].hi
  BY Bounds DEF Proper
<1>7. ASSUME NEW i \in 1 .. p PROVE rs[i].hi < v.lo
  <2>1. ~ Before(v, rs[p]) /\ p \in DOMAIN rs /\ i \in DOMAIN rs
    BY <1>2, <1>5
  <2>2. rs[p].hi < v.lo
    BY <2>1 DEF Before
  <2>3. i = p \/ rs[i].hi < rs[p].lo
    BY <2>1 DEF Ascending
  <2> QED BY <1>5, <1>6, <2>1, <2>2, <2>3
<1>8. ASSUME NEW j \in (p + 1) .. Len(rs) PROVE v.hi < rs[j].lo
  <2>1. CASE p = 0 /\ Before(v, rs[1])
    <3>1. j \in DOMAIN rs /\ 1 \in DOMAIN rs /\ (j = 1 \/ rs[1].hi < rs[j].lo)
      BY <1>5 DEF Ascending
    <3> QED BY <1>5, <1>6, <2>1, <3>1 DEF Before
  <2>2. CASE \A i \in (p + 1) .. Len(rs) : Before(v, rs[i])
    BY <2>2 DEF Before
  <2> QED BY <1>2, <2>1, <2>2
<1>9. ASSUME NEW i \in DOMAIN new, NEW j \in DOMAIN new, i < j
      PROVE  new[i].hi < new[j].lo
  <2>1. i \in Int /\ j \in Int
    BY <1>1
  <2>2. CASE i \in 1 .. p /\ new[i] = rs[i] /\ j \in 1 .. p /\ new[j] = rs[j]
    BY <1>3, <1>5, <1>9, <2>2 DEF Ascending
  <2>3. CASE i \in 1 .. p /\ new[i] = rs[i] /\ j = p + 1 /\ new[j] = v
    BY <1>7, <1>9, <2>3
  <2>4. CASE /\ i \in 1 .. p /\ new[i] = rs[i]
             /\ j - 1 \in (p + 1) .. Len(rs) /\ new[j] = rs[j - 1]
    <3>1. i \in DOMAIN rs /\ j - 1 \in DOMAIN rs /\ i < j - 1
      BY <1>5, <2>1, <2>4
    <3> QED BY <1>9, <2>4, <3>1 DEF Ascending
  <2>5. CASE /\ i = p + 1 /\ new[i] = v
             /\ j - 1 \in (p + 1) .. Len(rs) /\ new[j] = rs[j - 1]
    BY <1>8, <1>9, <2>5
  <2>6. CASE /\ i - 1 \in (p + 1) .. Len(rs) /\ new[i] = rs[i - 1]
             /\ j - 1 \in (p + 1) .. Len(rs) /\ new[j] = rs[j - 1]
    <3>1. i - 1 \in DOMAIN rs /\ j - 1 \in DOMAIN rs /\ i - 1 < j - 1
      BY <1>5, <1>9, <2>1, <2>6
    <3> QED BY <1>9, <2>6, <3>1 DEF Ascending
  <2> QED BY <1>3, <1>9, <2>1, <2>2, <2>3, <2>4, <2>5, <2>6
<1> QED BY <1>9 DEF Ascending, new

\* The recursive function of Sorted is one.
LEMMA SortedRec ==
    ASSUME NEW rs \in Seq(Rng)
    PROVE  \E f \in [0 .. Len(rs) -> Seq(Rng)] :
               /\ Sorted(rs) = f[Len(rs)]
               /\ f[0] = <<>>
               /\ \A i \in 1 .. Len(rs) : f[i] = SortInsert(f[i - 1], rs[i])
<1> DEFINE n == Len(rs)
           V == Seq(Rng)
           g == [i \in 1 .. n |-> [x \in V |-> SortInsert(x, rs[i])]]
           Good(f) == f = [i \in 0 .. n |-> IF i = 0 THEN <<>> ELSE SortInsert(f[i - 1], rs[i])]
           F == CHOOSE f : Good(f)
<1>1. n \in Nat /\ <<>> \in V
  OBVIOUS
<1>2. g \in [1 .. n -> [V -> V]]
  <2>1. \A i \in 1 .. n : rs[i] \in Rng
    OBVIOUS
  <2> QED BY <2>1, SortInsertShape
<1>3. Sorted(rs) = F[n]
  BY DEF Sorted
<1>4. Recursive(n, V, <<>>, g)
  <2> HIDE DEF n, V, g
  <2> QED BY <1>1, <1>2, Recursion
<1>5. PICK f \in [0 .. n -> V] : f[0] = <<>> /\ \A i \in 1 .. n : f[i] = g[i][f[i - 1]]
  BY <1>4 DEF Recursive
<1>6. ASSUME NEW i \in 1 .. n PROVE g[i][f[i - 1]] = SortInsert(f[i - 1], rs[i])
  <2>1. f[i - 1] \in V
    OBVIOUS
  <2> QED BY <2>1
<1>7. \A i \in 1 .. n : f[i] = SortInsert(f[i - 1], rs[i])
  <2> HIDE DEF g, V
  <2> QED BY <1>5, <1>6
<1>8. f[0] = <<>>
  BY <1>1, <1>5
<1>9. Good(f)
  <2>1. DOMAIN f = 0 .. n /\ f = [i \in 0 .. n |-> f[i]]
    OBVIOUS
  <2> HIDE DEF g, V, n
  <2>2. \A i \in 0 .. n : f[i] = IF i = 0 THEN <<>> ELSE SortInsert(f[i - 1], rs[i])
    BY <1>1, <1>7, <1>8
  <2> QED BY <2>1, <2>2
<1>10. Good(F)
  <2> HIDE DEF Good
  <2> QED BY <1>9
<1>11. F = [i \in 0 .. n |-> IF i = 0 THEN <<>> ELSE SortInsert(F[i - 1], rs[i])]
  BY <1>10
<1>12. \A k \in 0 .. n : F[k] = f[k]
  <2> DEFINE K == {k \in 0 .. n : F[k] = f[k]}
  <2> HIDE DEF F, g, V, n
  <2>1. 0 \in K
    BY <1>1, <1>8, <1>11
  <2>2. ASSUME NEW k \in 0 .. (n - 1), k \in K PROVE k + 1 \in K
    <3>1. k + 1 \in 1 .. n /\ (k + 1) - 1 = k
      BY <1>1
    <3>2. F[k + 1] = SortInsert(F[k], rs[k + 1])
      BY <1>1, <1>11, <3>1
    <3>3. f[k + 1] = SortInsert(f[k], rs[k + 1])
      BY <1>7, <3>1
    <3> QED BY <2>2, <3>1, <3>2, <3>3
  <2> HIDE DEF K
  <2>3. 0 .. n \subseteq K
    BY <1>1, <2>1, <2>2, UpTo
  <2> QED BY <2>3 DEF K
<1> HIDE DEF F, g
<1>13. Sorted(rs) = f[n]
  BY <1>1, <1>3, <1>12
<1> QED BY <1>7, <1>8, <1>13

\* Sorting permutes the ranges of an edge, leaves no gap between two out of
\* order, and puts ranges in order that are apart.
LEMMA SortedFacts ==
    ASSUME NEW rs \in Seq(Rng)
    PROVE  /\ Sorted(rs) \in Seq(Rng)
           /\ \A i \in DOMAIN Sorted(rs) : \E j \in DOMAIN rs : Sorted(rs)[i] = rs[j]
           /\ \A j \in DOMAIN rs : \E i \in DOMAIN Sorted(rs) : Sorted(rs)[i] = rs[j]
           /\ Proper(rs) => Bridged(Sorted(rs))
           /\ Proper(rs) /\ Apart(rs) => Ascending(Sorted(rs))
<1> DEFINE n == Len(rs)
<1>1. PICK f \in [0 .. n -> Seq(Rng)] :
          /\ Sorted(rs) = f[n]
          /\ f[0] = <<>>
          /\ \A i \in 1 .. n : f[i] = SortInsert(f[i - 1], rs[i])
  BY SortedRec
<1>2. n \in Nat /\ DOMAIN rs = 1 .. n
  OBVIOUS
<1> DEFINE Same(k) == /\ \A i \in DOMAIN f[k] : \E j \in 1 .. k : f[k][i] = rs[j]
                      /\ \A j \in 1 .. k : \E i \in DOMAIN f[k] : f[k][i] = rs[j]
           K == {k \in 0 .. n : /\ Same(k)
                                /\ Proper(rs) => Bridged(f[k])
                                /\ Proper(rs) /\ Apart(rs) => Ascending(f[k])}
<1>3. 0 \in K
  <2>1. DOMAIN f[0] = {} /\ 1 .. 0 = {}
    BY <1>1
  <2> QED BY <1>2, <2>1 DEF Bridged, Ascending
<1>4. ASSUME NEW k \in 0 .. (n - 1), k \in K PROVE k + 1 \in K
  <2> DEFINE old == f[k]
             v == rs[k + 1]
  <2>1. k + 1 \in 1 .. n /\ (k + 1) - 1 = k /\ k \in 0 .. n /\ k + 1 \in DOMAIN rs
    BY <1>2
  <2>2. f[k + 1] = SortInsert(old, v) /\ old \in Seq(Rng) /\ v \in Rng
    <3>1. v \in Rng
      BY <1>2, <2>1
    <3> QED BY <1>1, <2>1, <3>1
  <2>3. /\ \A i \in DOMAIN old : \E j \in 1 .. k : old[i] = rs[j]
        /\ \A j \in 1 .. k : \E i \in DOMAIN old : old[i] = rs[j]
        /\ Proper(rs) => Bridged(old)
        /\ Proper(rs) /\ Apart(rs) => Ascending(old)
    BY <1>4
  <2>4. \A j \in 1 .. k : j \in DOMAIN rs /\ j # k + 1 /\ j \in 1 .. (k + 1)
    BY <1>2, <2>1
  <2>5. \A j \in 1 .. (k + 1) : j \in 1 .. k \/ j = k + 1
    BY <2>1
  <2> HIDE DEF old, v, K
  <2>6. SortInsert(old, v) \in Seq(Rng)
    BY <2>2, SortInsertShape
  <2>7. Same(k + 1)
    <3>1. PICK p \in 0 .. Len(old) : Insertion(old, v, p, SortInsert(old, v))
      BY <2>2, SortInsertShape
    <3> DEFINE new == SortInsert(old, v)
    <3>2. /\ \A i \in DOMAIN new : new[i] = v \/ \E l \in DOMAIN old : new[i] = old[l]
          /\ \E i \in DOMAIN new : new[i] = v
          /\ \A l \in DOMAIN old : \E i \in DOMAIN new : new[i] = old[l]
      BY <2>2, <2>6, <3>1, InsertionElements
    <3> HIDE DEF new
    <3>3. f[k + 1] = new /\ k + 1 \in 1 .. (k + 1) /\ v = rs[k + 1]
      BY <2>1, <2>2 DEF new, v
    <3>4. ASSUME NEW i \in DOMAIN new PROVE \E j \in 1 .. (k + 1) : new[i] = rs[j]
      BY <2>3, <2>4, <3>2, <3>3
    <3>5. ASSUME NEW j \in 1 .. (k + 1) PROVE \E i \in DOMAIN new : new[i] = rs[j]
      <4>1. CASE j \in 1 .. k
        <5>1. PICK l \in DOMAIN old : old[l] = rs[j]
          BY <2>3, <4>1
        <5> QED BY <3>2, <5>1
      <4>2. CASE j = k + 1
        BY <3>2, <3>3, <4>2
      <4> QED BY <2>5, <4>1, <4>2
    <3> QED BY <3>3, <3>4, <3>5
  <2>8. ASSUME Proper(rs) PROVE Proper(old) /\ v.lo <= v.hi
    BY <2>1, <2>3, <2>4, <2>8 DEF Proper, v
  <2>9. ASSUME Proper(rs) PROVE Bridged(f[k + 1])
    BY <2>2, <2>3, <2>8, <2>9, SortInsertBridged
  <2>10. ASSUME Proper(rs), Apart(rs) PROVE Ascending(f[k + 1])
    <3>1. ASSUME NEW i \in DOMAIN old PROVE v.hi < old[i].lo \/ old[i].hi < v.lo
      <4>1. PICK j \in 1 .. k : old[i] = rs[j]
        BY <2>3
      <4> QED BY <2>1, <2>4, <2>10, <4>1 DEF Apart, v
    <3> QED BY <2>2, <2>3, <2>8, <2>10, <3>1, SortInsertAscending
  <2> QED BY <1>2, <2>1, <2>7, <2>9, <2>10 DEF K
<1>5. n \in K
  <2> HIDE DEF K, n
  <2>1. 0 .. n \subseteq K
    BY <1>2, <1>3, <1>4, UpTo
  <2> QED BY <1>2, <2>1
<1>6. /\ \A i \in DOMAIN f[n] : \E j \in DOMAIN rs : f[n][i] = rs[j]
      /\ \A j \in DOMAIN rs : \E i \in DOMAIN f[n] : f[n][i] = rs[j]
      /\ Proper(rs) => Bridged(f[n])
      /\ Proper(rs) /\ Apart(rs) => Ascending(f[n])
  BY <1>2, <1>5
<1>7. f[n] \in Seq(Rng) /\ Sorted(rs) = f[n]
  BY <1>1, <1>2
<1> HIDE DEF n, K, Same
<1> QED BY <1>6, <1>7

\* What sorting keeps of an edge.
LEMMA SortedHolds ==
    ASSUME NEW rs \in Seq(Rng)
    PROVE  /\ \A c : Holds(Sorted(rs), c) <=> Holds(rs, c)
           /\ Proper(rs) => Proper(Sorted(rs))
<1>1. ASSUME NEW c PROVE Holds(Sorted(rs), c) <=> Holds(rs, c)
  <2>1. (\E i \in DOMAIN Sorted(rs) : Within(c, Sorted(rs)[i])) <=> \E j \in DOMAIN rs : Within(c, rs[j])
    BY SortedFacts
  <2> QED BY <2>1, HoldsWithin
<1>2. Proper(rs) => Proper(Sorted(rs))
  BY SortedFacts DEF Proper
<1> QED BY <1>1, <1>2

-----------------------------------------------------------------------------
(* Collapsing. *)

\* A pair collapses into a range from the lower of the lower bounds to the
\* higher of the higher ones; it fills the gap when the second range ends
\* before the first one begins.
LEMMA CollapsedBounds ==
    ASSUME NEW f \in Rng, NEW s \in Rng, Collapsed(f, s) # <<>>
    PROVE  LET c == Collapsed(f, s)[1]
           IN  /\ c \in Rng
               /\ f.lo <= f.hi /\ s.lo <= s.hi =>
                      /\ c.lo <= c.hi /\ c.lo <= f.lo /\ c.lo <= s.lo
                      /\ f.hi <= c.hi /\ s.hi <= c.hi
                      /\ \A x \in Int : Within(x, c) =>
                             Within(x, f) \/ Within(x, s) \/ (s.hi < x /\ x < f.lo)
<1> DEFINE c == Collapsed(f, s)[1]
<1>1. f.lo \in Int /\ f.hi \in Int /\ s.lo \in Int /\ s.hi \in Int
      /\ f.lo \in Char /\ f.hi \in Char /\ s.lo \in Char /\ s.hi \in Char
  BY CharInt DEF Rng
<1>2. \/ c = f /\ s.lo > f.lo /\ s.hi < f.hi
      \/ c = s /\ f.lo > s.lo /\ f.hi < s.hi
      \/ /\ c = Join(f, s) /\ f.hi > s.lo /\ f.hi < s.hi /\ ~ (f.lo > s.lo)
      \/ /\ c = Join(s, f) /\ s.hi > f.lo /\ s.hi < f.hi /\ ~ (s.lo > f.lo)
      \/ c = Join(f, s) /\ f.hi + 1 = s.lo
      \/ c = Join(s, f) /\ s.hi + 1 = f.lo
      \/ c = Join(s, f) /\ s.hi <= f.lo
  BY DEF Collapsed
<1>3. /\ Join(f, s) \in Rng /\ Join(f, s).lo = f.lo /\ Join(f, s).hi = s.hi
      /\ Join(s, f) \in Rng /\ Join(s, f).lo = s.lo /\ Join(s, f).hi = f.hi
  BY <1>1 DEF Join, Rng
<1>4. c \in Rng
  BY <1>2, <1>3
<1> HIDE DEF c
<1>5. ASSUME f.lo <= f.hi, s.lo <= s.hi
      PROVE  /\ c.lo <= c.hi /\ c.lo <= f.lo /\ c.lo <= s.lo
             /\ f.hi <= c.hi /\ s.hi <= c.hi
             /\ \A x \in Int : Within(x, c) =>
                    Within(x, f) \/ Within(x, s) \/ (s.hi < x /\ x < f.lo)
  BY <1>1, <1>2, <1>3, <1>5 DEF Within
<1> QED BY <1>4, <1>5 DEF c

\* The list after a pair is collapsed.
AfterCollapse(rs, i, j, c) == RemoveAt([rs EXCEPT ![i] = c], j)

\* Its elements: the collapsed range in place i, the ones behind j one place
\* further to the front.
CollapseOf(rs, i, j, c, new) ==
    /\ new \in Seq(Rng)
    /\ i \in DOMAIN new /\ new[i] = c
    /\ \A k \in DOMAIN new : k # i /\ k < j => k \in DOMAIN rs /\ new[k] = rs[k]
    /\ \A k \in DOMAIN new : k >= j => k + 1 \in DOMAIN rs /\ new[k] = rs[k + 1]
    /\ \A k \in DOMAIN rs : k # i /\ k # j => \E l \in DOMAIN new : new[l] = rs[k]

\* These are the elements of the list.
LEMMA CollapseShape ==
    ASSUME NEW rs \in Seq(Rng), NEW i \in DOMAIN rs, NEW j \in DOMAIN rs, i < j, NEW c \in Rng
    PROVE  CollapseOf(rs, i, j, c, AfterCollapse(rs, i, j, c))
<1> DEFINE mid == [rs EXCEPT ![i] = c]
           new == AfterCollapse(rs, i, j, c)
<1>1. /\ mid \in Seq(Rng) /\ Len(mid) = Len(rs) /\ mid[i] = c
      /\ \A k \in DOMAIN rs : k # i => mid[k] = rs[k]
  OBVIOUS
<1>2. Len(rs) \in Nat /\ DOMAIN rs = 1 .. Len(rs)
  OBVIOUS
<1> HIDE DEF mid
<1>3. j \in 1 .. Len(mid)
  BY <1>1, <1>2
<1>4. /\ new \in Seq(Rng) /\ Len(new) = Len(rs) - 1
      /\ \A k \in 1 .. (j - 1) : new[k] = mid[k]
      /\ \A k \in j .. (Len(rs) - 1) : new[k] = mid[k + 1]
  <2>1. new = RemoveAt(mid, j)
    BY DEF AfterCollapse, mid
  <2> HIDE DEF new
  <2>2. /\ RemoveAt(mid, j) \in Seq(Rng)
        /\ Len(RemoveAt(mid, j)) = Len(mid) - 1
        /\ \A k \in 1 .. (j - 1) : RemoveAt(mid, j)[k] = mid[k]
        /\ \A k \in j .. (Len(mid) - 1) : RemoveAt(mid, j)[k] = mid[k + 1]
    BY <1>1, <1>3, RemoveAtShape
  <2> QED BY <1>1, <2>1, <2>2
<1> HIDE DEF new
<1>5. DOMAIN new = 1 .. (Len(rs) - 1)
  BY <1>4
<1>6. i \in DOMAIN new /\ new[i] = c
  <2>1. i \in 1 .. (j - 1) /\ i \in 1 .. (Len(rs) - 1)
    BY <1>2
  <2> QED BY <1>1, <1>4, <1>5, <2>1
<1>7. ASSUME NEW k \in DOMAIN new, k # i, k < j PROVE k \in DOMAIN rs /\ new[k] = rs[k]
  <2>1. k \in 1 .. (j - 1) /\ k \in DOMAIN rs
    BY <1>2, <1>5, <1>7
  <2> QED BY <1>1, <1>4, <1>7, <2>1
<1>8. ASSUME NEW k \in DOMAIN new, k >= j PROVE k + 1 \in DOMAIN rs /\ new[k] = rs[k + 1]
  <2>1. k \in j .. (Len(rs) - 1) /\ k + 1 \in DOMAIN rs /\ k + 1 # i
    BY <1>2, <1>5, <1>8
  <2> QED BY <1>1, <1>4, <2>1
<1>9. ASSUME NEW k \in DOMAIN rs, k # i, k # j
      PROVE  \E l \in DOMAIN new : new[l] = rs[k]
  <2>1. CASE k < j
    <3>1. k \in 1 .. (j - 1) /\ k \in DOMAIN new
      BY <1>2, <1>5, <2>1
    <3> QED BY <1>1, <1>4, <1>9, <3>1
  <2>2. CASE k > j
    <3>1. k - 1 \in j .. (Len(rs) - 1) /\ k - 1 \in DOMAIN new /\ k - 1 # i /\ (k - 1) + 1 = k
      BY <1>2, <1>5, <2>2
    <3> QED BY <1>1, <1>4, <1>9, <3>1
  <2> QED BY <1>2, <1>9, <2>1, <2>2
<1>10. CollapseOf(rs, i, j, c, new)
  BY <1>4, <1>6, <1>7, <1>8, <1>9 DEF CollapseOf
<1> QED BY <1>10 DEF new

\* Collapsing a pair of a bridged list neither loses nor invents a character,
\* and leaves the list bridged.
LEMMA CollapseKeeps ==
    ASSUME NEW rs \in Seq(Rng), NEW i \in DOMAIN rs, NEW j \in DOMAIN rs, i < j,
           Collapsed(rs[i], rs[j]) # <<>>, Proper(rs), Bridged(rs)
    PROVE  LET new == AfterCollapse(rs, i, j, Collapsed(rs[i], rs[j])[1])
           IN  /\ Proper(new) /\ Bridged(new)
               /\ \A x \in Int : Holds(new, x) <=> Holds(rs, x)
<1> DEFINE c == Collapsed(rs[i], rs[j])[1]
           new == AfterCollapse(rs, i, j, c)
<1>1. \A k \in DOMAIN rs : /\ rs[k] \in Rng /\ rs[k].lo \in Int /\ rs[k].hi \in Int
                           /\ rs[k].lo <= rs[k].hi /\ k \in Nat
  BY Bounds DEF Proper
<1>2. /\ c \in Rng
      /\ c.lo <= c.hi /\ c.lo <= rs[i].lo /\ c.lo <= rs[j].lo
      /\ rs[i].hi <= c.hi /\ rs[j].hi <= c.hi
      /\ \A x \in Int : Within(x, c) =>
             Within(x, rs[i]) \/ Within(x, rs[j]) \/ (rs[j].hi < x /\ x < rs[i].lo)
  BY <1>1, CollapsedBounds
<1>3. c.lo \in Int /\ c.hi \in Int
  BY <1>2, CharInt DEF Rng
<1> HIDE DEF c
<1>4. /\ new \in Seq(Rng)
      /\ i \in DOMAIN new /\ new[i] = c
      /\ \A k \in DOMAIN new : k # i /\ k < j => k \in DOMAIN rs /\ new[k] = rs[k]
      /\ \A k \in DOMAIN new : k >= j => k + 1 \in DOMAIN rs /\ new[k] = rs[k + 1]
      /\ \A k \in DOMAIN rs : k # i /\ k # j => \E l \in DOMAIN new : new[l] = rs[k]
  <2>1. CollapseOf(rs, i, j, c, new)
    BY <1>2, CollapseShape
  <2> HIDE DEF new
  <2> QED BY <2>1 DEF CollapseOf
<1> HIDE DEF new
<1>5. \A k \in DOMAIN new : k \in Nat
  BY <1>4
<1>6. \A k \in DOMAIN new : k = i \/ \E l \in DOMAIN rs : new[k] = rs[l]
  BY <1>1, <1>4, <1>5
<1>7. Proper(new)
  BY <1>1, <1>2, <1>4, <1>6 DEF Proper
<1>8. ASSUME NEW x \in Int, Holds(new, x) PROVE Holds(rs, x)
  <2>1. PICK k \in DOMAIN new : Within(x, new[k])
    BY <1>8, HoldsWithin
  <2>2. CASE k = i
    <3>1. Within(x, rs[i]) \/ Within(x, rs[j]) \/ (rs[j].hi < x /\ x < rs[i].lo)
      BY <1>2, <1>4, <2>1, <2>2
    <3> QED BY <3>1, HoldsWithin DEF Bridged
  <2>3. CASE k # i
    BY <1>6, <2>1, <2>3, HoldsWithin
  <2> QED BY <2>2, <2>3
<1>9. ASSUME NEW x \in Int, Holds(rs, x) PROVE Holds(new, x)
  <2>1. PICK k \in DOMAIN rs : Within(x, rs[k])
    BY <1>9, HoldsWithin
  <2>2. CASE k = i \/ k = j
    <3>1. Within(x, c)
      BY <1>1, <1>2, <1>3, <2>1, <2>2 DEF Within
    <3> QED BY <1>4, <3>1, HoldsWithin
  <2>3. CASE k # i /\ k # j
    BY <1>4, <2>1, <2>3, HoldsWithin
  <2> QED BY <2>2, <2>3
<1>10. ASSUME NEW k \in DOMAIN new, NEW l \in DOMAIN new, k < l,
              NEW x \in Int, new[l].hi < x, x < new[k].lo
       PROVE  Holds(rs, x)
  <2>1. \E k1 \in DOMAIN rs, l1 \in DOMAIN rs : k1 < l1 /\ rs[l1].hi < x /\ x < rs[k1].lo
    <3>1. CASE k = i
      <4>1. x < rs[i].lo
        BY <1>1, <1>2, <1>3, <1>4, <1>10, <3>1
      <4>2. CASE l < j
        BY <1>4, <1>10, <3>1, <4>1, <4>2
      <4>3. CASE l >= j
        <5>1. l + 1 \in DOMAIN rs /\ new[l] = rs[l + 1] /\ i < l + 1
          BY <1>4, <1>5, <1>10, <3>1, <4>3
        <5> QED BY <1>10, <4>1, <5>1
      <4> QED BY <1>1, <1>5, <4>2, <4>3
    <3>2. CASE l = i
      <4>1. k \in DOMAIN rs /\ new[k] = rs[k]
        BY <1>1, <1>4, <1>5, <1>10, <3>2
      <4>2. rs[i].hi < x
        BY <1>1, <1>2, <1>3, <1>4, <1>10, <3>2
      <4> QED BY <1>10, <3>2, <4>1, <4>2
    <3>3. CASE k # i /\ l # i /\ l < j
      BY <1>1, <1>4, <1>5, <1>10, <3>3
    <3>4. CASE k # i /\ l # i /\ k < j /\ l >= j
      <4>1. k \in DOMAIN rs /\ new[k] = rs[k] /\ l + 1 \in DOMAIN rs /\ new[l] = rs[l + 1] /\ k < l + 1
        BY <1>4, <1>5, <1>10, <3>4
      <4> QED BY <1>10, <4>1
    <3>5. CASE k # i /\ l # i /\ k >= j
      <4>1. /\ k + 1 \in DOMAIN rs /\ new[k] = rs[k + 1]
            /\ l + 1 \in DOMAIN rs /\ new[l] = rs[l + 1] /\ k + 1 < l + 1
        BY <1>1, <1>4, <1>5, <1>10, <3>5
      <4> QED BY <1>10, <4>1
    <3> QED BY <1>1, <1>5, <3>1, <3>2, <3>3, <3>4, <3>5
  <2> QED BY <2>1 DEF Bridged
<1>11. Bridged(new)
  BY <1>9, <1>10 DEF Bridged
<1> QED BY <1>7, <1>8, <1>9, <1>11 DEF new, c

\* The scan has found every pair apart up to its iterators.
Scanned(rs, f, s) ==
    \A i, j \in DOMAIN rs :
        i < j /\ (i < f \/ (i = f /\ j < s)) => rs[i].hi + 1 < rs[j].lo

\* In a list in order only neighbours that touch collapse, and the scan keeps
\* what it has found.
LEMMA CollapseAscending ==
    ASSUME NEW rs \in Seq(Rng), NEW i \in DOMAIN rs, NEW j \in DOMAIN rs, i < j,
           Collapsed(rs[i], rs[j]) # <<>>, Proper(rs), Ascending(rs), Scanned(rs, i, j)
    PROVE  LET new == AfterCollapse(rs, i, j, Collapsed(rs[i], rs[j])[1])
           IN  Ascending(new) /\ Scanned(new, i, j)
<1> DEFINE c == Collapsed(rs[i], rs[j])[1]
           new == AfterCollapse(rs, i, j, c)
<1>1. \A k \in DOMAIN rs : /\ rs[k] \in Rng /\ rs[k].lo \in Int /\ rs[k].hi \in Int
                           /\ rs[k].lo <= rs[k].hi /\ k \in Nat
  BY Bounds DEF Proper
<1>2. rs[i].hi < rs[j].lo
  BY DEF Ascending
<1>3. c = Join(rs[i], rs[j]) /\ rs[i].hi + 1 = rs[j].lo
  BY <1>1, <1>2 DEF Collapsed
<1>4. c \in Rng /\ c.lo = rs[i].lo /\ c.hi = rs[j].hi
  BY <1>1, <1>3 DEF Join, Rng
<1> HIDE DEF c
<1>5. /\ new \in Seq(Rng)
      /\ i \in DOMAIN new /\ new[i] = c
      /\ \A k \in DOMAIN new : k # i /\ k < j => k \in DOMAIN rs /\ new[k] = rs[k]
      /\ \A k \in DOMAIN new : k >= j => k + 1 \in DOMAIN rs /\ new[k] = rs[k + 1]
  <2>1. CollapseOf(rs, i, j, c, new)
    BY <1>4, CollapseShape
  <2> HIDE DEF new
  <2> QED BY <2>1 DEF CollapseOf
<1> HIDE DEF new
<1>6. \A k \in DOMAIN new : k \in Nat
  BY <1>5
<1>7. \A k \in DOMAIN rs : i < k => k >= j
  <2>1. ASSUME NEW k \in DOMAIN rs, i < k, k < j PROVE FALSE
    <3>1. rs[i].hi + 1 < rs[k].lo
      BY <2>1 DEF Scanned
    <3>2. rs[k].hi < rs[j].lo
      BY <2>1 DEF Ascending
    <3> QED BY <1>1, <1>3, <3>1, <3>2
  <2> QED BY <1>1, <2>1
<1>8. ASSUME NEW k \in DOMAIN new, NEW l \in DOMAIN new, k < l
      PROVE  /\ new[k].hi < new[l].lo
             /\ (k < i \/ (k = i /\ l < j)) => new[k].hi + 1 < new[l].lo
  <2>1. CASE k = i
    <3>1. l >= j
      BY <1>1, <1>5, <1>6, <1>7, <1>8, <2>1
    <3>2. l + 1 \in DOMAIN rs /\ new[l] = rs[l + 1] /\ j < l + 1
      BY <1>1, <1>5, <1>6, <3>1
    <3>3. rs[j].hi < rs[l + 1].lo
      BY <3>2 DEF Ascending
    <3> QED BY <1>1, <1>4, <1>5, <1>6, <2>1, <3>1, <3>2, <3>3
  <2>2. CASE l = i
    <3>1. k \in DOMAIN rs /\ new[k] = rs[k] /\ k < i
      BY <1>1, <1>5, <1>6, <1>8, <2>2
    <3>2. rs[k].hi + 1 < rs[i].lo /\ rs[k].hi < rs[i].lo
      BY <1>1, <3>1 DEF Scanned, Ascending
    <3> QED BY <1>4, <1>5, <2>2, <3>1, <3>2
  <2>3. CASE k # i /\ l # i /\ l < j
    <3>1. k \in DOMAIN rs /\ new[k] = rs[k] /\ l \in DOMAIN rs /\ new[l] = rs[l]
      BY <1>1, <1>5, <1>6, <1>8, <2>3
    <3> QED BY <1>8, <2>3, <3>1 DEF Scanned, Ascending
  <2>4. CASE k # i /\ l # i /\ k < j /\ l >= j
    <3>1. k \in DOMAIN rs /\ new[k] = rs[k] /\ l + 1 \in DOMAIN rs /\ new[l] = rs[l + 1] /\ k < l + 1
      BY <1>5, <1>6, <1>8, <2>4
    <3> QED BY <1>8, <2>4, <3>1 DEF Scanned, Ascending
  <2>5. CASE k # i /\ l # i /\ k >= j
    <3>1. /\ k + 1 \in DOMAIN rs /\ new[k] = rs[k + 1]
          /\ l + 1 \in DOMAIN rs /\ new[l] = rs[l + 1] /\ k + 1 < l + 1
          /\ ~ (k < i)
      BY <1>1, <1>5, <1>6, <1>8, <2>5
    <3> QED BY <1>8, <2>5, <3>1 DEF Scanned, Ascending
  <2> QED BY <1>1, <1>6, <2>1, <2>2, <2>3, <2>4, <2>5
<1>9. Ascending(new) /\ Scanned(new, i, j)
  BY <1>8 DEF Ascending, Scanned
<1> QED BY <1>9 DEF new, c

-----------------------------------------------------------------------------
(* Complementing. *)

\* The maximal intervals of S.
Intervals(S) ==
    {r \in [lo : S, hi : S] :
        /\ r.lo .. r.hi \subseteq S /\ r.lo <= r.hi
        /\ r.lo - 1 \notin S /\ r.hi + 1 \notin S}

\* Every number of a bounded set lies in a maximal interval.
LEMMA InSomeInterval ==
    ASSUME NEW n \in Nat, NEW S \in SUBSET (0 .. n), NEW c \in S
    PROVE  \E r \in Intervals(S) : Within(c, r)
<1> DEFINE L == {l \in 0 .. c : l .. c \subseteq S}
           H == {h \in c .. n : c .. h \subseteq S}
           l == Min(L)
           h == Max(H)
<1>1. c \in Nat /\ c <= n /\ c .. c = {c}
  OBVIOUS
<1>2. c \in L /\ c \in H
  BY <1>1
<1>3. l \in L /\ \A y \in L : l <= y
  <2>1. L \in SUBSET (0 .. n) /\ L # {}
    BY <1>1, <1>2
  <2> HIDE DEF L
  <2> QED BY <2>1, Least
<1>4. h \in H /\ \A y \in H : y <= h
  <2>1. H \in SUBSET (0 .. n) /\ H # {}
    BY <1>1, <1>2
  <2> HIDE DEF H
  <2> QED BY <2>1, Greatest
<1> HIDE DEF l, h
<1>5. /\ l \in 0 .. c /\ l .. c \subseteq S
      /\ h \in c .. n /\ c .. h \subseteq S
  BY <1>3, <1>4
<1>6. l - 1 \notin S
  <2>1. ASSUME l - 1 \in S PROVE FALSE
    <3>1. l - 1 \in 0 .. c
      BY <1>1, <1>5, <2>1
    <3>2. \A x \in (l - 1) .. c : x = l - 1 \/ x \in l .. c
      BY <1>5
    <3>3. l - 1 \in L
      BY <1>5, <2>1, <3>1, <3>2
    <3> QED BY <1>3, <1>5, <3>3
  <2> QED BY <2>1
<1>7. h + 1 \notin S
  <2>1. ASSUME h + 1 \in S PROVE FALSE
    <3>1. h + 1 \in c .. n
      BY <1>1, <1>5, <2>1
    <3>2. \A x \in c .. (h + 1) : x = h + 1 \/ x \in c .. h
      BY <1>5
    <3>3. h + 1 \in H
      BY <1>5, <2>1, <3>1, <3>2
    <3> QED BY <1>4, <1>5, <3>3
  <2> QED BY <2>1
<1>8. l .. h \subseteq S /\ l \in S /\ h \in S
  <2>1. \A x \in l .. h : x \in l .. c \/ x \in c .. h
    BY <1>1, <1>5
  <2> QED BY <1>1, <1>5, <2>1
<1> DEFINE r == [lo |-> l, hi |-> h]
<1>9. r \in Intervals(S)
  BY <1>1, <1>5, <1>6, <1>7, <1>8 DEF Intervals
<1>10. Within(c, r)
  BY <1>1, <1>5 DEF Within
<1> QED BY <1>9, <1>10

\* Two maximal intervals that begin alike are one.
LEMMA IntervalsDiffer ==
    ASSUME NEW S \in SUBSET Nat, NEW q \in Intervals(S), NEW r \in Intervals(S), q.lo = r.lo
    PROVE  q = r
<1>1. /\ q.lo \in Nat /\ q.hi \in Nat /\ r.hi \in Nat
      /\ q.lo .. q.hi \subseteq S /\ r.lo .. r.hi \subseteq S /\ q.lo <= q.hi /\ r.lo <= r.hi
      /\ q.hi + 1 \notin S /\ r.hi + 1 \notin S
  BY DEF Intervals
<1>2. ~ (q.hi < r.hi) /\ ~ (r.hi < q.hi)
  <2>1. ASSUME q.hi < r.hi PROVE FALSE
    <3>1. q.hi + 1 \in r.lo .. r.hi
      BY <1>1, <2>1
    <3> QED BY <1>1, <3>1
  <2>2. ASSUME r.hi < q.hi PROVE FALSE
    <3>1. r.hi + 1 \in q.lo .. q.hi
      BY <1>1, <2>2
    <3> QED BY <1>1, <3>1
  <2> QED BY <2>1, <2>2
<1>3. q.hi = r.hi
  BY <1>1, <1>2
<1> QED BY <1>3 DEF Intervals

\* Clumps lists the maximal intervals, each once, from a finite set.
LEMMA ClumpsFacts ==
    ASSUME NEW n \in Nat, NEW S \in SUBSET (0 .. n)
    PROVE  /\ Clumps(S) \in Seq(Intervals(S))
           /\ \A r \in Intervals(S) : \E i \in DOMAIN Clumps(S) : Clumps(S)[i] = r
           /\ 0 \in S => 1 \in DOMAIN Clumps(S) /\ Clumps(S)[1].lo = 0
<1> DEFINE R == Intervals(S)
           m == Cardinality(R)
           Below(r) == {q \in R : q.lo < r.lo}
           rank == [r \in R |-> Cardinality(Below(r))]
           clumps == [i \in 1 .. m |-> CHOOSE r \in R : Cardinality(Below(r)) = i - 1]
<1>1. Clumps(S) = clumps
  BY DEF Clumps, Intervals
<1>2. \A r \in R : r.lo \in 0 .. n /\ r.lo \in Nat
  <2>1. ASSUME NEW r \in R PROVE r.lo \in S
    BY DEF Intervals
  <2>2. \A x \in S : x \in 0 .. n /\ x \in Nat
    OBVIOUS
  <2> HIDE DEF R
  <2> QED BY <2>1, <2>2
<1>3. IsFiniteSet(R)
  <2> DEFINE f == [r \in R |-> r.lo]
  <2>1. f \in Injection(R, 0 .. n)
    <3>1. f \in [R -> 0 .. n]
      BY <1>2
    <3>2. ASSUME NEW q \in R, NEW r \in R, f[q] = f[r] PROVE q = r
      <4>1. S \in SUBSET Nat /\ q.lo = r.lo
        BY <3>2
      <4> QED BY <4>1, IntervalsDiffer
    <3> QED BY <3>1, <3>2 DEF Injection, IsInjective
  <2>2. IsFiniteSet(0 .. n)
    BY FS_Interval
  <2> HIDE DEF f, R
  <2> QED BY <2>1, <2>2, FS_Injection
<1>4. m \in Nat
  BY <1>3, FS_CardinalityType
<1>5. ASSUME NEW r \in R PROVE IsFiniteSet(Below(r)) /\ Cardinality(Below(r)) \in 0 .. (m - 1)
  <2>1. Below(r) \in SUBSET R /\ r \notin Below(r)
    BY <1>2
  <2> HIDE DEF R, Below
  <2>2. IsFiniteSet(Below(r)) /\ Cardinality(Below(r)) <= m /\ Cardinality(Below(r)) # m
    BY <1>3, <2>1, FS_Subset
  <2>3. Cardinality(Below(r)) \in Nat
    BY <2>2, FS_CardinalityType
  <2> QED BY <1>4, <2>2, <2>3
<1>6. ASSUME NEW q \in R, NEW r \in R, q.lo < r.lo
      PROVE  Cardinality(Below(q)) # Cardinality(Below(r))
  <2>1. Below(q) \in SUBSET Below(r) /\ q \in Below(r) /\ q \notin Below(q)
    BY <1>2, <1>6
  <2> HIDE DEF R, Below
  <2>2. Cardinality(Below(q)) = Cardinality(Below(r)) => Below(q) = Below(r)
    BY <1>5, <2>1, FS_Subset
  <2> QED BY <2>1, <2>2
<1>7. ASSUME NEW q \in R, NEW r \in R, Cardinality(Below(q)) = Cardinality(Below(r)) PROVE q = r
  <2>1. q.lo = r.lo
    <3>1. ~ (q.lo < r.lo) /\ ~ (r.lo < q.lo)
      BY <1>6, <1>7
    <3> QED BY <1>2, <3>1
  <2> QED BY <2>1, IntervalsDiffer
<1>8. \A k \in 0 .. (m - 1) : \E r \in R : Cardinality(Below(r)) = k
  <2>1. rank \in Injection(R, 0 .. (m - 1))
    <3>1. rank \in [R -> 0 .. (m - 1)]
      BY <1>5
    <3>2. ASSUME NEW q \in R, NEW r \in R, rank[q] = rank[r] PROVE q = r
      BY <1>7, <3>2
    <3> HIDE DEF rank
    <3> QED BY <3>1, <3>2 DEF Injection, IsInjective
  <2>2. IsFiniteSet(0 .. (m - 1)) /\ Cardinality(0 .. (m - 1)) = m
    BY <1>4, FS_Interval
  <2>3. rank \in Surjection(R, 0 .. (m - 1))
    <3> HIDE DEF rank, R
    <3> QED BY <2>1, <2>2, FS_Injection
  <2>4. \A k \in 0 .. (m - 1) : \E r \in R : rank[r] = k
    BY <2>3 DEF Surjection
  <2> QED BY <2>4
<1>9. ASSUME NEW i \in 1 .. m PROVE clumps[i] \in R /\ Cardinality(Below(clumps[i])) = i - 1
  <2>1. i - 1 \in 0 .. (m - 1)
    BY <1>4
  <2>2. \E r \in R : Cardinality(Below(r)) = i - 1
    BY <1>8, <2>1
  <2>3. clumps[i] = CHOOSE r \in R : Cardinality(Below(r)) = i - 1
    OBVIOUS
  <2> HIDE DEF clumps, R, Below
  <2> QED BY <2>2, <2>3
<1> HIDE DEF clumps
<1>10. clumps \in Seq(R) /\ DOMAIN clumps = 1 .. m
  <2>1. clumps \in [1 .. m -> R]
    <3>1. \A i \in 1 .. m : (CHOOSE r \in R : Cardinality(Below(r)) = i - 1) \in R
      BY <1>9 DEF clumps
    <3> HIDE DEF R, Below
    <3> QED BY <3>1 DEF clumps
  <2> HIDE DEF R
  <2> QED BY <1>4, <2>1
<1>11. ASSUME NEW r \in R PROVE \E i \in DOMAIN clumps : clumps[i] = r
  <2> DEFINE i == Cardinality(Below(r)) + 1
  <2>1. i \in 1 .. m /\ i - 1 = Cardinality(Below(r))
    BY <1>4, <1>5
  <2>2. clumps[i] = r
    BY <1>7, <1>9, <2>1
  <2> QED BY <1>10, <2>1, <2>2
<1>12. ASSUME 0 \in S PROVE 1 \in DOMAIN clumps /\ clumps[1].lo = 0
  <2>1. PICK r \in R : Within(0, r)
    BY <1>12, InSomeInterval
  <2>2. r.lo = 0
    BY <1>2, <2>1 DEF Within
  <2>3. 1 \in 1 .. m
    <3>1. Cardinality(Below(r)) \in 0 .. (m - 1)
      BY <1>5, <2>1
    <3> HIDE DEF m, Below
    <3> QED BY <1>4, <3>1
  <2>4. clumps[1] \in R /\ Cardinality(Below(clumps[1])) = 0
    BY <1>9, <2>3
  <2>5. Below(clumps[1]) = {}
    BY <1>5, <2>4, FS_EmptySet
  <2>6. ~ (r.lo < clumps[1].lo)
    BY <2>1, <2>5
  <2> QED BY <1>2, <1>10, <2>2, <2>3, <2>4, <2>6
<1> QED BY <1>1, <1>10, <1>11, <1>12

\* The ranges complement builds are in order; they hold what remains when
\* character 0 does.
LEMMA ComplementedFacts ==
    ASSUME Remaining # {}
    PROVE  /\ Complemented \in Seq(Rng) /\ Proper(Complemented)
           /\ 0 \in Remaining => \A c \in Int : Holds(Complemented, c) <=> c \in Remaining
<1> DEFINE S == Remaining
           clumps == Clumps(S)
<1>1. MaxChar \in Nat /\ S \in SUBSET (0 .. MaxChar) /\ S # {}
  BY CharInt DEF Remaining, AllCharacters
<1> HIDE DEF S
<1>2. /\ clumps \in Seq(Intervals(S))
      /\ \A r \in Intervals(S) : \E i \in DOMAIN clumps : clumps[i] = r
      /\ 0 \in S => 1 \in DOMAIN clumps /\ clumps[1].lo = 0
  BY <1>1, ClumpsFacts
<1>3. Complemented = [clumps EXCEPT ![1] = [lo |-> 0, hi |-> clumps[1].hi - clumps[1].lo]]
  BY DEF Complemented, S
<1> HIDE DEF clumps
<1> DEFINE first1 == [lo |-> 0, hi |-> clumps[1].hi - clumps[1].lo]
<1>4. \A r \in Intervals(S) :
          /\ r \in Rng /\ r.lo \in 0 .. MaxChar /\ r.hi \in 0 .. MaxChar /\ r.lo <= r.hi
          /\ r.lo .. r.hi \subseteq S /\ r = [lo |-> r.lo, hi |-> r.hi]
  <2>1. S \subseteq Char /\ S \subseteq 0 .. MaxChar
    BY <1>1, CharInt DEF Char
  <2>2. ASSUME NEW r \in Intervals(S)
        PROVE  /\ r \in [lo : S, hi : S] /\ r.lo <= r.hi /\ r.lo .. r.hi \subseteq S
    BY DEF Intervals
  <2> QED BY <2>1, <2>2 DEF Rng
<1>5. 1 \in DOMAIN clumps
  <2>1. PICK c \in S : TRUE
    BY <1>1
  <2>2. PICK r \in Intervals(S) : Within(c, r)
    BY <1>1, InSomeInterval
  <2>3. PICK i \in DOMAIN clumps : clumps[i] = r
    BY <1>2
  <2> QED BY <1>2, <2>3
<1>6. first1 \in Rng /\ first1.lo <= first1.hi
  <2>1. clumps[1] \in Intervals(S)
    BY <1>2, <1>5
  <2>2. clumps[1].hi - clumps[1].lo \in 0 .. MaxChar
    BY <1>1, <1>4, <2>1
  <2>3. clumps[1].hi - clumps[1].lo \in Char /\ 0 \in Char /\ 0 <= clumps[1].hi - clumps[1].lo
    BY <1>1, <2>2, CharInt DEF Char
  <2> QED BY <2>3 DEF Rng
<1> HIDE DEF first1
<1>7. /\ Complemented \in Seq(Rng) /\ DOMAIN Complemented = DOMAIN clumps
      /\ Complemented[1] = first1
      /\ \A i \in DOMAIN clumps : i # 1 => Complemented[i] = clumps[i]
  <2>1. clumps \in Seq(Rng)
    <3>1. Intervals(S) \subseteq Rng
      BY <1>4
    <3> QED BY <1>2, <3>1
  <2>2. [clumps EXCEPT ![1] = first1] \in Seq(Rng)
    BY <1>5, <1>6, <2>1
  <2>3. Complemented = [clumps EXCEPT ![1] = first1]
    BY <1>3 DEF first1
  <2> QED BY <1>5, <2>1, <2>2, <2>3
<1>8. \A i \in DOMAIN clumps : clumps[i] \in Intervals(S)
  BY <1>2
<1>9. Proper(Complemented)
  BY <1>4, <1>6, <1>7, <1>8 DEF Proper
<1>10. ASSUME 0 \in S PROVE \A c \in Int : Holds(Complemented, c) <=> c \in S
  <2>1. clumps[1].lo = 0 /\ clumps[1] \in Intervals(S)
    BY <1>2, <1>8, <1>10
  <2>2. first1 = clumps[1]
    BY <1>1, <1>4, <2>1 DEF first1
  <2>3. \A i \in DOMAIN clumps : Complemented[i] = clumps[i]
    BY <1>7, <2>2
  <2>4. ASSUME NEW c \in Int, NEW i \in DOMAIN clumps, Within(c, clumps[i]) PROVE c \in S
    <3>1. clumps[i] \in Intervals(S)
      BY <1>8
    <3>2. c \in clumps[i].lo .. clumps[i].hi
      BY <1>4, <2>4, <3>1 DEF Within
    <3> QED BY <1>4, <3>1, <3>2
  <2>5. ASSUME NEW c \in S PROVE \E i \in DOMAIN clumps : Within(c, clumps[i])
    <3>1. PICK r \in Intervals(S) : Within(c, r)
      BY <1>1, InSomeInterval
    <3> QED BY <1>2, <3>1
  <2> QED BY <1>7, <2>3, <2>4, <2>5, HoldsWithin
<1> QED BY <1>7, <1>9, <1>10 DEF S

-----------------------------------------------------------------------------
(* The inductive invariant. *)

\* The list is one of ranges over char, and the iterators are in order.
TypeInv ==
    /\ ranges \in Seq(Rng)
    /\ first \in Nat \ {0} /\ second \in Nat /\ first < second
    /\ asked \in SUBSET Char
    /\ proper \in BOOLEAN /\ negated \in BOOLEAN /\ inverted \in BOOLEAN

\* How far an edge is: a negated one has been inverted when it is merged, and
\* one of a DFA is never negated.
StageInv ==
    /\ stage \in {"add", "scan", "optimized", "merge", "done", "undefined"}
    /\ inverted => negated /\ stage \in {"scan", "merge", "done"}
    /\ stage \in {"merge", "done"} /\ negated => inverted
    /\ stage \in {"optimized", "undefined"} => negated
    /\ grower = "DFA" =>
           /\ proper /\ ~negated /\ stage \in {"add", "scan", "done"}
           /\ asked \subseteq 0 .. MaxChar

\* What the edge holds, and that the scan meets no gap it would fill.
KeptInv ==
    /\ proper \/ inverted => Proper(ranges)
    /\ proper /\ ~inverted => \A c \in Int : Holds(ranges, c) <=> c \in asked
    /\ proper /\ inverted /\ 0 \notin asked =>
           \A c \in Int : Holds(ranges, c) <=> c \in AllCharacters \ asked
    /\ stage = "scan" /\ (proper \/ inverted) => Bridged(ranges)
    /\ stage = "undefined" /\ proper => AllCharacters \subseteq asked

\* The ranges of an edge of a DFA are apart from the start, in order from the
\* sort on, and with a gap between any two behind the scan.
DfaInv ==
    grower = "DFA" =>
        /\ stage = "add" => Apart(ranges)
        /\ stage = "scan" => Ascending(ranges) /\ Scanned(ranges, first, second)
        /\ stage = "done" =>
               \A i, j \in DOMAIN ranges : i < j => ranges[i].hi + 1 < ranges[j].lo

EdgeInv == TypeInv /\ StageInv /\ KeptInv /\ DfaInv

\* Every edge begins empty.
LEMMA EdgeInit == Init => EdgeInv
<1> SUFFICES ASSUME Init PROVE EdgeInv
  OBVIOUS
<1>1. /\ grower \in {"characterClass", "DFA"} /\ stage = "add" /\ asked = {} /\ proper = TRUE
      /\ inverted = FALSE /\ ranges = <<>> /\ first = 1 /\ second = 2
      /\ negated \in BOOLEAN /\ (grower = "DFA" => negated = FALSE)
  BY DEF Init
<1>2. ranges \in Seq(Rng) /\ DOMAIN ranges = {}
  BY <1>1
<1>3. TypeInv
  <2>1. first \in Nat \ {0} /\ second \in Nat /\ first < second
    BY <1>1
  <2>2. asked \in SUBSET Char /\ proper \in BOOLEAN /\ inverted \in BOOLEAN
    BY <1>1
  <2> QED BY <1>1, <1>2, <2>1, <2>2 DEF TypeInv
<1>4. StageInv
  BY <1>1 DEF StageInv
<1>5. KeptInv
  BY <1>1, <1>2 DEF KeptInv, Proper, Holds
<1>6. DfaInv
  BY <1>1, <1>2 DEF DfaInv, Apart
<1> QED BY <1>3, <1>4, <1>5, <1>6 DEF EdgeInv

\* A range of one character is a range.
LEMMA OneChar ==
    ASSUME NEW c \in 0 .. MaxChar
    PROVE  [lo |-> c, hi |-> c] \in Rng /\ \A x \in Int : Within(x, [lo |-> c, hi |-> c]) <=> x = c
<1>1. c \in Char
  BY CharInt DEF Char
<1> QED BY <1>1 DEF Rng, Within

\* The pair the iterators are at, when there is one.
LEMMA Pair ==
    ASSUME TypeInv, second <= Len(ranges)
    PROVE  first \in DOMAIN ranges /\ second \in DOMAIN ranges
  BY DEF TypeInv

\* Every step keeps the types.
LEMMA TypeStep == TypeInv /\ StageInv /\ [Next]_vars => TypeInv'
<1> SUFFICES ASSUME TypeInv, StageInv, [Next]_vars PROVE TypeInv'
  OBVIOUS
<1> USE DEF TypeInv
<1>1. CASE AddRange
  <2>1. PICK n \in Classes :
            /\ ranges' = WithRange(ranges, n)
            /\ asked' = asked \cup Chars(<<n>>)
            /\ proper' = (proper /\ n.lo <= n.hi)
    BY <1>1 DEF AddRange
  <2>2. n \in Rng
    BY BoundsAssumption DEF Rng, Char
  <2>3. ranges' \in Seq(Rng)
    BY <2>1, <2>2, WithRangeHolds
  <2>4. asked' \in SUBSET Char
    BY <2>1 DEF Chars, Char
  <2> QED BY <1>1, <2>1, <2>3, <2>4 DEF AddRange
<1>2. CASE AddChar
  <2>1. PICK c \in (0 .. MaxChar) \ asked :
            /\ ranges' = WithRange(ranges, [lo |-> c, hi |-> c])
            /\ asked' = asked \cup {c}
    BY <1>2 DEF AddChar
  <2>2. ranges' \in Seq(Rng)
    BY <2>1, OneChar, WithRangeHolds
  <2>3. asked' \in SUBSET Char
    <3>1. c \in Char
      BY CharInt DEF Char
    <3> QED BY <2>1, <3>1
  <2> QED BY <1>2, <2>2, <2>3 DEF AddChar
<1>3. CASE Optimize
  <2>1. ranges' \in Seq(Rng)
    BY <1>3, SortedFacts DEF Optimize
  <2> QED BY <1>3, <2>1 DEF Optimize
<1>4. CASE CollapsePair
  <2> DEFINE c == Collapsed(ranges[first], ranges[second])
  <2>1. first \in DOMAIN ranges /\ second \in DOMAIN ranges
    BY <1>4, Pair DEF CollapsePair
  <2>2. c # <<>> /\ ranges' = AfterCollapse(ranges, first, second, c[1])
    BY <1>4 DEF CollapsePair, AfterCollapse
  <2>3. c[1] \in Rng
    BY <2>1, <2>2, CollapsedBounds
  <2> HIDE DEF c
  <2>4. CollapseOf(ranges, first, second, c[1], ranges')
    BY <2>1, <2>2, <2>3, CollapseShape
  <2>5. ranges' \in Seq(Rng)
    BY <2>4 DEF CollapseOf
  <2> QED BY <1>4, <2>5 DEF CollapsePair
<1>5. CASE KeepPair
  BY <1>5 DEF KeepPair
<1>6. CASE NextFirst
  BY <1>6 DEF NextFirst, FirstMoved
<1>7. CASE EndScan
  BY <1>7 DEF EndScan
<1>8. CASE Complement
  <2>1. AddAll(Complemented) \in Seq(Rng)
    BY <1>8, ComplementedFacts, AddAllHolds DEF Complement
  <2>2. ranges' \in Seq(Rng)
    BY <1>8, <2>1, SortedFacts DEF Complement
  <2> QED BY <1>8, <2>2 DEF Complement
<1>9. CASE ComplementNothing
  BY <1>9 DEF ComplementNothing
<1>10. CASE Merge
  <2>1. ranges' \in Seq(Rng)
    BY <1>10, AddAllHolds DEF Merge
  <2> QED BY <1>10, <2>1 DEF Merge
<1>11. CASE UNCHANGED vars
  BY <1>11 DEF vars
<1> QED BY <1>1, <1>2, <1>3, <1>4, <1>5, <1>6, <1>7, <1>8, <1>9, <1>10, <1>11 DEF Next, Ended

\* And the stages.
LEMMA StageStep == TypeInv /\ StageInv /\ [Next]_vars => StageInv'
<1> SUFFICES ASSUME TypeInv, StageInv, [Next]_vars PROVE StageInv'
  OBVIOUS
<1> USE DEF TypeInv, StageInv
<1>1. CASE AddRange
  BY <1>1 DEF AddRange
<1>2. CASE AddChar
  BY <1>2 DEF AddChar
<1>3. CASE Optimize
  BY <1>3 DEF Optimize
<1>4. CASE CollapsePair
  BY <1>4 DEF CollapsePair
<1>5. CASE KeepPair
  BY <1>5 DEF KeepPair
<1>6. CASE NextFirst
  BY <1>6 DEF NextFirst
<1>7. CASE EndScan
  BY <1>7 DEF EndScan
<1>8. CASE Complement
  BY <1>8 DEF Complement
<1>9. CASE ComplementNothing
  BY <1>9 DEF ComplementNothing
<1>10. CASE Merge
  BY <1>10 DEF Merge
<1>11. CASE UNCHANGED vars
  BY <1>11 DEF vars
<1> QED BY <1>1, <1>2, <1>3, <1>4, <1>5, <1>6, <1>7, <1>8, <1>9, <1>10, <1>11 DEF Next, Ended

\* And what the edge holds.
LEMMA KeptStep == TypeInv /\ StageInv /\ KeptInv /\ [Next]_vars => KeptInv'
<1> SUFFICES ASSUME TypeInv, StageInv, KeptInv, [Next]_vars PROVE KeptInv'
  OBVIOUS
<1> DEFINE Kept(rs) ==
        /\ proper \/ inverted => Proper(rs)
        /\ proper /\ ~inverted => \A c \in Int : Holds(rs, c) <=> c \in asked
        /\ proper /\ inverted /\ 0 \notin asked =>
               \A c \in Int : Holds(rs, c) <=> c \in AllCharacters \ asked
<1>1. Kept(ranges) /\ ranges \in Seq(Rng)
  BY DEF KeptInv, TypeInv
<1>2. ASSUME NEW rs, UNCHANGED <<proper, inverted, asked>>, ranges' = rs, Kept(rs),
             stage' = "scan" /\ (proper \/ inverted) => Bridged(rs),
             stage' # "undefined"
      PROVE  KeptInv'
  BY <1>2 DEF KeptInv
<1>3. CASE AddRange
  <2>1. PICK n \in Classes :
            /\ ranges' = WithRange(ranges, n)
            /\ asked' = asked \cup Chars(<<n>>)
            /\ proper' = (proper /\ n.lo <= n.hi)
    BY <1>3 DEF AddRange
  <2>2. n \in Rng
    BY BoundsAssumption DEF Rng, Char
  <2>3. stage = "add" /\ stage' = "add" /\ inverted' = inverted /\ ~inverted
    BY <1>3 DEF AddRange, StageInv
  <2>4. ASSUME proper' PROVE Proper(ranges') /\ \A c \in Int : Holds(ranges', c) <=> c \in asked'
    <3>1. /\ Proper(WithRange(ranges, n))
          /\ \A c \in Int : Holds(WithRange(ranges, n), c) <=> Holds(ranges, c) \/ Within(c, n)
      BY <1>1, <2>1, <2>2, <2>3, <2>4, WithRangeHolds
    <3>2. \A c \in Int : c \in Chars(<<n>>) <=> Within(c, n)
      <4>1. \A c : Holds(<<n>>, c) <=> Within(c, n)
        <5>1. DOMAIN <<n>> = {1} /\ <<n>>[1] = n
          OBVIOUS
        <5> QED BY <5>1, HoldsWithin
      <4>2. \A c \in Int : Within(c, n) => c \in Char
        BY <2>2, CharInt DEF Within, Rng, Char
      <4> QED BY <4>1, <4>2 DEF Chars, Char
    <3> QED BY <1>1, <2>1, <2>3, <2>4, <3>1, <3>2
  <2> QED BY <2>3, <2>4 DEF KeptInv
<1>4. CASE AddChar
  <2>1. PICK c \in (0 .. MaxChar) \ asked :
            /\ ranges' = WithRange(ranges, [lo |-> c, hi |-> c])
            /\ asked' = asked \cup {c}
    BY <1>4 DEF AddChar
  <2> DEFINE n == [lo |-> c, hi |-> c]
  <2>2. n \in Rng /\ n.lo <= n.hi /\ \A x \in Int : Within(x, n) <=> x = c
    BY OneChar
  <2>3. /\ stage = "add" /\ stage' = "add" /\ inverted' = inverted /\ ~inverted
        /\ proper' = proper /\ proper
    BY <1>4 DEF AddChar, StageInv
  <2> HIDE DEF n
  <2>4. /\ Proper(WithRange(ranges, n))
        /\ \A x \in Int : Holds(WithRange(ranges, n), x) <=> Holds(ranges, x) \/ Within(x, n)
    BY <1>1, <2>2, <2>3, WithRangeHolds
  <2>5. Proper(ranges') /\ \A x \in Int : Holds(ranges', x) <=> x \in asked'
    BY <1>1, <2>1, <2>2, <2>3, <2>4 DEF n
  <2> QED BY <2>3, <2>5 DEF KeptInv
<1>5. CASE Optimize
  <2>1. /\ ranges' = Sorted(ranges) /\ stage' = "scan"
        /\ UNCHANGED <<proper, inverted, asked>>
    BY <1>5 DEF Optimize
  <2>2. Kept(Sorted(ranges))
    BY <1>1, SortedHolds
  <2>3. proper \/ inverted => Bridged(Sorted(ranges))
    BY <1>1, SortedFacts
  <2> HIDE DEF Kept
  <2> QED BY <1>2, <2>1, <2>2, <2>3
<1>6. CASE CollapsePair
  <2> DEFINE c == Collapsed(ranges[first], ranges[second])
             new == AfterCollapse(ranges, first, second, c[1])
  <2>1. first \in DOMAIN ranges /\ second \in DOMAIN ranges /\ first < second
    BY <1>6, Pair DEF CollapsePair, TypeInv
  <2>2. /\ c # <<>> /\ ranges' = new
        /\ stage = "scan" /\ stage' = stage /\ UNCHANGED <<proper, inverted, asked>>
    BY <1>6 DEF CollapsePair, AfterCollapse
  <2>3. ASSUME proper \/ inverted
        PROVE  Proper(new) /\ Bridged(new) /\ \A x \in Int : Holds(new, x) <=> Holds(ranges, x)
    <3>1. Proper(ranges) /\ Bridged(ranges)
      BY <2>2, <2>3 DEF KeptInv
    <3> QED BY <1>1, <2>1, <2>2, <3>1, CollapseKeeps
  <2> HIDE DEF new
  <2>4. Kept(new)
    BY <1>1, <2>3
  <2> HIDE DEF Kept
  <2> QED BY <1>2, <2>2, <2>3, <2>4
<1>7. CASE KeepPair
  BY <1>7 DEF KeepPair, KeptInv
<1>8. CASE NextFirst
  BY <1>8 DEF NextFirst, KeptInv
<1>9. CASE EndScan
  BY <1>9 DEF EndScan, KeptInv
<1>10. CASE Complement
  <2> DEFINE mid == AddAll(Complemented)
  <2>1. /\ stage = "optimized" /\ Remaining # {} /\ ranges' = Sorted(mid) /\ stage' = "scan"
        /\ inverted' = TRUE /\ UNCHANGED <<proper, asked>>
    BY <1>10 DEF Complement
  <2>2. /\ Complemented \in Seq(Rng) /\ Proper(Complemented)
        /\ 0 \in Remaining => \A c \in Int : Holds(Complemented, c) <=> c \in Remaining
    BY <2>1, ComplementedFacts
  <2>3. /\ mid \in Seq(Rng) /\ Proper(mid)
        /\ \A c \in Int : Holds(mid, c) <=> Holds(Complemented, c)
    BY <2>2, AddAllHolds
  <2> HIDE DEF mid
  <2>4. /\ Proper(ranges') /\ Bridged(ranges')
        /\ \A c \in Int : Holds(ranges', c) <=> Holds(Complemented, c)
    BY <2>1, <2>3, SortedFacts, SortedHolds
  <2>5. ASSUME proper, 0 \notin asked
        PROVE  \A c \in Int : Holds(ranges', c) <=> c \in AllCharacters \ asked
    <3>1. ~inverted
      BY <2>1 DEF StageInv
    <3>2. \A c \in AllCharacters : c \in Int
      BY DEF AllCharacters
    <3>3. \A c \in Int : c \in Remaining <=> c \in AllCharacters \ asked
      BY <1>1, <2>5, <3>1, <3>2 DEF Remaining
    <3>4. 0 \in Remaining
      <4>1. PICK c \in AllCharacters : TRUE
        BY <2>1 DEF Remaining
      <4>2. 0 \in AllCharacters
        BY <4>1, CharInt DEF AllCharacters
      <4> QED BY <2>5, <3>3, <4>2
    <3> QED BY <2>2, <2>4, <3>3, <3>4
  <2> QED BY <2>1, <2>4, <2>5 DEF KeptInv
<1>11. CASE ComplementNothing
  <2>1. /\ stage = "optimized" /\ Remaining = {} /\ stage' = "undefined"
        /\ UNCHANGED <<proper, inverted, asked, ranges>>
    BY <1>11 DEF ComplementNothing
  <2>2. ASSUME proper, NEW c \in AllCharacters PROVE c \in asked
    <3>1. ~inverted /\ c \in Int
      BY <2>1 DEF StageInv, AllCharacters
    <3>2. Holds(ranges, c)
      BY <2>1 DEF Remaining
    <3> QED BY <1>1, <2>2, <3>1, <3>2
  <2> QED BY <2>1, <2>2 DEF KeptInv
<1>12. CASE Merge
  <2>1. /\ ranges' = AddAll(ranges) /\ stage' = "done"
        /\ UNCHANGED <<proper, inverted, asked>>
    BY <1>12 DEF Merge
  <2>2. Kept(AddAll(ranges))
    BY <1>1, AddAllHolds
  <2> HIDE DEF Kept
  <2> QED BY <1>2, <2>1, <2>2
<1>13. CASE UNCHANGED vars
  BY <1>13 DEF vars, KeptInv
<1> QED BY <1>3, <1>4, <1>5, <1>6, <1>7, <1>8, <1>9, <1>10, <1>11, <1>12, <1>13 DEF Next, Ended

\* And the order of the ranges of an edge of a DFA.
LEMMA DfaStep == EdgeInv /\ [Next]_vars => DfaInv'
<1> SUFFICES ASSUME TypeInv, StageInv, KeptInv, DfaInv, [Next]_vars, grower' = "DFA"
             PROVE  /\ stage' = "add" => Apart(ranges')
                    /\ stage' = "scan" => Ascending(ranges') /\ Scanned(ranges', first', second')
                    /\ stage' = "done" =>
                           \A i, j \in DOMAIN ranges' : i < j => ranges'[i].hi + 1 < ranges'[j].lo
  BY DEF EdgeInv, DfaInv
<1>1. grower = "DFA"
  BY DEF Next, AddRange, AddChar, Optimize, CollapsePair, KeepPair, NextFirst, EndScan,
         Complement, ComplementNothing, Merge, Ended, vars
<1>2. /\ ranges \in Seq(Rng) /\ proper /\ ~negated /\ ~inverted /\ Proper(ranges)
      /\ stage \in {"add", "scan", "done"}
      /\ \A c \in Int : Holds(ranges, c) <=> c \in asked
  BY <1>1 DEF TypeInv, StageInv, KeptInv
<1>3. /\ stage = "add" => Apart(ranges)
      /\ stage = "scan" => Ascending(ranges) /\ Scanned(ranges, first, second)
  BY <1>1 DEF DfaInv
<1>4. Len(ranges) \in Nat /\ DOMAIN ranges = 1 .. Len(ranges)
  BY <1>2
<1>5. first \in Nat /\ second \in Nat /\ first < second
  BY DEF TypeInv
<1>6. CASE AddChar
  <2>1. PICK c \in (0 .. MaxChar) \ asked : ranges' = WithRange(ranges, [lo |-> c, hi |-> c])
    BY <1>6 DEF AddChar
  <2> DEFINE n == [lo |-> c, hi |-> c]
  <2>2. n \in Rng /\ n.lo <= n.hi /\ \A x \in Int : Within(x, n) <=> x = c
    BY OneChar
  <2>3. stage = "add" /\ stage' = "add" /\ ranges' = WithRange(ranges, n)
    BY <1>6, <2>1 DEF AddChar
  <2> HIDE DEF n
  <2>4. Apart(WithRange(ranges, n))
    BY <1>2, <1>3, <2>2, <2>3, WithRangeApart
  <2> QED BY <2>3, <2>4
<1>7. CASE Optimize
  <2>1. stage = "add" /\ stage' = "scan" /\ ranges' = Sorted(ranges) /\ first' = 1 /\ second' = 2
    BY <1>7 DEF Optimize
  <2>2. Ascending(ranges') /\ ranges' \in Seq(Rng)
    BY <1>2, <1>3, <2>1, SortedFacts
  <2>3. Scanned(ranges', 1, 2)
    <3>1. \A i, j \in DOMAIN ranges' : ~ (i < j /\ (i < 1 \/ (i = 1 /\ j < 2)))
      BY <2>2
    <3> QED BY <3>1 DEF Scanned
  <2> QED BY <2>1, <2>2, <2>3
<1>8. CASE CollapsePair
  <2> DEFINE c == Collapsed(ranges[first], ranges[second])
             new == AfterCollapse(ranges, first, second, c[1])
  <2>1. first \in DOMAIN ranges /\ second \in DOMAIN ranges
    BY <1>8, Pair DEF CollapsePair
  <2>2. /\ c # <<>> /\ ranges' = new
        /\ stage = "scan" /\ stage' = stage /\ first' = first /\ second' = second
    BY <1>8 DEF CollapsePair, AfterCollapse
  <2>3. Ascending(new) /\ Scanned(new, first, second)
    BY <1>2, <1>3, <1>5, <2>1, <2>2, CollapseAscending
  <2> HIDE DEF new
  <2> QED BY <2>2, <2>3
<1>9. CASE KeepPair
  <2>1. /\ stage = "scan" /\ stage' = stage /\ ranges' = ranges /\ first' = first
        /\ second' = second + 1
        /\ Collapsed(ranges[first], ranges[second]) = <<>>
    BY <1>9 DEF KeepPair
  <2>2. first \in DOMAIN ranges /\ second \in DOMAIN ranges
    BY <1>9, Pair DEF KeepPair
  <2>3. ranges[first].hi < ranges[second].lo
    BY <1>3, <1>5, <2>1, <2>2 DEF Ascending
  <2>4. ranges[first].hi + 1 # ranges[second].lo
    BY <2>1 DEF Collapsed
  <2>5. ranges[first].hi + 1 < ranges[second].lo
    <3>1. ranges[first].hi \in Int /\ ranges[second].lo \in Int
      BY <1>2, <2>2, Bounds
    <3> QED BY <2>3, <2>4, <3>1
  <2>6. Scanned(ranges, first, second + 1)
    <3>1. \A j \in DOMAIN ranges : j < second + 1 => j < second \/ j = second
      BY <1>4, <1>5
    <3> QED BY <1>3, <2>1, <2>5, <3>1 DEF Scanned
  <2> QED BY <1>3, <2>1, <2>6
<1>10. CASE NextFirst
  <2>1. /\ stage = "scan" /\ stage' = stage /\ ranges' = ranges /\ first' = first + 1
        /\ second' = first + 2 /\ second > Len(ranges)
    BY <1>10 DEF NextFirst, FirstMoved
  <2>2. Scanned(ranges, first + 1, first + 2)
    <3>1. ASSUME NEW i \in DOMAIN ranges, NEW j \in DOMAIN ranges,
                 i < j /\ (i < first + 1 \/ (i = first + 1 /\ j < first + 2))
          PROVE  i < first \/ (i = first /\ j < second)
      BY <1>4, <1>5, <2>1, <3>1
    <3> QED BY <1>3, <2>1, <3>1 DEF Scanned
  <2> QED BY <1>3, <2>1, <2>2
<1>11. CASE EndScan
  <2>1. /\ stage = "scan" /\ stage' = "done" /\ ranges' = ranges /\ first > Len(ranges)
    BY <1>1, <1>11 DEF EndScan
  <2>2. \A i \in DOMAIN ranges : i < first
    BY <1>4, <1>5, <2>1
  <2> QED BY <1>3, <2>1, <2>2 DEF Scanned
<1>12. CASE UNCHANGED vars
  BY <1>1, <1>12 DEF vars, DfaInv
<1>13. ~AddRange /\ ~Complement /\ ~ComplementNothing /\ ~Merge
  BY <1>1, <1>2 DEF AddRange, Complement, ComplementNothing, Merge
<1> QED BY <1>6, <1>7, <1>8, <1>9, <1>10, <1>11, <1>12, <1>13 DEF Next, Ended

\* Every step keeps the invariant.
LEMMA EdgeStep == EdgeInv /\ [Next]_vars => EdgeInv'
  BY TypeStep, StageStep, KeptStep, DfaStep DEF EdgeInv

\* The invariant holds throughout.
LEMMA EdgeInvariant == Spec => []EdgeInv
  BY EdgeInit, EdgeStep, PTL DEF Spec

-----------------------------------------------------------------------------
(* What it says. *)

\* addRange, the sort, the scan and the merge of an edge, Edge's whole life,
\* neither lose nor invent a character when no range has its bounds reversed.
THEOREM NoCharLost == Spec => []CharsKept
<1>1. EdgeInv => CharsKept
  <2> SUFFICES ASSUME EdgeInv, proper, ~inverted PROVE Chars(ranges) = asked
    BY DEF CharsKept
  <2>1. \A c \in Int : Holds(ranges, c) <=> c \in asked
    BY DEF EdgeInv, KeptInv
  <2>2. asked \subseteq Char
    BY DEF EdgeInv, TypeInv
  <2> QED BY <2>1, <2>2, CharInt DEF Chars, Char
<1> QED BY <1>1, EdgeInvariant, PTL

\* However the characters of an edge of a DFA come, its ranges end up in order
\* and with a gap between any two.
THEOREM EdgesMinimal == Spec => []Minimal
<1>1. EdgeInv => Minimal
  BY DEF EdgeInv, DfaInv, Minimal
<1> QED BY <1>1, EdgeInvariant, PTL

\* complement yields the characters from 0 up to the last but one that the
\* class lacks, and fails only for a class that lacks none of them.
THEOREM ComplementIsExact == Spec => []ComplementExact
<1>1. EdgeInv => ComplementExact
  <2> SUFFICES ASSUME EdgeInv PROVE ComplementExact
    OBVIOUS
  <2>1. ASSUME stage = "done", negated, proper, 0 \notin asked
        PROVE  Chars(ranges) = AllCharacters \ asked
    <3>1. inverted
      BY <2>1 DEF EdgeInv, StageInv
    <3>2. \A c \in Int : Holds(ranges, c) <=> c \in AllCharacters \ asked
      BY <2>1, <3>1 DEF EdgeInv, KeptInv
    <3>3. AllCharacters \subseteq Char
      BY CharInt DEF AllCharacters, Char
    <3> QED BY <3>2, <3>3, CharInt DEF Chars, Char
  <2>2. ASSUME stage = "undefined", proper PROVE AllCharacters \subseteq asked
    BY <2>2 DEF EdgeInv, KeptInv
  <2> QED BY <2>1, <2>2 DEF ComplementExact
<1> QED BY <1>1, EdgeInvariant, PTL

\* languageChars tells of no character the edge lacks, of none below 0, and
\* misses one only when the edge holds all of -1 up to it.
THEOREM AlphabetIsExact == Spec => []AlphabetExact
<1>1. EdgeInv => AlphabetExact
  <2> SUFFICES ASSUME EdgeInv
               PROVE  /\ LanguageChars(ranges) \subseteq Chars(ranges) \cap Nat
                      /\ \A c \in Chars(ranges) \cap Nat :
                             ~((-1) .. c \subseteq Chars(ranges)) => c \in LanguageChars(ranges)
    BY DEF AlphabetExact
  <2>1. ranges \in Seq(Rng)
    BY DEF EdgeInv, TypeInv
  <2>2. \A i \in DOMAIN ranges : /\ ranges[i].lo \in Int /\ ranges[i].hi \in Int
                                 /\ ranges[i].lo \in Char /\ ranges[i].hi \in Char
    BY <2>1, Bounds
  <2>3. ASSUME NEW x \in LanguageChars(ranges) PROVE x \in Chars(ranges) \cap Nat
    <3>1. PICK i \in DOMAIN ranges : x \in Byte(ranges[i].lo) .. ranges[i].hi
      BY DEF LanguageChars
    <3>2. ranges[i].lo >= 0 /\ x \in ranges[i].lo .. ranges[i].hi
      BY <2>2, <3>1, BoundsAssumption DEF Byte, Char, MinChar
    <3>3. x \in Char /\ x \in Nat
      BY <2>2, <3>2, CharInt DEF Char
    <3> QED BY <3>2, <3>3 DEF Chars, Char, Holds
  <2>4. ASSUME NEW c \in Chars(ranges) \cap Nat, ~((-1) .. c \subseteq Chars(ranges))
        PROVE  c \in LanguageChars(ranges)
    <3>1. PICK i \in DOMAIN ranges : ranges[i].lo <= c /\ c <= ranges[i].hi
      BY DEF Chars, Holds
    <3>2. PICK x \in (-1) .. c : x \notin Chars(ranges)
      BY <2>4
    <3>3. ranges[i].lo >= 0
      <4>1. ASSUME ranges[i].lo < 0 PROVE x \in Chars(ranges)
        <5>1. ranges[i].lo <= x /\ x <= ranges[i].hi /\ x \in Char
          BY <2>2, <3>1, <4>1, CharInt DEF Char
        <5> QED BY <5>1 DEF Chars, Char, Holds
      <4> QED BY <2>2, <3>2, <4>1
    <3>4. c \in Byte(ranges[i].lo) .. ranges[i].hi
      BY <2>2, <3>1, <3>3 DEF Byte
    <3> QED BY <3>4 DEF LanguageChars
  <2> QED BY <2>3, <2>4
<1> QED BY <1>1, EdgeInvariant, PTL

\* Of all bytes, just the characters an edge of a DFA was grown from pass the
\* test generated for it.
THEOREM GeneratedTestIsExact == Spec => []GeneratedTestExact
<1>1. EdgeInv => GeneratedTestExact
  <2> SUFFICES ASSUME EdgeInv, grower = "DFA"
               PROVE  {b \in 0 .. (NegativeChars + MaxChar) : TestEdge(ranges, b)} = asked
    BY DEF GeneratedTestExact
  <2>1. /\ ranges \in Seq(Rng) /\ Proper(ranges) /\ asked \subseteq 0 .. MaxChar
        /\ \A c \in Int : Holds(ranges, c) <=> c \in asked
    BY DEF EdgeInv, TypeInv, StageInv, KeptInv
  <2>2. \A i \in DOMAIN ranges : ranges[i].lo \in Int /\ ranges[i].hi \in Int /\ ranges[i].lo <= ranges[i].hi
    BY <2>1, Bounds DEF Proper
  <2>3. ASSUME NEW i \in DOMAIN ranges
        PROVE  Byte(ranges[i].lo) = ranges[i].lo /\ Byte(ranges[i].hi) = ranges[i].hi
    <3>1. Holds(ranges, ranges[i].lo)
      BY <2>2 DEF Holds
    <3>2. ranges[i].lo \in 0 .. MaxChar
      BY <2>1, <2>2, <3>1
    <3> QED BY <2>2, <3>2 DEF Byte
  <2>4. ASSUME NEW b \in Int PROVE TestEdge(ranges, b) <=> Holds(ranges, b)
    <3>1. \A i \in DOMAIN ranges :
              (IF ranges[i].lo = ranges[i].hi THEN b = Byte(ranges[i].lo)
               ELSE Byte(ranges[i].lo) <= b /\ b <= Byte(ranges[i].hi))
              <=> (ranges[i].lo <= b /\ b <= ranges[i].hi)
      BY <2>2, <2>3
    <3> QED BY <3>1 DEF TestEdge, Holds
  <2>5. 0 .. MaxChar \subseteq 0 .. (NegativeChars + MaxChar) /\ 0 .. (NegativeChars + MaxChar) \subseteq Int
    BY BoundsAssumption
  <2> QED BY <2>1, <2>4, <2>5
<1> QED BY <1>1, EdgeInvariant, PTL

=============================================================================
