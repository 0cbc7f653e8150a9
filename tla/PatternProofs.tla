--------------------------- MODULE PatternProofs ---------------------------
(***************************************************************************)
(* The theorems about PatternParser, the builders of NfaBuilders and       *)
(* CompiledPattern, for every alphabet, every set of atoms and counts, and *)
(* patterns of any length and nesting.                                     *)
(*                                                                         *)
(* An NFA is looked at as a graph: Joins forgets what kind of edge joins   *)
(* two states, since concat_helper may turn one kind into the other.  That *)
(* every state is on a path from the start is said of the sets no edge     *)
(* leads out of, so that no induction over paths is needed.  A piece is an *)
(* NFA of Thompson's shape, a fragment a piece or the NFA without states;  *)
(* each builder makes fragments of fragments.  A piece is live if it has   *)
(* no dead end and its edges accept sets of characters of a family E none  *)
(* of which is empty; builders make live pieces of live ones.              *)
(*                                                                         *)
(* What an NFA accepts is said in the same way, of places: a position of a *)
(* word and a state.  A way leads from one place to another if the second  *)
(* is in every set of places that holds the first and that the NFA does    *)
(* not leave.  An NFA means a set of words if the ways from its start to   *)
(* its stop state read the parts of words that are in the set, and each    *)
(* builder makes an NFA that means what it is built for.                   *)
(*                                                                         *)
(* That there is no cycle of epsilon edges is said by ranks that fall      *)
(* along them.                                                             *)
(*                                                                         *)
(* The invariant of the parser is that its stack holds fragments that mean *)
(* the words their values carry, have cycles where the values say so, and  *)
(* are live if the atoms the values carry are in such a family.            *)
(* That of the pipeline adds, at each of its stages, the invariant of the  *)
(* component at work, taken over from the proofs of that component.        *)
(***************************************************************************)
EXTENDS CompiledPattern, Induction

-----------------------------------------------------------------------------
(* NFAs as graphs. *)

\* There is one edge between two states: an epsilon edge accepts no character.
OneEdge(m) == \A s, t \in NStates(m) : <<s, t>> \in m.eps => m.edges[s][t] = {}

\* An NFA with such edges.
IsGraph(m) ==
    /\ m.n \in Nat \ {0}
    /\ m.eps \subseteq NStates(m) \X NStates(m)
    /\ m.edges \in [NStates(m) -> [NStates(m) -> SUBSET Char]]
    /\ OneEdge(m)

\* It is an NFA.
LEMMA GraphIsNfa ==
    ASSUME NEW m, IsGraph(m)
    PROVE  IsNfa(m)
BY DEF IsGraph, IsNfa

\* The NFAs with states.
WithStates ==
    {m \in UNION {[n     : {k},
                   eps   : SUBSET ((0 .. (k - 1)) \X (0 .. (k - 1))),
                   edges : [0 .. (k - 1) -> [0 .. (k - 1) -> SUBSET Char]]] : k \in Nat \ {0}} :
        OneEdge(m)}

\* s and t are joined by an edge, of whatever kind.
Joins(m, s, t) == <<s, t>> \in m.eps \/ m.edges[s][t] # {}

\* They are the records that are NFAs.
LEMMA AreGraphs ==
    ASSUME NEW m
    PROVE  m \in WithStates <=> IsGraph(m) /\ m = [n |-> m.n, eps |-> m.eps, edges |-> m.edges]
<1>1. ASSUME m \in WithStates
      PROVE  IsGraph(m) /\ m = [n |-> m.n, eps |-> m.eps, edges |-> m.edges]
  <2>1. PICK k \in Nat \ {0} :
            m \in [n     : {k},
                   eps   : SUBSET ((0 .. (k - 1)) \X (0 .. (k - 1))),
                   edges : [0 .. (k - 1) -> [0 .. (k - 1) -> SUBSET Char]]]
    BY <1>1 DEF WithStates
  <2>2. OneEdge(m)
    BY <1>1 DEF WithStates
  <2>3. m.n = k /\ NStates(m) = 0 .. (k - 1)
    BY <2>1 DEF NStates
  <2> QED BY <2>1, <2>2, <2>3 DEF IsGraph
<1>2. ASSUME IsGraph(m), m = [n |-> m.n, eps |-> m.eps, edges |-> m.edges]
      PROVE  m \in WithStates
  <2> DEFINE k == m.n
             R == [n     : {k},
                   eps   : SUBSET ((0 .. (k - 1)) \X (0 .. (k - 1))),
                   edges : [0 .. (k - 1) -> [0 .. (k - 1) -> SUBSET Char]]]
  <2>1. k \in Nat \ {0}
    BY <1>2 DEF IsGraph
  <2>2. m \in R
    BY <1>2 DEF IsGraph, NStates
  <2> HIDE DEF R
  <2>3. m \in UNION {[n     : {j},
                     eps   : SUBSET ((0 .. (j - 1)) \X (0 .. (j - 1))),
                     edges : [0 .. (j - 1) -> [0 .. (j - 1) -> SUBSET Char]]] : j \in Nat \ {0}}
    BY <2>1, <2>2 DEF R
  <2> QED BY <1>2, <2>3 DEF WithStates, IsGraph
<1> QED BY <1>1, <1>2

\* What is cited of an NFA with states.
LEMMA NfaFacts ==
    ASSUME NEW m \in WithStates
    PROVE  /\ m.n \in Nat \ {0} /\ NStates(m) = 0 .. (m.n - 1)
           /\ NStart \in NStates(m) /\ NStop(m) \in NStates(m) /\ NStop(m) = m.n - 1
           /\ OneEdge(m)
           /\ m.eps \subseteq NStates(m) \X NStates(m)
           /\ m.edges \in [NStates(m) -> [NStates(m) -> SUBSET Char]]
           /\ \A s, t \in NStates(m) : m.edges[s][t] \in SUBSET Char
           /\ \A s, t : <<s, t>> \in m.eps => s \in NStates(m) /\ t \in NStates(m)
<1> DEFINE S == NStates(m)
<1>1. m.n \in Nat \ {0} /\ OneEdge(m) /\ m.eps \subseteq S \X S /\ m.edges \in [S -> [S -> SUBSET Char]]
  BY AreGraphs DEF IsGraph
<1>2. NStates(m) = 0 .. (m.n - 1) /\ NStart = 0 /\ NStop(m) = m.n - 1
  BY DEF NStates, NStart, NStop
<1>3. NStart \in NStates(m) /\ NStop(m) \in NStates(m)
  BY <1>1, <1>2
<1> HIDE DEF S
<1>4. /\ \A s, t \in S : m.edges[s][t] \in SUBSET Char
      /\ \A s, t : <<s, t>> \in m.eps => s \in S /\ t \in S
  BY <1>1
<1> QED BY <1>1, <1>2, <1>3, <1>4 DEF S

\* States added are joined to none.
LEMMA GrownJoins ==
    ASSUME NEW m \in WithStates, NEW k \in Nat
    PROVE  LET u == Grown(m, k)
           IN  /\ u \in WithStates /\ u.n = m.n + k
               /\ u.eps = m.eps
               /\ \A s, t \in NStates(u) :
                      /\ u.edges[s][t] = IF s < m.n /\ t < m.n THEN m.edges[s][t] ELSE {}
                      /\ Joins(u, s, t) <=> s < m.n /\ t < m.n /\ Joins(m, s, t)
<1> DEFINE u == Grown(m, k)
<1>1. /\ u.n = m.n + k /\ u.eps = m.eps
      /\ u.edges = [s \in 0 .. (m.n + k - 1) |-> [t \in 0 .. (m.n + k - 1) |->
                       IF s < m.n /\ t < m.n THEN m.edges[s][t] ELSE {}]]
      /\ u = [n |-> u.n, eps |-> u.eps, edges |-> u.edges]
  BY DEF Grown
<1> HIDE DEF u
<1>2. /\ m.n \in Nat \ {0} /\ NStates(m) = 0 .. (m.n - 1) /\ NStates(u) = 0 .. (m.n + k - 1)
      /\ m.eps \subseteq NStates(m) \X NStates(m)
      /\ \A s, t \in NStates(m) : m.edges[s][t] \in SUBSET Char
      /\ \A s, t : <<s, t>> \in m.eps => s \in NStates(m) /\ t \in NStates(m)
  <2>1. u.n = m.n + k
    BY <1>1
  <2>2. NStates(u) = 0 .. (m.n + k - 1)
    <3>1. NStates(u) = 0 .. (u.n - 1)
      BY DEF NStates
    <3>2. m.n \in Nat
      BY NfaFacts
    <3> QED BY <2>1, <3>1, <3>2
  <2> QED BY <2>2, NfaFacts
<1>3. \A s, t \in NStates(u) :
          u.edges[s][t] = IF s < m.n /\ t < m.n THEN m.edges[s][t] ELSE {}
  BY <1>1, <1>2
<1>4. NStates(m) \subseteq NStates(u)
      /\ \A s \in NStates(u) : s < m.n <=> s \in NStates(m)
  BY <1>2
<1>5. u.edges \in [NStates(u) -> [NStates(u) -> SUBSET Char]]
  <2>1. \A s, t \in NStates(u) :
            (IF s < m.n /\ t < m.n THEN m.edges[s][t] ELSE {}) \in SUBSET Char
    BY <1>2, <1>4
  <2> QED BY <1>1, <1>2, <2>1
<1>6. IsGraph(u)
  <2>1. u.eps \subseteq NStates(u) \X NStates(u)
    BY <1>1, <1>2, <1>4
  <2>2. OneEdge(u)
    <3>1. OneEdge(m)
      BY NfaFacts
    <3> QED BY <1>1, <1>2, <1>3, <3>1 DEF OneEdge
  <2> QED BY <1>1, <1>2, <1>5, <2>1, <2>2 DEF IsGraph
<1>7. u \in WithStates
  BY <1>1, <1>6, AreGraphs
<1>8. ASSUME NEW s \in NStates(u), NEW t \in NStates(u)
      PROVE  Joins(u, s, t) <=> s < m.n /\ t < m.n /\ Joins(m, s, t)
  BY <1>1, <1>2, <1>3, <1>4 DEF Joins
<1> QED BY <1>1, <1>3, <1>7, <1>8 DEF u

\* Pairs of states given an epsilon edge are joined, and no others are that
\* were not.
LEMMA EpsilonsJoin ==
    ASSUME NEW m \in WithStates, NEW pairs \in SUBSET (NStates(m) \X NStates(m))
    PROVE  LET u == WithEpsilons(m, pairs)
           IN  /\ u \in WithStates /\ u.n = m.n
               /\ u.edges = m.edges
               /\ \A s, t \in NStates(u) :
                      /\ <<s, t>> \in u.eps <=>
                             \/ <<s, t>> \in m.eps
                             \/ <<s, t>> \in pairs /\ m.edges[s][t] = {}
                      /\ Joins(u, s, t) <=> Joins(m, s, t) \/ <<s, t>> \in pairs
<1> DEFINE u == WithEpsilons(m, pairs)
           new == {e \in pairs : m.edges[e[1]][e[2]] = {}}
<1>1. m = [n |-> m.n, eps |-> m.eps, edges |-> m.edges] /\ IsGraph(m)
  BY AreGraphs
<1>2. /\ u = [n |-> m.n, eps |-> m.eps \cup new, edges |-> m.edges]
      /\ u.n = m.n /\ u.eps = m.eps \cup new /\ u.edges = m.edges
  <2>1. u = [m EXCEPT !.eps = m.eps \cup new]
    BY DEF WithEpsilons
  <2> HIDE DEF new, u
  <2>2. \A e : [[n |-> m.n, eps |-> m.eps, edges |-> m.edges] EXCEPT !.eps = e]
              = [n |-> m.n, eps |-> e, edges |-> m.edges]
    OBVIOUS
  <2>3. u = [n |-> m.n, eps |-> m.eps \cup new, edges |-> m.edges]
    BY <1>1, <2>1, <2>2
  <2> QED BY <2>3
<1>3. NStates(u) = NStates(m)
  BY <1>2 DEF NStates
<1> HIDE DEF u
<1>4. u \in WithStates
  <2>1. IsGraph(u)
    BY <1>1, <1>2, <1>3 DEF IsGraph, OneEdge
  <2> QED BY <1>2, <2>1, AreGraphs
<1>5. ASSUME NEW s \in NStates(u), NEW t \in NStates(u)
      PROVE  /\ <<s, t>> \in u.eps <=>
                    \/ <<s, t>> \in m.eps
                    \/ <<s, t>> \in pairs /\ m.edges[s][t] = {}
             /\ Joins(u, s, t) <=> Joins(m, s, t) \/ <<s, t>> \in pairs
  <2>1. <<s, t>> \in new <=> <<s, t>> \in pairs /\ m.edges[s][t] = {}
    OBVIOUS
  <2> HIDE DEF new
  <2> QED BY <1>2, <2>1 DEF Joins
<1> QED BY <1>2, <1>4, <1>5 DEF u

\* Moved leaves left's edges, and adds those of right from state z on.
LEMMA MovedEdges ==
    ASSUME NEW left \in WithStates, NEW right \in WithStates, NEW z \in Nat,
           left.n = z + right.n
    PROVE  LET u == Moved(left, right, z, z + 1)
           IN  /\ u \in WithStates /\ u.n = left.n
               /\ \A s, t \in NStates(u) :
                      /\ u.edges[s][t] = left.edges[s][t] \cup
                             (IF s >= z /\ t >= z THEN right.edges[s - z][t - z] ELSE {})
                      /\ <<s, t>> \in u.eps <=>
                             /\ \/ <<s, t>> \in left.eps
                                \/ s >= z /\ t >= z /\ <<s - z, t - z>> \in right.eps
                             /\ u.edges[s][t] = {}
                      /\ Joins(u, s, t) <=>
                             \/ Joins(left, s, t)
                             \/ s >= z /\ t >= z /\ Joins(right, s - z, t - z)
<1> DEFINE u == Moved(left, right, z, z + 1)
           S == NStates(left)
           Image == {z} \cup {s \in S : s >= z + 1}
           Back(s) == IF s = z THEN 0 ELSE s - (z + 1) + 1
           table == [s \in S |-> [t \in S |->
                        left.edges[s][t] \cup
                            (IF s \in Image /\ t \in Image
                             THEN right.edges[Back(s)][Back(t)] ELSE {})]]
           shifted == {<<Translation(z, z + 1, e[1]), Translation(z, z + 1, e[2])>> :
                           e \in right.eps}
           eps == left.eps \cup shifted
           taken == {e \in S \X S : table[e[1]][e[2]] # {}}
<1>1. u = [n |-> left.n, eps |-> eps \ taken, edges |-> table]
  BY DEF Moved
<1>2. /\ left.n \in Nat \ {0} /\ S = 0 .. (left.n - 1)
      /\ left.eps \subseteq S \X S
      /\ \A s, t \in S : left.edges[s][t] \in SUBSET Char
      /\ \A s, t : <<s, t>> \in left.eps => s \in S /\ t \in S
  BY NfaFacts
<1>3. /\ right.n \in Nat \ {0} /\ NStates(right) = 0 .. (right.n - 1)
      /\ \A s, t \in NStates(right) : right.edges[s][t] \in SUBSET Char
      /\ \A s, t : <<s, t>> \in right.eps => s \in NStates(right) /\ t \in NStates(right)
      /\ right.eps \subseteq NStates(right) \X NStates(right)
  BY NfaFacts
<1>4. ASSUME NEW s \in S
      PROVE  /\ s \in Image <=> s >= z
             /\ s \in Image => Back(s) = s - z /\ s - z \in NStates(right)
  BY <1>2, <1>3
<1>5. ASSUME NEW i \in NStates(right)
      PROVE  Translation(z, z + 1, i) = z + i /\ z + i \in S /\ z + i >= z
  BY <1>2, <1>3, SMTT(20) DEF Translation
<1> HIDE DEF u, S, Image, Back
<1>6. ASSUME NEW s \in S, NEW t \in S
      PROVE  table[s][t] = left.edges[s][t] \cup
                 (IF s >= z /\ t >= z THEN right.edges[s - z][t - z] ELSE {})
  BY <1>4
<1>7. table \in [S -> [S -> SUBSET Char]]
  <2>1. ASSUME NEW s \in S, NEW t \in S PROVE table[s][t] \in SUBSET Char
    <3>1. left.edges[s][t] \in SUBSET Char
      BY <1>2
    <3>2. s >= z /\ t >= z => right.edges[s - z][t - z] \in SUBSET Char
      BY <1>3, <1>4
    <3> QED BY <1>6, <3>1, <3>2
  <2>2. \A s, t \in S : left.edges[s][t] \cup
                            (IF s \in Image /\ t \in Image
                             THEN right.edges[Back(s)][Back(t)] ELSE {}) \in SUBSET Char
    BY <2>1
  <2> QED BY <2>2
<1> HIDE DEF table
<1>8. ASSUME NEW s \in S, NEW t \in S
      PROVE  <<s, t>> \in shifted <=> s >= z /\ t >= z /\ <<s - z, t - z>> \in right.eps
  <2>1. ASSUME <<s, t>> \in shifted
        PROVE  s >= z /\ t >= z /\ <<s - z, t - z>> \in right.eps
    <3>1. PICK e \in right.eps :
              <<s, t>> = <<Translation(z, z + 1, e[1]), Translation(z, z + 1, e[2])>>
      BY <2>1
    <3>2. e = <<e[1], e[2]>> /\ e[1] \in NStates(right) /\ e[2] \in NStates(right)
      BY <1>3
    <3>3. s = z + e[1] /\ t = z + e[2]
      BY <1>5, <3>1, <3>2
    <3>4. s >= z /\ t >= z /\ s - z = e[1] /\ t - z = e[2]
      BY <1>3, <3>2, <3>3
    <3> QED BY <3>2, <3>4
  <2>2. ASSUME s >= z, t >= z, <<s - z, t - z>> \in right.eps
        PROVE  <<s, t>> \in shifted
    <3> DEFINE e == <<s - z, t - z>>
    <3>1. e[1] \in NStates(right) /\ e[2] \in NStates(right) /\ e[1] = s - z /\ e[2] = t - z
      BY <1>3, <2>2
    <3>2. z + e[1] = s /\ z + e[2] = t
      BY <1>2, <3>1
    <3>3. Translation(z, z + 1, e[1]) = s /\ Translation(z, z + 1, e[2]) = t
      BY <1>5, <3>1, <3>2
    <3> QED BY <2>2, <3>3
  <2> QED BY <2>1, <2>2
<1>9. shifted \subseteq S \X S
  <2>1. ASSUME NEW e \in right.eps
        PROVE  Translation(z, z + 1, e[1]) \in S /\ Translation(z, z + 1, e[2]) \in S
    <3>1. e[1] \in NStates(right) /\ e[2] \in NStates(right)
      BY <1>3
    <3> QED BY <1>5, <3>1
  <2> QED BY <2>1
<1> HIDE DEF shifted
<1>10. u.n = left.n /\ u.eps = eps \ taken /\ u.edges = table
       /\ u = [n |-> u.n, eps |-> u.eps, edges |-> u.edges]
  BY <1>1
<1>11. NStates(u) = S
  BY <1>10 DEF NStates, S
<1>12. u \in WithStates
  <2>1. IsGraph(u)
    <3>1. OneEdge(u)
      BY <1>10, <1>11 DEF OneEdge
    <3>2. u.eps \subseteq S \X S
      BY <1>2, <1>9, <1>10
    <3> HIDE DEF taken, eps
    <3> QED BY <1>2, <1>7, <1>10, <1>11, <3>1, <3>2 DEF IsGraph
  <2> QED BY <1>10, <2>1, AreGraphs
<1>13. ASSUME NEW s \in S, NEW t \in S
       PROVE  /\ <<s, t>> \in u.eps <=>
                     /\ \/ <<s, t>> \in left.eps
                        \/ s >= z /\ t >= z /\ <<s - z, t - z>> \in right.eps
                     /\ u.edges[s][t] = {}
              /\ Joins(u, s, t) <=> \/ Joins(left, s, t)
                                    \/ s >= z /\ t >= z /\ Joins(right, s - z, t - z)
  <2>1. <<s, t>> \in taken <=> table[s][t] # {}
    OBVIOUS
  <2>2. Joins(u, s, t) <=> <<s, t>> \in eps \/ table[s][t] # {}
    BY <1>10, <2>1 DEF Joins
  <2>3. <<s, t>> \in eps <=> <<s, t>> \in left.eps \/ <<s, t>> \in shifted
    OBVIOUS
  <2>4. <<s, t>> \in u.eps <=> <<s, t>> \in eps /\ u.edges[s][t] = {}
    BY <1>10, <2>1
  <2>5. Joins(u, s, t) <=> \/ Joins(left, s, t)
                           \/ s >= z /\ t >= z /\ Joins(right, s - z, t - z)
    BY <1>6, <1>8, <2>2, <2>3 DEF Joins
  <2>6. <<s, t>> \in eps <=> \/ <<s, t>> \in left.eps
                             \/ s >= z /\ t >= z /\ <<s - z, t - z>> \in right.eps
    BY <1>8, <2>3
  <2> HIDE DEF eps
  <2> QED BY <2>4, <2>5, <2>6
<1> HIDE DEF eps, taken
<1> QED BY <1>6, <1>10, <1>11, <1>12, <1>13 DEF u

\* Moved leaves left's edges, and adds those of right from state z on.
LEMMA MovedJoins ==
    ASSUME NEW left \in WithStates, NEW right \in WithStates, NEW z \in Nat,
           left.n = z + right.n
    PROVE  LET u == Moved(left, right, z, z + 1)
           IN  /\ u \in WithStates /\ u.n = left.n
               /\ \A s, t \in NStates(u) :
                      Joins(u, s, t) <=>
                          \/ Joins(left, s, t)
                          \/ s >= z /\ t >= z /\ Joins(right, s - z, t - z)
<1> DEFINE u == Moved(left, right, z, z + 1)
<1>1. u \in WithStates /\ u.n = left.n
  BY MovedEdges
<1>2. \A s, t \in NStates(u) :
          Joins(u, s, t) <=> \/ Joins(left, s, t)
                             \/ s >= z /\ t >= z /\ Joins(right, s - z, t - z)
  BY MovedEdges
<1> QED BY <1>1, <1>2

-----------------------------------------------------------------------------
(* Pieces: what the builders make, and build on. *)

NoEntry(m) == \A s \in NStates(m) : ~Joins(m, s, NStart)
NoExit(m) == \A s \in NStates(m) : ~Joins(m, NStop(m), s)

\* Thompson's shape.
Pieces == {m \in WithStates : m.n > 1 /\ NoEntry(m) /\ NoExit(m)}
Fragments == Pieces \cup {NoStates}

\* Two NFAs in a row share a state: where left stops right starts.
LEMMA RowJoins ==
    ASSUME NEW left \in WithStates, NEW right \in WithStates
    PROVE  LET u == Concat(left, right)
               z == left.n - 1
           IN  /\ u \in WithStates /\ u.n = z + right.n
               /\ \A s, t \in NStates(u) :
                      Joins(u, s, t) <=>
                          \/ s <= z /\ t <= z /\ Joins(left, s, t)
                          \/ s >= z /\ t >= z /\ Joins(right, s - z, t - z)
<1> DEFINE z == left.n - 1
           grown == Grown(left, right.n - 1)
           u == Moved(grown, right, z, z + 1)
<1>1. left.n \in Nat \ {0} /\ right.n \in Nat \ {0} /\ z \in Nat /\ z + 1 = left.n
  BY NfaFacts
<1>2. Concat(left, right) = u
  BY <1>1 DEF Concat, ConcatHelper, Joined, NStop
<1>3. /\ grown \in WithStates /\ grown.n = left.n + (right.n - 1)
      /\ \A s, t \in NStates(grown) :
             Joins(grown, s, t) <=> s < left.n /\ t < left.n /\ Joins(left, s, t)
  <2>1. right.n - 1 \in Nat
    BY <1>1
  <2> QED BY <2>1, GrownJoins
<1> HIDE DEF grown
<1>4. grown.n = z + right.n
  BY <1>1, <1>3
<1>5. /\ u \in WithStates /\ u.n = grown.n
      /\ \A s, t \in NStates(u) :
             Joins(u, s, t) <=> \/ Joins(grown, s, t)
                                \/ s >= z /\ t >= z /\ Joins(right, s - z, t - z)
  <2> HIDE DEF z
  <2> QED BY <1>1, <1>3, <1>4, MovedJoins
<1> HIDE DEF u
<1>6. NStates(u) = NStates(grown)
  BY <1>5 DEF NStates
<1>7. \A s \in NStates(u) : s < left.n <=> s <= z
  BY <1>1, <1>4, <1>5 DEF NStates
<1> HIDE DEF z
<1>8. \A s, t \in NStates(u) :
          Joins(u, s, t) <=> \/ s <= z /\ t <= z /\ Joins(left, s, t)
                             \/ s >= z /\ t >= z /\ Joins(right, s - z, t - z)
  BY <1>3, <1>5, <1>6, <1>7
<1>9. u \in WithStates /\ u.n = z + right.n
  BY <1>4, <1>5
<1> QED BY <1>2, <1>8, <1>9 DEF z

\* Side by side the right one hangs off the start state by an epsilon edge.
LEMMA BesideJoins ==
    ASSUME NEW left \in WithStates, NEW right \in WithStates
    PROVE  LET u == ConcatHelper(left, right, NStart, TRUE)
               z == left.n
           IN  /\ u \in WithStates /\ u.n = z + right.n
               /\ \A s, t \in NStates(u) :
                      Joins(u, s, t) <=>
                          \/ s < z /\ t < z /\ Joins(left, s, t)
                          \/ s = 0 /\ t = z
                          \/ s >= z /\ t >= z /\ Joins(right, s - z, t - z)
<1> DEFINE z == left.n
           grown == Grown(left, right.n)
           linked == WithEpsilons(grown, {<<NStart, z>>})
           u == Moved(linked, right, z, z + 1)
<1>1. left.n \in Nat \ {0} /\ right.n \in Nat \ {0} /\ z \in Nat
  BY NfaFacts
<1>2. ConcatHelper(left, right, NStart, TRUE) = u
  BY <1>1 DEF ConcatHelper, Joined
<1>3. /\ grown \in WithStates /\ grown.n = left.n + right.n
      /\ \A s, t \in NStates(grown) :
             Joins(grown, s, t) <=> s < left.n /\ t < left.n /\ Joins(left, s, t)
  BY <1>1, GrownJoins
<1> HIDE DEF grown
<1>4. NStart \in NStates(grown) /\ z \in NStates(grown) /\ NStart = 0
  BY <1>1, <1>3 DEF NStates, NStart
<1>5. /\ linked \in WithStates /\ linked.n = grown.n
      /\ \A s, t \in NStates(linked) :
             Joins(linked, s, t) <=> Joins(grown, s, t) \/ <<s, t>> \in {<<NStart, z>>}
  <2>1. {<<NStart, z>>} \in SUBSET (NStates(grown) \X NStates(grown))
    BY <1>4
  <2> HIDE DEF z
  <2> QED BY <1>3, <2>1, EpsilonsJoin, ZenonT(40)
<1> HIDE DEF linked
<1>6. linked.n = z + right.n
  BY <1>3, <1>5
<1>7. /\ u \in WithStates /\ u.n = linked.n
      /\ \A s, t \in NStates(u) :
             Joins(u, s, t) <=> \/ Joins(linked, s, t)
                                \/ s >= z /\ t >= z /\ Joins(right, s - z, t - z)
  <2> HIDE DEF z
  <2> QED BY <1>1, <1>5, <1>6, MovedJoins
<1> HIDE DEF u
<1>8. NStates(u) = NStates(grown) /\ NStates(linked) = NStates(grown)
  BY <1>5, <1>7 DEF NStates
<1>9. \A s, t \in NStates(u) :
          Joins(u, s, t) <=> \/ s < z /\ t < z /\ Joins(left, s, t)
                             \/ s = 0 /\ t = z
                             \/ s >= z /\ t >= z /\ Joins(right, s - z, t - z)
  BY <1>3, <1>4, <1>5, <1>7, <1>8
<1>10. u \in WithStates /\ u.n = z + right.n
  BY <1>6, <1>7
<1> QED BY <1>2, <1>9, <1>10 DEF z

\* Nothing leads to the start state, from which the branches fan out.
Fans == {m \in WithStates : NoEntry(m)}

\* A piece is an NFA of Thompson's shape.
LEMMA PieceFacts ==
    ASSUME NEW m \in Pieces
    PROVE  /\ m \in WithStates /\ m \in Fans /\ m.n \in Nat /\ m.n > 1 /\ m # NoStates
           /\ NStates(m) = 0 .. (m.n - 1) /\ NStart = 0 /\ NStop(m) = m.n - 1
           /\ NoEntry(m) /\ NoExit(m)
<1>1. m \in WithStates /\ m.n > 1 /\ NoEntry(m) /\ NoExit(m)
  BY DEF Pieces
<1>2. m.n \in Nat /\ NStates(m) = 0 .. (m.n - 1) /\ NStop(m) = m.n - 1
  BY <1>1, NfaFacts
<1>3. m # NoStates
  BY <1>1 DEF NoStates
<1> QED BY <1>1, <1>2, <1>3 DEF Fans, NStart

\* Two pieces in a row are a piece.
LEMMA RowIsPiece ==
    ASSUME NEW left \in Pieces, NEW right \in Pieces
    PROVE  Concat(left, right) \in Pieces
<1> DEFINE u == Concat(left, right)
           z == left.n - 1
           L == left.n
           R == right.n
<1>1. /\ L \in Nat /\ R \in Nat /\ L > 1 /\ R > 1 /\ z \in Nat /\ z > 0
      /\ left \in WithStates /\ right \in WithStates
      /\ NStates(left) = 0 .. z /\ NStates(right) = 0 .. (R - 1)
      /\ NStop(left) = z /\ NStop(right) = R - 1 /\ NStart = 0
      /\ NoEntry(left) /\ NoEntry(right) /\ NoExit(left) /\ NoExit(right)
  <2>1. /\ left \in WithStates /\ L \in Nat /\ L > 1
        /\ NStates(left) = 0 .. (L - 1) /\ NStart = 0 /\ NStop(left) = L - 1
        /\ NoEntry(left) /\ NoExit(left)
    BY PieceFacts
  <2>2. /\ right \in WithStates /\ R \in Nat /\ R > 1
        /\ NStates(right) = 0 .. (R - 1) /\ NStop(right) = R - 1
        /\ NoEntry(right) /\ NoExit(right)
    BY PieceFacts
  <2>3. z = L - 1
    OBVIOUS
  <2> HIDE DEF z, L, R
  <2> QED BY <2>1, <2>2, <2>3
<1>2. /\ u \in WithStates /\ u.n = z + R
      /\ \A s, t \in NStates(u) :
             Joins(u, s, t) <=> \/ s <= z /\ t <= z /\ Joins(left, s, t)
                                \/ s >= z /\ t >= z /\ Joins(right, s - z, t - z)
  BY <1>1, RowJoins
<1>3. NStates(u) = 0 .. (z + R - 1) /\ NStop(u) = z + R - 1 /\ u.n > 1 /\ u.n \in Nat
  <2> HIDE DEF u, z, R
  <2>1. NStates(u) = 0 .. (u.n - 1) /\ NStop(u) = u.n - 1
    BY DEF NStates, NStop
  <2> QED BY <1>1, <1>2, <2>1
<1> HIDE DEF u, z, L, R
<1>4. NoEntry(u)
  <2> SUFFICES ASSUME NEW s \in NStates(u), Joins(u, s, 0) PROVE FALSE
    BY <1>1 DEF NoEntry
  <2>1. s \in 0 .. z /\ Joins(left, s, 0)
    BY <1>1, <1>2, <1>3
  <2> QED BY <1>1, <2>1 DEF NoEntry
<1>5. NoExit(u)
  <2> SUFFICES ASSUME NEW s \in NStates(u), Joins(u, z + R - 1, s) PROVE FALSE
    BY <1>3 DEF NoExit
  <2>1. s >= z /\ Joins(right, z + R - 1 - z, s - z)
    <3> DEFINE e == z + R - 1
    <3>1. e \in NStates(u) /\ ~(e <= z) /\ Joins(u, e, s)
      BY <1>1, <1>3
    <3> HIDE DEF e
    <3>2. s >= z /\ Joins(right, e - z, s - z)
      BY <1>2, <3>1
    <3> QED BY <1>1, <3>2 DEF e
  <2>2. z + R - 1 - z = R - 1 /\ s - z \in 0 .. (R - 1)
    BY <1>1, <1>3, <2>1
  <2> QED BY <1>1, <2>1, <2>2 DEF NoExit
<1> QED BY <1>2, <1>3, <1>4, <1>5 DEF Pieces, u

\* Fragments in a row are a fragment; zero repetitions leave the other as it is.
LEMMA RowIsFragment ==
    ASSUME NEW left \in Fragments, NEW right \in Fragments
    PROVE  Concat(left, right) \in Fragments
<1>1. CASE right = NoStates
  <2>1. Concat(left, right) = left
    BY <1>1 DEF Concat, ConcatHelper, NoStates
  <2> QED BY <2>1
<1>2. CASE right \in Pieces /\ left = NoStates
  <2>1. right.n # 0
    <3>1. right \in Pieces
      BY <1>2
    <3>2. right.n \in Nat /\ right.n > 1
      BY <3>1, PieceFacts
    <3> QED BY <3>2
  <2>2. Concat(left, right) = right
    BY <1>2, <2>1 DEF Concat, ConcatHelper, NoStates
  <2> QED BY <2>2
<1>3. CASE right \in Pieces /\ left \in Pieces
  BY <1>3, RowIsPiece DEF Fragments
<1> QED BY <1>1, <1>2, <1>3 DEF Fragments

\* A piece at the side of a fan makes a fan.
LEMMA BesideIsFan ==
    ASSUME NEW left \in Fans, NEW right \in Pieces
    PROVE  LET u == ConcatHelper(left, right, NStart, TRUE)
           IN  /\ u \in Fans /\ u.n = left.n + right.n
               /\ NStop(u) \in NStates(u) /\ NStates(left) \subseteq NStates(u)
<1> DEFINE u == ConcatHelper(left, right, NStart, TRUE)
           z == left.n
           R == right.n
<1>1. /\ left \in WithStates /\ z \in Nat /\ z > 0 /\ NStates(left) = 0 .. (z - 1)
      /\ NStart = 0 /\ NoEntry(left)
  BY NfaFacts DEF Fans, NStart
<1>2. /\ right \in WithStates /\ R \in Nat /\ R > 1 /\ NStates(right) = 0 .. (R - 1)
  BY PieceFacts
<1>3. /\ u \in WithStates /\ u.n = z + R
      /\ \A s, t \in NStates(u) :
             Joins(u, s, t) <=> \/ s < z /\ t < z /\ Joins(left, s, t)
                                \/ s = 0 /\ t = z
                                \/ s >= z /\ t >= z /\ Joins(right, s - z, t - z)
  BY <1>1, <1>2, BesideJoins
<1> HIDE DEF u, z, R
<1>4. NStates(u) = 0 .. (z + R - 1) /\ NStop(u) = z + R - 1 /\ u.n \in Nat
      /\ 0 \in NStates(u) /\ z \in NStates(u) /\ NStop(u) \in NStates(u)
  <2>1. NStates(u) = 0 .. (u.n - 1) /\ NStop(u) = u.n - 1 /\ u.n \in Nat
    BY <1>3, NfaFacts
  <2> QED BY <1>1, <1>2, <1>3, <2>1
<1>5. NoEntry(u)
  <2> SUFFICES ASSUME NEW s \in NStates(u), Joins(u, s, 0) PROVE FALSE
    BY <1>1 DEF NoEntry
  <2>1. s \in 0 .. (z - 1) /\ Joins(left, s, 0)
    BY <1>1, <1>3, <1>4
  <2> QED BY <1>1, <2>1 DEF NoEntry
<1>6. NStates(left) \subseteq NStates(u)
  BY <1>1, <1>2, <1>4
<1> QED BY <1>3, <1>4, <1>5, <1>6 DEF Fans, u, z, R

\* With a new state at its end it is a piece.
LEMMA CappedIsPiece ==
    ASSUME NEW m \in Fans, NEW pairs \in SUBSET (NStates(m) \X (1 .. m.n))
    PROVE  WithEpsilons(Grown(m, 1), pairs) \in Pieces
<1> DEFINE grown == Grown(m, 1)
           u == WithEpsilons(grown, pairs)
           n == m.n
<1>1. /\ m \in WithStates /\ n \in Nat /\ n > 0 /\ NStates(m) = 0 .. (n - 1)
      /\ NStart = 0 /\ NoEntry(m)
  BY NfaFacts DEF Fans, NStart
<1>2. /\ grown \in WithStates /\ grown.n = n + 1
      /\ \A s, t \in NStates(grown) :
             Joins(grown, s, t) <=> s < n /\ t < n /\ Joins(m, s, t)
  BY <1>1, GrownJoins
<1> HIDE DEF grown
<1>3. NStates(grown) = 0 .. n
  BY <1>1, <1>2 DEF NStates
<1>4. pairs \in SUBSET (NStates(grown) \X NStates(grown))
  <2>1. NStates(m) \subseteq NStates(grown) /\ 1 .. n \subseteq NStates(grown)
    BY <1>1, <1>3
  <2> QED BY <2>1
<1>5. /\ u \in WithStates /\ u.n = grown.n
      /\ \A s, t \in NStates(u) :
             Joins(u, s, t) <=> Joins(grown, s, t) \/ <<s, t>> \in pairs
  BY <1>2, <1>4, EpsilonsJoin
<1> HIDE DEF u
<1>6. NStates(u) = 0 .. n /\ NStop(u) = n /\ u.n \in Nat /\ u.n > 1
  BY <1>1, <1>2, <1>3, <1>5 DEF NStates, NStop
<1>7. \A s, t \in NStates(u) :
          Joins(u, s, t) <=> \/ s < n /\ t < n /\ Joins(m, s, t)
                             \/ <<s, t>> \in pairs
  BY <1>2, <1>3, <1>5, <1>6
<1>8. \A s, t : <<s, t>> \in pairs => s \in 0 .. (n - 1) /\ t \in 1 .. n
  BY <1>1
<1> HIDE DEF n
<1>9. NoEntry(u)
  <2> SUFFICES ASSUME NEW s \in NStates(u), Joins(u, s, 0) PROVE FALSE
    BY <1>1 DEF NoEntry
  <2>1. 0 \in NStates(u) /\ <<s, 0>> \notin pairs
    BY <1>1, <1>6, <1>8
  <2>2. s \in 0 .. (n - 1) /\ Joins(m, s, 0)
    BY <1>1, <1>6, <1>7, <2>1
  <2> QED BY <1>1, <2>2 DEF NoEntry
<1>10. NoExit(u)
  <2> SUFFICES ASSUME NEW s \in NStates(u), Joins(u, n, s) PROVE FALSE
    BY <1>6 DEF NoExit
  <2>1. n \in NStates(u) /\ <<n, s>> \notin pairs
    BY <1>1, <1>6, <1>8
  <2> QED BY <1>1, <1>7, <2>1
<1>11. u \in Pieces
  BY <1>5, <1>6, <1>9, <1>10 DEF Pieces
<1> QED BY <1>11 DEF u, grown

\* One state by itself.
Single1 == [n |-> 1, eps |-> {}, edges |-> [s \in {0} |-> [t \in {0} |-> {}]]]

\* It is a fan, in which no state is joined to another.
LEMMA OneIsFan ==
    /\ Single1 \in Fans /\ Single1.n = 1 /\ NStates(Single1) = {0} /\ NStop(Single1) = 0
    /\ Single1.edges[0][0] = {}
<1> DEFINE m == Single1
<1>1. m.n = 1 /\ m.eps = {} /\ m = [n |-> m.n, eps |-> m.eps, edges |-> m.edges]
      /\ m.edges = [s \in {0} |-> [t \in {0} |-> {}]]
  BY DEF Single1
<1> HIDE DEF m
<1>2. NStates(m) = {0} /\ NStart = 0 /\ NStop(m) = 0
  BY <1>1 DEF NStates, NStart, NStop
<1>3. \A s, t \in NStates(m) : ~Joins(m, s, t)
  BY <1>1, <1>2 DEF Joins
<1>4. IsGraph(m)
  BY <1>1, <1>2 DEF IsGraph, OneEdge
<1>5. m \in WithStates
  BY <1>1, <1>4, AreGraphs
<1>6. NoEntry(m)
  BY <1>2, <1>3 DEF NoEntry
<1> QED BY <1>1, <1>2, <1>5, <1>6 DEF Fans, m

\* Two states, at most the first of which is joined to the second, are a piece.
LEMMA TwoStatesArePiece ==
    ASSUME NEW m \in WithStates, m.n = 2,
           \A s, t \in NStates(m) : Joins(m, s, t) => s = 0 /\ t = 1
    PROVE  m \in Pieces
<1>1. NStates(m) = {0, 1} /\ NStart = 0 /\ NStop(m) = 1
  BY DEF NStates, NStart, NStop
<1>2. NoEntry(m) /\ NoExit(m)
  BY <1>1 DEF NoEntry, NoExit
<1> QED BY <1>2 DEF Pieces

\* What TwoStates makes.
LEMMA TwoStatesMade ==
    ASSUME NEW C \in SUBSET Char
    PROVE  LET m == TwoStates(C)
           IN  /\ m \in WithStates /\ m.n = 2 /\ NStates(m) = {0, 1}
               /\ \A s, t \in NStates(m) : Joins(m, s, t) <=> s = 0 /\ t = 1 /\ C # {}
<1> DEFINE m == TwoStates(C)
<1>1. m.n = 2 /\ m.eps = {} /\ m = [n |-> m.n, eps |-> m.eps, edges |-> m.edges]
      /\ m.edges = [s \in 0 .. 1 |-> [t \in 0 .. 1 |-> IF s = 0 /\ t = 1 THEN C ELSE {}]]
  BY DEF TwoStates
<1> HIDE DEF m
<1>2. NStates(m) = 0 .. 1 /\ 0 .. 1 = {0, 1}
  BY <1>1 DEF NStates
<1>3. IsGraph(m)
  BY <1>1, <1>2 DEF IsGraph, OneEdge
<1>4. m \in WithStates
  BY <1>1, <1>3, AreGraphs
<1>5. \A s, t \in NStates(m) : Joins(m, s, t) <=> s = 0 /\ t = 1 /\ C # {}
  BY <1>1, <1>2 DEF Joins
<1> QED BY <1>1, <1>2, <1>4, <1>5 DEF m

\* A character class is a piece, even one of no characters.
LEMMA AtomIsPiece ==
    ASSUME NEW C \in Atoms
    PROVE  CharacterClass(C) \in Pieces
<1>1. C \in SUBSET Char
  BY AtomsAssumption
<1> QED BY <1>1, TwoStatesMade, TwoStatesArePiece DEF CharacterClass

\* So is the NFA of the empty word.
LEMMA EpsilonIsPiece == Epsilon \in Pieces
<1> DEFINE m == TwoStates({})
           pairs == {<<0, 1>>}
<1>1. /\ m \in WithStates /\ m.n = 2 /\ NStates(m) = {0, 1}
      /\ \A s, t \in NStates(m) : ~Joins(m, s, t)
  <2>1. {} \in SUBSET Char
    OBVIOUS
  <2> QED BY <2>1, TwoStatesMade
<1> HIDE DEF m
<1>2. pairs \in SUBSET (NStates(m) \X NStates(m))
  BY <1>1
<1>3. LET u == WithEpsilons(m, pairs)
      IN  /\ u \in WithStates /\ u.n = m.n
          /\ \A s, t \in NStates(u) : Joins(u, s, t) <=> Joins(m, s, t) \/ <<s, t>> \in pairs
  <2> HIDE DEF pairs
  <2> QED BY <1>1, <1>2, EpsilonsJoin
<1> DEFINE u == WithEpsilons(m, pairs)
<1>4. u \in WithStates /\ u.n = 2 /\ NStates(u) = NStates(m)
  BY <1>1, <1>3 DEF NStates
<1>5. \A s, t \in NStates(u) : Joins(u, s, t) <=> s = 0 /\ t = 1
  BY <1>1, <1>3, <1>4
<1>6. u \in Pieces
  <2> HIDE DEF u
  <2> QED BY <1>4, <1>5, TwoStatesArePiece
<1> QED BY <1>6 DEF Epsilon, m

\* A star on any fragment is a piece.
LEMMA StarIsPiece ==
    ASSUME NEW m \in Fragments
    PROVE  Star(m) \in Pieces
<1> DEFINE star == ConcatHelper(Single1, m, NStart, TRUE)
           end == NStop(star)
           pairs == StarEdges(end, star.n)
<1>1. star \in Fans /\ star.n \in Nat /\ star.n > 0 /\ end \in NStates(star)
  <2>1. CASE m = NoStates
    <3>1. star = Single1
      BY <2>1 DEF ConcatHelper, NoStates
    <3> HIDE DEF star
    <3> QED BY <3>1, OneIsFan
  <2>2. CASE m \in Pieces
    <3>1. star \in Fans /\ star.n = Single1.n + m.n /\ end \in NStates(star)
      BY <2>2, OneIsFan, BesideIsFan
    <3>2. Single1.n = 1 /\ m.n \in Nat
      BY <2>2, OneIsFan, PieceFacts
    <3> HIDE DEF star
    <3> QED BY <3>1, <3>2
  <2> QED BY <2>1, <2>2 DEF Fragments
<1> HIDE DEF star
<1>2. NStates(star) = 0 .. (star.n - 1) /\ NStart = 0 /\ 0 \in NStates(star)
  BY <1>1 DEF NStates, NStart
<1>3. pairs = {<<end, 1>>, <<0, star.n>>, <<end, star.n>>}
  BY <1>2 DEF StarEdges
<1> HIDE DEF end
<1>4. pairs \in SUBSET (NStates(star) \X (1 .. star.n))
  <2>1. 1 \in 1 .. star.n /\ star.n \in 1 .. star.n
    BY <1>1
  <2> QED BY <1>1, <1>2, <1>3, <2>1
<1> HIDE DEF pairs
<1>5. WithEpsilons(Grown(star, 1), pairs) \in Pieces
  BY <1>1, <1>4, CappedIsPiece
<1>6. Star(m) = WithEpsilons(Grown(star, 1), pairs)
  BY DEF Star, Single1, star, pairs, end
<1> QED BY <1>5, <1>6

-----------------------------------------------------------------------------
(* The builders that loop. *)

\* alter of Alternation: every branch hung on what the branches before it made.
HangsOn(f, nfas) ==
    /\ f[0] = Single1
    /\ \A k \in 1 .. Len(nfas) : f[k] = ConcatHelper(f[k - 1], nfas[k], NStart, TRUE)

\* A branch hung on is a fan again.
LEMMA HungIsFan ==
    ASSUME NEW left \in Fans, NEW right \in Fragments
    PROVE  ConcatHelper(left, right, NStart, TRUE) \in Fans
<1>1. CASE right = NoStates
  <2>1. ConcatHelper(left, right, NStart, TRUE) = left
    BY <1>1 DEF ConcatHelper, NoStates
  <2> QED BY <2>1
<1>2. CASE right \in Pieces
  BY <1>2, BesideIsFan
<1> QED BY <1>1, <1>2 DEF Fragments

\* The recursive function of Alternation is one.
LEMMA AlternationRec ==
    ASSUME NEW nfas \in Seq(Fragments), Len(nfas) # 1
    PROVE  \E f : /\ HangsOn(f, nfas)
                  /\ LET all == f[Len(nfas)]
                     IN  Alternation(nfas) =
                             WithEpsilons(Grown(all, 1),
                                          {<<s, all.n>> : s \in Finals(f, Len(nfas))})
<1> DEFINE n == Len(nfas)
           g == [i \in 1 .. n |-> [x \in Fans |-> ConcatHelper(x, nfas[i], NStart, TRUE)]]
           Good(f) == f = [k \in 0 .. n |-> IF k = 0 THEN Single1
                              ELSE ConcatHelper(f[k - 1], nfas[k], NStart, TRUE)]
           F == CHOOSE f : Good(f)
<1>1. n \in Nat /\ \A i \in 1 .. n : nfas[i] \in Fragments
  OBVIOUS
<1>2. g \in [1 .. n -> [Fans -> Fans]]
  BY <1>1, HungIsFan
<1>3. LET all == F[n]
      IN  Alternation(nfas) =
              WithEpsilons(Grown(all, 1), {<<s, all.n>> : s \in Finals(F, n)})
  BY DEF Alternation, Single1
<1> HIDE DEF n
<1>4. Recursive(n, Fans, Single1, g)
  <2> HIDE DEF g
  <2> QED BY <1>1, <1>2, OneIsFan, Recursion
<1>5. PICK f \in [0 .. n -> Fans] : f[0] = Single1 /\ \A i \in 1 .. n : f[i] = g[i][f[i - 1]]
  BY <1>4 DEF Recursive
<1>6. ASSUME NEW i \in 1 .. n
      PROVE  f[i] = ConcatHelper(f[i - 1], nfas[i], NStart, TRUE)
  <2>1. f[i - 1] \in Fans
    BY <1>1
  <2>2. g[i][f[i - 1]] = ConcatHelper(f[i - 1], nfas[i], NStart, TRUE)
    BY <2>1
  <2> HIDE DEF g
  <2> QED BY <1>5, <2>2
<1>7. f[0] = Single1
  BY <1>5
<1>8. Good(f)
  <2>1. f = [k \in 0 .. n |-> f[k]]
    OBVIOUS
  <2>2. \A k \in 0 .. n : f[k] = IF k = 0 THEN Single1
                                 ELSE ConcatHelper(f[k - 1], nfas[k], NStart, TRUE)
    BY <1>1, <1>6, <1>7
  <2> HIDE DEF g
  <2> QED BY <2>1, <2>2
<1>9. Good(F)
  <2> HIDE DEF Good
  <2> QED BY <1>8
<1>10. F = [k \in 0 .. n |-> IF k = 0 THEN Single1
               ELSE ConcatHelper(F[k - 1], nfas[k], NStart, TRUE)]
  BY <1>9
<1> HIDE DEF F, g
<1>11. HangsOn(F, nfas)
  <2>1. F[0] = Single1
    BY <1>1, <1>10
  <2>2. ASSUME NEW k \in 1 .. n
        PROVE  F[k] = ConcatHelper(F[k - 1], nfas[k], NStart, TRUE)
    <3>1. k \in 0 .. n /\ k # 0
      BY <1>1
    <3>2. F[k] = IF k = 0 THEN Single1
                 ELSE ConcatHelper(F[k - 1], nfas[k], NStart, TRUE)
      BY <1>10, <3>1
    <3> QED BY <3>1, <3>2
  <2> QED BY <2>1, <2>2 DEF HangsOn, n
<1> QED BY <1>3, <1>11 DEF n

\* With every branch it is a fan, which holds the last states of the branches.
LEMMA BranchesFan ==
    ASSUME NEW nfas \in Seq(Fragments), NEW f, HangsOn(f, nfas)
    PROVE  \A k \in 0 .. Len(nfas) : f[k] \in Fans /\ Finals(f, k) \subseteq NStates(f[k])
<1> DEFINE n == Len(nfas)
           Good(k) == /\ f[k] \in Fans /\ Finals(f, k) \subseteq NStates(f[k])
                      /\ NStop(f[k]) \in NStates(f[k])
           K == {k \in 0 .. n : Good(k)}
<1>1. n \in Nat /\ \A i \in 1 .. n : nfas[i] \in Fragments
  OBVIOUS
<1> HIDE DEF n
<1>2. 0 \in K
  <2>1. f[0] = Single1
    BY DEF HangsOn
  <2>2. Finals(f, 0) = {}
    BY DEF Finals
  <2> QED BY <1>1, <2>1, <2>2, OneIsFan
<1>3. ASSUME NEW k \in 0 .. (n - 1), k \in K PROVE k + 1 \in K
  <2> DEFINE m == f[k]
             u == f[k + 1]
             p == nfas[k + 1]
             E == Finals(f, k)
  <2>1. m \in Fans /\ E \subseteq NStates(m) /\ NStop(m) \in NStates(m)
    BY <1>3
  <2>2. k + 1 \in 1 .. n /\ (k + 1) - 1 = k /\ k + 1 \in 0 .. n
    BY <1>1
  <2>3. p \in Fragments
    BY <1>1, <2>2
  <2>4. u = ConcatHelper(m, p, NStart, TRUE)
    BY <2>2 DEF HangsOn, n
  <2>5. Finals(f, k + 1) = E \cup {NStop(u)}
    <3>1. 1 .. (k + 1) = (1 .. k) \cup {k + 1}
      BY <1>1
    <3> QED BY <3>1 DEF Finals
  <2> HIDE DEF m, u, p, E
  <2>6. u \in Fans /\ NStop(u) \in NStates(u) /\ E \subseteq NStates(u)
    <3>1. CASE p = NoStates
      <4>1. u = m
        BY <2>4, <3>1 DEF ConcatHelper, NoStates
      <4> QED BY <2>1, <4>1
    <3>2. CASE p \in Pieces
      BY <2>1, <2>4, <3>2, BesideIsFan
    <3> QED BY <2>3, <3>1, <3>2 DEF Fragments
  <2>7. Good(k + 1)
    <3>1. u = f[k + 1]
      BY DEF u
    <3> QED BY <2>5, <2>6, <3>1
  <2> HIDE DEF Good
  <2> QED BY <2>2, <2>7
<1>4. \A k \in 0 .. n : Good(k)
  <2> HIDE DEF Good
  <2>1. 0 .. n \subseteq K
    <3> HIDE DEF K
    <3> QED BY <1>1, <1>2, <1>3, UpTo
  <2> QED BY <2>1
<1> QED BY <1>4 DEF n

\* Branches side by side are a piece.
LEMMA AlternationIsPiece ==
    ASSUME NEW nfas \in Seq(Fragments), nfas # <<>>, Len(nfas) # 1
    PROVE  Alternation(nfas) \in Pieces
<1> DEFINE n == Len(nfas)
<1>1. n \in Nat /\ n > 0
  OBVIOUS
<1>2. PICK f : /\ HangsOn(f, nfas)
               /\ LET all == f[n]
                  IN  Alternation(nfas) =
                          WithEpsilons(Grown(all, 1), {<<s, all.n>> : s \in Finals(f, n)})
  BY AlternationRec
<1> DEFINE m == f[n]
           E == Finals(f, n)
           pairs == {<<s, m.n>> : s \in E}
<1>3. m \in Fans /\ E \subseteq NStates(m)
  <2>1. n \in 0 .. Len(nfas)
    BY <1>1
  <2> HIDE DEF n
  <2> QED BY <1>1, <1>2, <2>1, BranchesFan
<1>4. Alternation(nfas) = WithEpsilons(Grown(m, 1), pairs)
  BY <1>2
<1> HIDE DEF m, E, n
<1>5. m.n \in Nat /\ m.n > 0
  BY <1>3, NfaFacts DEF Fans
<1>6. pairs \in SUBSET (NStates(m) \X (1 .. m.n))
  <2>1. m.n \in 1 .. m.n
    BY <1>5
  <2> QED BY <1>3, <2>1
<1> HIDE DEF pairs
<1>7. WithEpsilons(Grown(m, 1), pairs) \in Pieces
  BY <1>3, <1>6, CappedIsPiece
<1> QED BY <1>4, <1>7

\* One branch is what it was.
LEMMA AlternationIsFragment ==
    ASSUME NEW nfas \in Seq(Fragments), nfas # <<>>
    PROVE  Alternation(nfas) \in Fragments
<1>1. CASE Len(nfas) = 1
  <2>1. Alternation(nfas) = nfas[1]
    BY <1>1 DEF Alternation
  <2>2. nfas[1] \in Fragments
    BY <1>1
  <2> QED BY <2>1, <2>2
<1>2. CASE Len(nfas) # 1
  BY <1>2, AlternationIsPiece DEF Fragments
<1> QED BY <1>1, <1>2

\* The recursive function of ConcatMany is one.
LEMMA ManyRec ==
    ASSUME NEW nfas \in Seq(Fragments), nfas # <<>>
    PROVE  \E f : /\ ConcatMany(nfas) = f[Len(nfas)]
                  /\ \A k \in 1 .. Len(nfas) :
                         f[k] = IF k = 1 THEN nfas[1] ELSE Concat(f[k - 1], nfas[k])
<1> DEFINE n == Len(nfas)
           l == n - 1
           g == [i \in 1 .. l |-> [x \in Fragments |-> Concat(x, nfas[i + 1])]]
           Good(f) == f = [k \in 1 .. n |-> IF k = 1 THEN nfas[1]
                              ELSE Concat(f[k - 1], nfas[k])]
           F == CHOOSE f : Good(f)
<1>1. n \in Nat /\ n > 0 /\ \A i \in 1 .. n : nfas[i] \in Fragments
  OBVIOUS
<1>2. l \in Nat /\ n = l + 1
  BY <1>1
<1>3. ConcatMany(nfas) = F[n]
  BY DEF ConcatMany
<1> HIDE DEF n, l
<1>4. ASSUME NEW i \in 1 .. l PROVE nfas[i + 1] \in Fragments
  BY <1>1, <1>2
<1>5. g \in [1 .. l -> [Fragments -> Fragments]]
  BY <1>4, RowIsFragment
<1>6. nfas[1] \in Fragments
  BY <1>1
<1>7. Recursive(l, Fragments, nfas[1], g)
  <2> HIDE DEF g
  <2> QED BY <1>2, <1>5, <1>6, Recursion
<1>8. PICK f \in [0 .. l -> Fragments] :
          f[0] = nfas[1] /\ \A i \in 1 .. l : f[i] = g[i][f[i - 1]]
  BY <1>7 DEF Recursive
<1>9. ASSUME NEW i \in 1 .. l
      PROVE  f[i] = Concat(f[i - 1], nfas[i + 1])
  <2>1. f[i - 1] \in Fragments
    BY <1>2
  <2>2. g[i][f[i - 1]] = Concat(f[i - 1], nfas[i + 1])
    BY <2>1
  <2> HIDE DEF g
  <2> QED BY <1>8, <2>2
<1> DEFINE h == [k \in 1 .. n |-> f[k - 1]]
<1>10. Good(h)
  <2>1. ASSUME NEW k \in 1 .. n
        PROVE  h[k] = IF k = 1 THEN nfas[1] ELSE Concat(h[k - 1], nfas[k])
    <3>1. CASE k = 1
      <4>1. h[k] = f[0]
        BY <3>1
      <4> QED BY <1>8, <3>1, <4>1
    <3>2. CASE k # 1
      <4>1. k - 1 \in 1 .. l /\ k - 1 \in 1 .. n /\ (k - 1) + 1 = k
        BY <1>2, <3>2
      <4>2. h[k] = f[k - 1] /\ h[k - 1] = f[(k - 1) - 1]
        BY <4>1
      <4> HIDE DEF h
      <4>3. f[k - 1] = Concat(f[(k - 1) - 1], nfas[(k - 1) + 1])
        BY <1>9, <4>1
      <4> QED BY <3>2, <4>1, <4>2, <4>3
    <3> QED BY <3>1, <3>2
  <2>2. h = [k \in 1 .. n |-> h[k]]
    OBVIOUS
  <2> HIDE DEF h
  <2> QED BY <2>1, <2>2
<1>11. Good(F)
  <2> HIDE DEF Good
  <2> QED BY <1>10
<1>12. F = [k \in 1 .. n |-> IF k = 1 THEN nfas[1] ELSE Concat(F[k - 1], nfas[k])]
  BY <1>11
<1> HIDE DEF F, g
<1>13. ASSUME NEW k \in 1 .. n
       PROVE  F[k] = IF k = 1 THEN nfas[1] ELSE Concat(F[k - 1], nfas[k])
  BY <1>12
<1> QED BY <1>3, <1>13 DEF n

\* Fragments in a row, as many as there are, are a fragment.
LEMMA ManyIsFragment ==
    ASSUME NEW nfas \in Seq(Fragments), nfas # <<>>
    PROVE  ConcatMany(nfas) \in Fragments
<1> DEFINE n == Len(nfas)
           l == n - 1
<1>1. n \in Nat /\ n > 0 /\ \A i \in 1 .. n : nfas[i] \in Fragments
  OBVIOUS
<1>2. l \in Nat /\ n = l + 1
  BY <1>1
<1>3. PICK F : /\ ConcatMany(nfas) = F[n]
               /\ \A k \in 1 .. n : F[k] = IF k = 1 THEN nfas[1] ELSE Concat(F[k - 1], nfas[k])
  BY ManyRec
<1> HIDE DEF n, l
<1> DEFINE K == {k \in 0 .. l : F[k + 1] \in Fragments}
<1>4. 0 \in K
  <2>1. 1 \in 1 .. n /\ 0 + 1 = 1
    BY <1>1
  <2>2. F[1] = nfas[1]
    BY <1>3, <2>1
  <2> QED BY <1>1, <1>2, <2>1, <2>2
<1>5. ASSUME NEW k \in 0 .. (l - 1), k \in K PROVE k + 1 \in K
  <2>1. (k + 1) + 1 \in 1 .. n /\ (k + 1) + 1 # 1 /\ ((k + 1) + 1) - 1 = k + 1
        /\ k + 1 \in 0 .. l
    BY <1>2
  <2>2. F[(k + 1) + 1] = Concat(F[k + 1], nfas[(k + 1) + 1])
    BY <1>3, <2>1
  <2>3. F[k + 1] \in Fragments /\ nfas[(k + 1) + 1] \in Fragments
    BY <1>1, <1>5, <2>1
  <2>4. F[(k + 1) + 1] \in Fragments
    BY <2>2, <2>3, RowIsFragment
  <2> QED BY <2>1, <2>4
<1>6. l \in K
  <2> HIDE DEF K
  <2>1. 0 .. l \subseteq K
    BY <1>2, <1>4, <1>5, UpTo
  <2> QED BY <1>2, <2>1
<1> QED BY <1>2, <1>3, <1>6

\* The recursive function of Copies is one.
LEMMA CopiesRec ==
    ASSUME NEW m \in Fragments, NEW n \in Nat
    PROVE  \E f : /\ Copies(m, n) = f[n]
                  /\ \A i \in 0 .. n :
                         f[i] = IF i = 0 THEN NoStates ELSE Concat(f[i - 1], m)
<1> DEFINE g == [i \in 1 .. n |-> [x \in Fragments |-> Concat(x, m)]]
           Good(f) == f = [i \in 0 .. n |-> IF i = 0 THEN NoStates ELSE Concat(f[i - 1], m)]
           F == CHOOSE f : Good(f)
<1>1. Copies(m, n) = F[n]
  BY DEF Copies
<1>2. g \in [1 .. n -> [Fragments -> Fragments]]
  BY RowIsFragment
<1>3. NoStates \in Fragments
  BY DEF Fragments
<1>4. Recursive(n, Fragments, NoStates, g)
  <2> HIDE DEF g
  <2> QED BY <1>2, <1>3, Recursion
<1>5. PICK f \in [0 .. n -> Fragments] :
          f[0] = NoStates /\ \A i \in 1 .. n : f[i] = g[i][f[i - 1]]
  BY <1>4 DEF Recursive
<1>6. ASSUME NEW i \in 1 .. n PROVE f[i] = Concat(f[i - 1], m)
  <2>1. f[i - 1] \in Fragments
    OBVIOUS
  <2>2. g[i][f[i - 1]] = Concat(f[i - 1], m)
    BY <2>1
  <2> HIDE DEF g
  <2> QED BY <1>5, <2>2
<1>7. f[0] = NoStates
  BY <1>5
<1>8. Good(f)
  <2>1. f = [i \in 0 .. n |-> f[i]]
    OBVIOUS
  <2>2. \A i \in 0 .. n : f[i] = IF i = 0 THEN NoStates ELSE Concat(f[i - 1], m)
    BY <1>6, <1>7
  <2> HIDE DEF g
  <2> QED BY <2>1, <2>2
<1>9. Good(F)
  <2> HIDE DEF Good
  <2> QED BY <1>8
<1>10. F = [i \in 0 .. n |-> IF i = 0 THEN NoStates ELSE Concat(F[i - 1], m)]
  BY <1>9
<1> HIDE DEF F, g
<1>11. ASSUME NEW i \in 0 .. n
       PROVE  F[i] = IF i = 0 THEN NoStates ELSE Concat(F[i - 1], m)
  BY <1>10
<1> QED BY <1>1, <1>11

\* Copies in a row are a fragment.
LEMMA CopiesAreFragment ==
    ASSUME NEW m \in Fragments, NEW n \in Nat
    PROVE  Copies(m, n) \in Fragments
<1>1. PICK F : /\ Copies(m, n) = F[n]
               /\ \A i \in 0 .. n : F[i] = IF i = 0 THEN NoStates ELSE Concat(F[i - 1], m)
  BY CopiesRec
<1>2. NoStates \in Fragments
  BY DEF Fragments
<1> DEFINE K == {i \in 0 .. n : F[i] \in Fragments}
<1>3. 0 \in K
  <2>1. F[0] = NoStates
    BY <1>1
  <2> QED BY <1>2, <2>1
<1>4. ASSUME NEW i \in 0 .. (n - 1), i \in K PROVE i + 1 \in K
  <2>1. i + 1 \in 0 .. n /\ i + 1 # 0 /\ (i + 1) - 1 = i
    OBVIOUS
  <2>2. F[i + 1] = Concat(F[i], m)
    BY <1>1, <2>1
  <2>3. F[i] \in Fragments
    BY <1>4
  <2> QED BY <2>1, <2>2, <2>3, RowIsFragment
<1>5. n \in K
  <2> HIDE DEF K
  <2>1. 0 .. n \subseteq K
    BY <1>3, <1>4, UpTo
  <2> QED BY <2>1
<1> QED BY <1>1, <1>5

\* A number in braces is that many copies.
LEMMA CountedIsCopies ==
    ASSUME NEW m, NEW n \in Nat
    PROVE  NumberBounded(m, n, n) = Copies(m, n)
<1> DEFINE Good(f) == f = [k \in n .. n |-> IF k = n THEN Copies(m, n)
                              ELSE Alternation(<<f[k - 1], Copies(m, k)>>)]
           F == CHOOSE f : Good(f)
           f == [k \in n .. n |-> Copies(m, n)]
<1>1. NumberBounded(m, n, n) = F[n]
  BY DEF NumberBounded
<1>2. n .. n = {n}
  OBVIOUS
<1>3. Good(f)
  <2>1. \A x : [k \in n .. n |-> IF k = n THEN Copies(m, n)
                                 ELSE Alternation(<<x[k - 1], Copies(m, k)>>)]
               = [k \in n .. n |-> Copies(m, n)]
    BY <1>2
  <2> QED BY <2>1
<1>4. Good(F)
  <2> HIDE DEF Good, f
  <2> QED BY <1>3
<1>5. F = [k \in n .. n |-> IF k = n THEN Copies(m, n)
              ELSE Alternation(<<F[k - 1], Copies(m, k)>>)]
  BY <1>4
<1> HIDE DEF F
<1>6. F[n] = Copies(m, n)
  BY <1>2, <1>5
<1> QED BY <1>1, <1>6

\* And so are the quantified fragments.
LEMMA QuantifiedAreFragments ==
    ASSUME NEW m \in Fragments
    PROVE  /\ Star(m) \in Fragments /\ Plus(m) \in Fragments
           /\ QuestionMark(m) \in Fragments
<1>1. Star(m) \in Fragments /\ Epsilon \in Fragments
  BY StarIsPiece, EpsilonIsPiece DEF Fragments
<1>2. Plus(m) \in Fragments
  BY <1>1, RowIsFragment DEF Plus
<1>3. <<Epsilon, m>> \in Seq(Fragments) /\ <<Epsilon, m>> # <<>>
  BY <1>1
<1>4. QuestionMark(m) \in Fragments
  BY <1>3, AlternationIsFragment DEF QuestionMark
<1> QED BY <1>1, <1>2, <1>4

-----------------------------------------------------------------------------
(* Dead ends: what the builders make of pieces without any. *)

\* No edge leads out of R, or into it.
ForwardClosed(m, R) == \A s, t \in NStates(m) : s \in R /\ Joins(m, s, t) => t \in R
BackwardClosed(m, R) == \A s, t \in NStates(m) : t \in R /\ Joins(m, s, t) => s \in R

\* Every state is on a way from the start state; from every one a way leads to F.
Reached(m) ==
    \A R \in SUBSET NStates(m) : NStart \in R /\ ForwardClosed(m, R) => R = NStates(m)
LeadsTo(m, F) ==
    \A R \in SUBSET NStates(m) : F \subseteq R /\ BackwardClosed(m, R) => R = NStates(m)

\* Sets of atoms that have characters, with what two edges in one would accept.
Alphabets == {E \in SUBSET ((SUBSET Char) \ {{}}) : \A C, D \in E : C \cup D \in E}

\* Each edge accepts a set of E, if it accepts any character.
Labelled(E, m) == \A s, t \in NStates(m) : m.edges[s][t] \in E \cup {{}}

\* Fans and pieces built of atoms in E.
LiveFans(E) == {m \in Fans : Labelled(E, m) /\ Reached(m)}
LivePieces(E) == {m \in Pieces : Labelled(E, m) /\ Reached(m) /\ LeadsTo(m, {NStop(m)})}
LiveFragments(E) == LivePieces(E) \cup {NoStates}

\* They are pieces and fragments.
LEMMA LiveFacts ==
    ASSUME NEW E
    PROVE  /\ LivePieces(E) \subseteq Pieces /\ LiveFragments(E) \subseteq Fragments
           /\ LiveFans(E) \subseteq Fans
           /\ \A m \in LivePieces(E) : m \in LiveFans(E)
BY PieceFacts DEF LivePieces, LiveFragments, LiveFans, Fragments

\* States added have no edges.
LEMMA GrownLabels ==
    ASSUME NEW E \in Alphabets, NEW m \in WithStates, NEW k \in Nat, Labelled(E, m)
    PROVE  Labelled(E, Grown(m, k))
<1> DEFINE u == Grown(m, k)
<1>1. /\ u.n = m.n + k
      /\ \A s, t \in NStates(u) :
             u.edges[s][t] = IF s < m.n /\ t < m.n THEN m.edges[s][t] ELSE {}
  BY GrownJoins
<1>2. m.n \in Nat /\ NStates(m) = 0 .. (m.n - 1)
  BY NfaFacts
<1> HIDE DEF u
<1>3. \A s \in NStates(u) : s < m.n => s \in NStates(m)
  BY <1>1, <1>2 DEF NStates
<1>4. Labelled(E, u)
  BY <1>1, <1>3 DEF Labelled
<1> QED BY <1>4 DEF u

\* An epsilon edge accepts nothing.
LEMMA EpsilonLabels ==
    ASSUME NEW E, NEW m \in WithStates, NEW pairs \in SUBSET (NStates(m) \X NStates(m)),
           Labelled(E, m)
    PROVE  Labelled(E, WithEpsilons(m, pairs))
<1> DEFINE u == WithEpsilons(m, pairs)
<1>1. u.n = m.n /\ u.edges = m.edges
  BY EpsilonsJoin
<1> HIDE DEF u
<1>2. Labelled(E, u)
  BY <1>1 DEF Labelled, NStates
<1> QED BY <1>2 DEF u

\* An edge moved into another accepts what either did.
LEMMA MovedLabels ==
    ASSUME NEW E \in Alphabets, NEW left \in WithStates, NEW right \in WithStates, NEW z \in Nat,
           left.n = z + right.n, Labelled(E, left), Labelled(E, right)
    PROVE  Labelled(E, Moved(left, right, z, z + 1))
<1> DEFINE u == Moved(left, right, z, z + 1)
<1>1. /\ u \in WithStates /\ u.n = left.n
      /\ \A s, t \in NStates(u) :
             /\ u.edges[s][t] = left.edges[s][t] \cup
                    (IF s >= z /\ t >= z THEN right.edges[s - z][t - z] ELSE {})
             /\ <<s, t>> \in u.eps <=>
                    /\ \/ <<s, t>> \in left.eps
                       \/ s >= z /\ t >= z /\ <<s - z, t - z>> \in right.eps
                    /\ u.edges[s][t] = {}
  BY MovedEdges
<1>2. right.n \in Nat /\ NStates(right) = 0 .. (right.n - 1)
  BY NfaFacts
<1> HIDE DEF u
<1>3. NStates(u) = NStates(left) /\ NStates(u) = 0 .. (z + right.n - 1)
  <2>1. NStates(u) = NStates(left)
    BY <1>1 DEF NStates
  <2>2. u.n - 1 = z + right.n - 1
    BY <1>1, <1>2
  <2> QED BY <2>1, <2>2 DEF NStates
<1>4. \A s \in NStates(u) : s >= z => s - z \in NStates(right)
  BY <1>2, <1>3
<1>5. ASSUME NEW s \in NStates(u), NEW t \in NStates(u)
      PROVE  u.edges[s][t] \in E \cup {{}}
  <2>1. left.edges[s][t] \in E \cup {{}}
    BY <1>3 DEF Labelled
  <2>2. s >= z /\ t >= z => right.edges[s - z][t - z] \in E \cup {{}}
    BY <1>4 DEF Labelled
  <2>3. \A C, D \in E \cup {{}} : C \cup D \in E \cup {{}}
    BY DEF Alphabets
  <2> DEFINE P == s >= z /\ t >= z
             A == left.edges[s][t]
             B == right.edges[s - z][t - z]
  <2>4. u.edges[s][t] = A \cup (IF P THEN B ELSE {})
    BY <1>1
  <2> HIDE DEF P, A, B
  <2>5. A \cup (IF P THEN B ELSE {}) = IF P THEN A \cup B ELSE A
    OBVIOUS
  <2>6. A \in E \cup {{}} /\ (P => B \in E \cup {{}})
    BY <2>1, <2>2 DEF P, A, B
  <2> QED BY <2>3, <2>4, <2>5, <2>6
<1>6. Labelled(E, u)
  BY <1>5 DEF Labelled
<1> QED BY <1>6 DEF u

\* In a row, and side by side, edges accept what they did.
LEMMA JoinedLabels ==
    ASSUME NEW E \in Alphabets, NEW left \in WithStates, NEW right \in WithStates,
           Labelled(E, left), Labelled(E, right)
    PROVE  /\ Labelled(E, Concat(left, right))
           /\ Labelled(E, ConcatHelper(left, right, NStart, TRUE))
<1>1. left.n \in Nat \ {0} /\ right.n \in Nat \ {0}
  BY NfaFacts
<1>2. Labelled(E, Concat(left, right))
  <2> DEFINE z == left.n - 1
             grown == Grown(left, right.n - 1)
  <2>1. z \in Nat /\ z + 1 = left.n /\ right.n - 1 \in Nat
    BY <1>1
  <2>2. Concat(left, right) = Moved(grown, right, z, z + 1)
    BY <1>1, <2>1 DEF Concat, ConcatHelper, Joined, NStop
  <2>3. grown \in WithStates /\ grown.n = left.n + (right.n - 1) /\ Labelled(E, grown)
    BY <2>1, GrownJoins, GrownLabels
  <2> HIDE DEF grown
  <2>4. grown.n = z + right.n
    BY <1>1, <2>1, <2>3
  <2> HIDE DEF z
  <2> QED BY <2>1, <2>2, <2>3, <2>4, MovedLabels
<1>3. Labelled(E, ConcatHelper(left, right, NStart, TRUE))
  <2> DEFINE z == left.n
             grown == Grown(left, right.n)
             pairs == {<<NStart, z>>}
             linked == WithEpsilons(grown, pairs)
  <2>1. ConcatHelper(left, right, NStart, TRUE) = Moved(linked, right, z, z + 1)
    BY <1>1 DEF ConcatHelper, Joined
  <2>2. grown \in WithStates /\ grown.n = left.n + right.n /\ Labelled(E, grown)
    BY <1>1, GrownJoins, GrownLabels
  <2> HIDE DEF grown
  <2>3. pairs \in SUBSET (NStates(grown) \X NStates(grown))
    <3>1. NStart \in NStates(grown) /\ z \in NStates(grown)
      BY <1>1, <2>2 DEF NStates, NStart
    <3> QED BY <3>1
  <2> HIDE DEF pairs
  <2>4. linked \in WithStates /\ linked.n = grown.n /\ Labelled(E, linked)
    BY <2>2, <2>3, EpsilonsJoin, EpsilonLabels
  <2> HIDE DEF linked
  <2>5. z \in Nat /\ linked.n = z + right.n
    BY <1>1, <2>2, <2>4
  <2> HIDE DEF z
  <2> QED BY <2>1, <2>4, <2>5, MovedLabels
<1> QED BY <1>2, <1>3

\* A copy of m from state z of u on: what is closed in u is in the copy.
IsCopy(m, u, z) ==
    /\ z \in Nat /\ z + m.n <= u.n
    /\ \A s, t \in NStates(m) : Joins(m, s, t) => Joins(u, z + s, z + t)

\* A closed set that holds the start of a copy holds the copy.
LEMMA ReachedWithin ==
    ASSUME NEW m \in WithStates, NEW u \in WithStates, NEW z, IsCopy(m, u, z), Reached(m),
           NEW R, ForwardClosed(u, R), z \in R
    PROVE  \A s \in NStates(m) : z + s \in R
<1> DEFINE Q == {s \in NStates(m) : z + s \in R}
<1>1. /\ m.n \in Nat \ {0} /\ NStates(m) = 0 .. (m.n - 1) /\ NStart \in NStates(m)
      /\ u.n \in Nat /\ NStates(u) = 0 .. (u.n - 1) /\ NStart = 0
  BY NfaFacts DEF NStart
<1>2. \A s \in NStates(m) : z + s \in NStates(u)
  BY <1>1 DEF IsCopy
<1>3. ForwardClosed(m, Q)
  <2> SUFFICES ASSUME NEW s \in NStates(m), NEW t \in NStates(m), s \in Q, Joins(m, s, t)
               PROVE  t \in Q
    BY DEF ForwardClosed
  <2>1. Joins(u, z + s, z + t) /\ z + s \in R
    BY DEF IsCopy
  <2>2. z + t \in R
    BY <1>2, <2>1 DEF ForwardClosed
  <2> QED BY <2>2
<1>4. NStart \in Q
  <2>1. z + 0 = z
    BY DEF IsCopy
  <2> QED BY <1>1, <2>1
<1>5. Q = NStates(m)
  <2>1. Q \in SUBSET NStates(m)
    OBVIOUS
  <2> HIDE DEF Q
  <2> QED BY <1>3, <1>4, <2>1 DEF Reached
<1> QED BY <1>5

\* A backward closed set that holds what the copy leads to holds the copy.
LEMMA LeadsWithin ==
    ASSUME NEW m \in WithStates, NEW u \in WithStates, NEW z, IsCopy(m, u, z),
           NEW F \in SUBSET NStates(m), LeadsTo(m, F),
           NEW R, BackwardClosed(u, R), \A s \in F : z + s \in R
    PROVE  \A s \in NStates(m) : z + s \in R
<1> DEFINE Q == {s \in NStates(m) : z + s \in R}
<1>1. /\ m.n \in Nat \ {0} /\ NStates(m) = 0 .. (m.n - 1)
      /\ u.n \in Nat /\ NStates(u) = 0 .. (u.n - 1)
  BY NfaFacts
<1>2. \A s \in NStates(m) : z + s \in NStates(u)
  BY <1>1 DEF IsCopy
<1>3. BackwardClosed(m, Q)
  <2> SUFFICES ASSUME NEW s \in NStates(m), NEW t \in NStates(m), t \in Q, Joins(m, s, t)
               PROVE  s \in Q
    BY DEF BackwardClosed
  <2>1. Joins(u, z + s, z + t) /\ z + t \in R
    BY DEF IsCopy
  <2>2. z + s \in R
    BY <1>2, <2>1 DEF BackwardClosed
  <2> QED BY <2>2
<1>4. F \subseteq Q
  OBVIOUS
<1>5. Q = NStates(m)
  <2>1. Q \in SUBSET NStates(m)
    OBVIOUS
  <2> HIDE DEF Q
  <2> QED BY <1>3, <1>4, <2>1 DEF LeadsTo
<1> QED BY <1>5

\* Two live pieces in a row are live.
LEMMA RowLives ==
    ASSUME NEW E \in Alphabets, NEW left \in LivePieces(E), NEW right \in LivePieces(E)
    PROVE  Concat(left, right) \in LivePieces(E)
<1> DEFINE u == Concat(left, right)
           z == left.n - 1
           L == left.n
           R == right.n
<1>1. /\ L \in Nat /\ R \in Nat /\ L > 1 /\ R > 1 /\ z \in Nat /\ z > 0
      /\ left \in WithStates /\ right \in WithStates
      /\ left \in Pieces /\ right \in Pieces
      /\ NStates(left) = 0 .. z /\ NStates(right) = 0 .. (R - 1)
      /\ NStop(left) = z /\ NStop(right) = R - 1 /\ NStart = 0
      /\ Reached(left) /\ Reached(right)
      /\ LeadsTo(left, {z}) /\ LeadsTo(right, {R - 1})
  <2>1. /\ left \in Pieces /\ left \in WithStates /\ L \in Nat /\ L > 1
        /\ NStates(left) = 0 .. (L - 1) /\ NStart = 0 /\ NStop(left) = L - 1
        /\ Reached(left) /\ LeadsTo(left, {NStop(left)})
    BY PieceFacts DEF LivePieces
  <2>2. /\ right \in Pieces /\ right \in WithStates /\ R \in Nat /\ R > 1
        /\ NStates(right) = 0 .. (R - 1) /\ NStop(right) = R - 1
        /\ Reached(right) /\ LeadsTo(right, {NStop(right)})
    BY PieceFacts DEF LivePieces
  <2>3. z = L - 1
    OBVIOUS
  <2> HIDE DEF z, L, R
  <2> QED BY <2>1, <2>2, <2>3
<1>2. /\ u \in WithStates /\ u \in Pieces /\ u.n = z + R
      /\ \A s, t \in NStates(u) :
             Joins(u, s, t) <=> \/ s <= z /\ t <= z /\ Joins(left, s, t)
                                \/ s >= z /\ t >= z /\ Joins(right, s - z, t - z)
  BY <1>1, RowJoins, RowIsPiece
<1>3. NStates(u) = 0 .. (z + R - 1) /\ NStop(u) = z + R - 1 /\ u.n \in Nat
  <2> HIDE DEF u, z, R
  <2>1. NStates(u) = 0 .. (u.n - 1) /\ NStop(u) = u.n - 1
    BY DEF NStates, NStop
  <2> QED BY <1>1, <1>2, <2>1
<1> HIDE DEF u, z, L, R
<1>4. IsCopy(left, u, 0)
  <2>1. 0 + left.n <= u.n
    <3>1. left.n = z + 1 /\ left.n \in Nat
      BY <1>1 DEF z, L
    <3> QED BY <1>1, <1>2, <3>1
  <2>2. ASSUME NEW s \in NStates(left), NEW t \in NStates(left), Joins(left, s, t)
        PROVE  Joins(u, 0 + s, 0 + t)
    BY <1>1, <1>2, <1>3, <2>2
  <2> QED BY <2>1, <2>2 DEF IsCopy
<1>5. IsCopy(right, u, z)
  <2>1. ASSUME NEW s \in NStates(right), NEW t \in NStates(right), Joins(right, s, t)
        PROVE  Joins(u, z + s, z + t)
    <3>1. z + s \in NStates(u) /\ z + t \in NStates(u) /\ z + s >= z /\ z + t >= z
          /\ (z + s) - z = s /\ (z + t) - z = t
      BY <1>1, <1>3
    <3> QED BY <1>2, <2>1, <3>1
  <2>2. z + right.n <= u.n
    BY <1>1, <1>2 DEF R
  <2> QED BY <1>1, <2>1, <2>2 DEF IsCopy
<1>6. ASSUME NEW Q \in SUBSET NStates(u), \A s \in 0 .. z : s \in Q,
             \A s \in 0 .. (R - 1) : z + s \in Q
      PROVE  Q = NStates(u)
  <2> SUFFICES ASSUME NEW s \in NStates(u), s \notin Q PROVE FALSE
    OBVIOUS
  <2>1. s > z /\ s - z \in 0 .. (R - 1) /\ z + (s - z) = s
    BY <1>1, <1>3, <1>6
  <2> QED BY <1>6, <2>1
<1>7. Reached(u)
  <2> SUFFICES ASSUME NEW Q \in SUBSET NStates(u), 0 \in Q, ForwardClosed(u, Q)
               PROVE  Q = NStates(u)
    BY <1>1 DEF Reached
  <2>1. \A s \in 0 .. z : 0 + s \in Q
    BY <1>1, <1>2, <1>4, ReachedWithin
  <2>2. \A s \in 0 .. z : s \in Q
    BY <1>1, <2>1
  <2>3. z \in Q
    BY <1>1, <2>2
  <2>4. \A s \in 0 .. (R - 1) : z + s \in Q
    BY <1>1, <1>2, <1>5, <2>3, ReachedWithin
  <2> QED BY <1>6, <2>2, <2>4
<1>8. LeadsTo(u, {NStop(u)})
  <2> SUFFICES ASSUME NEW Q \in SUBSET NStates(u), z + R - 1 \in Q, BackwardClosed(u, Q)
               PROVE  Q = NStates(u)
    BY <1>3 DEF LeadsTo
  <2>1. \A s \in 0 .. (R - 1) : z + s \in Q
    <3> DEFINE F == {R - 1}
    <3>1. \A s \in F : z + s \in Q
      <4>1. z + (R - 1) = z + R - 1
        BY <1>1
      <4> QED BY <4>1
    <3>2. F \in SUBSET NStates(right) /\ LeadsTo(right, F)
      BY <1>1
    <3> HIDE DEF F
    <3>3. \A s \in NStates(right) : z + s \in Q
      BY <1>1, <1>2, <1>5, <3>1, <3>2, LeadsWithin
    <3> QED BY <1>1, <3>3
  <2>2. z \in Q
    <3>1. 0 \in 0 .. (R - 1) /\ z + 0 = z
      BY <1>1
    <3> QED BY <2>1, <3>1
  <2>3. \A s \in 0 .. z : 0 + s \in Q
    <3> DEFINE F == {z}
    <3>1. \A s \in F : 0 + s \in Q
      BY <1>1, <2>2
    <3>2. F \in SUBSET NStates(left) /\ LeadsTo(left, F)
      BY <1>1
    <3> HIDE DEF F
    <3>3. \A s \in NStates(left) : 0 + s \in Q
      BY <1>1, <1>2, <1>4, <3>1, <3>2, LeadsWithin
    <3> QED BY <1>1, <3>3
  <2>4. \A s \in 0 .. z : s \in Q
    BY <1>1, <2>3
  <2> QED BY <1>6, <2>1, <2>4
<1>9. Labelled(E, u)
  BY <1>1, JoinedLabels DEF LivePieces, u
<1> QED BY <1>2, <1>7, <1>8, <1>9 DEF LivePieces, u

\* Live fragments in a row are a live fragment.
LEMMA RowLivesOn ==
    ASSUME NEW E \in Alphabets, NEW left \in LiveFragments(E), NEW right \in LiveFragments(E)
    PROVE  Concat(left, right) \in LiveFragments(E)
<1>1. CASE right = NoStates
  <2>1. Concat(left, right) = left
    BY <1>1 DEF Concat, ConcatHelper, NoStates
  <2> QED BY <2>1
<1>2. CASE right \in LivePieces(E) /\ left = NoStates
  <2>1. right.n # 0
    <3>1. right \in Pieces
      BY <1>2, LiveFacts
    <3>2. right.n \in Nat /\ right.n > 1
      BY <3>1, PieceFacts
    <3> QED BY <3>2
  <2>2. Concat(left, right) = right
    BY <1>2, <2>1 DEF Concat, ConcatHelper, NoStates
  <2> QED BY <2>2
<1>3. CASE right \in LivePieces(E) /\ left \in LivePieces(E)
  BY <1>3, RowLives DEF LiveFragments
<1> QED BY <1>1, <1>2, <1>3 DEF LiveFragments

\* A live piece at the side of a live fan: from what led to F a way leads to F or
\* to where the piece stops.
LEMMA BesideLives ==
    ASSUME NEW E \in Alphabets, NEW left \in LiveFans(E), NEW right \in LivePieces(E),
           NEW F \in SUBSET NStates(left), LeadsTo(left, F) \/ left.n = 1
    PROVE  LET u == ConcatHelper(left, right, NStart, TRUE)
           IN  /\ u \in LiveFans(E) /\ u.n = left.n + right.n
               /\ NStop(u) \in NStates(u) /\ F \subseteq NStates(u)
               /\ LeadsTo(u, F \cup {NStop(u)})
<1> DEFINE u == ConcatHelper(left, right, NStart, TRUE)
           z == left.n
           R == right.n
<1>1. /\ left \in WithStates /\ left \in Fans /\ z \in Nat /\ z > 0
      /\ NStates(left) = 0 .. (z - 1) /\ NStart = 0 /\ Reached(left)
  BY NfaFacts DEF LiveFans, Fans, NStart
<1>2. /\ right \in WithStates /\ right \in Pieces /\ R \in Nat /\ R > 1
      /\ NStates(right) = 0 .. (R - 1)
      /\ NStop(right) = R - 1 /\ Reached(right) /\ LeadsTo(right, {NStop(right)})
  BY PieceFacts DEF LivePieces
<1>3. /\ u \in WithStates /\ u \in Fans /\ u.n = z + R
      /\ \A s, t \in NStates(u) :
             Joins(u, s, t) <=> \/ s < z /\ t < z /\ Joins(left, s, t)
                                \/ s = 0 /\ t = z
                                \/ s >= z /\ t >= z /\ Joins(right, s - z, t - z)
  BY <1>1, <1>2, BesideJoins, BesideIsFan
<1> HIDE DEF u, z, R
<1>4. NStates(u) = 0 .. (z + R - 1) /\ NStop(u) = z + R - 1 /\ u.n \in Nat
      /\ 0 \in NStates(u) /\ z \in NStates(u) /\ NStop(u) \in NStates(u)
  <2>1. NStates(u) = 0 .. (u.n - 1) /\ NStop(u) = u.n - 1 /\ u.n \in Nat
    BY <1>3, NfaFacts
  <2> QED BY <1>1, <1>2, <1>3, <2>1
<1>5. IsCopy(left, u, 0)
  <2>1. 0 + left.n <= u.n
    BY <1>1, <1>2, <1>3 DEF z
  <2>2. ASSUME NEW s \in NStates(left), NEW t \in NStates(left), Joins(left, s, t)
        PROVE  Joins(u, 0 + s, 0 + t)
    <3>1. s \in NStates(u) /\ t \in NStates(u) /\ s < z /\ t < z /\ 0 + s = s /\ 0 + t = t
      BY <1>1, <1>2, <1>4
    <3> QED BY <1>3, <2>2, <3>1
  <2> QED BY <2>1, <2>2 DEF IsCopy
<1>6. IsCopy(right, u, z)
  <2>1. ASSUME NEW s \in NStates(right), NEW t \in NStates(right), Joins(right, s, t)
        PROVE  Joins(u, z + s, z + t)
    <3>1. z + s \in NStates(u) /\ z + t \in NStates(u) /\ z + s >= z /\ z + t >= z
          /\ (z + s) - z = s /\ (z + t) - z = t
      BY <1>1, <1>2, <1>4
    <3> QED BY <1>3, <2>1, <3>1
  <2>2. z + right.n <= u.n
    BY <1>1, <1>2, <1>3 DEF R
  <2> QED BY <1>1, <2>1, <2>2 DEF IsCopy
<1>7. Joins(u, 0, z)
  BY <1>3, <1>4
<1>8. ASSUME NEW Q \in SUBSET NStates(u), \A s \in 0 .. (z - 1) : s \in Q,
             \A s \in 0 .. (R - 1) : z + s \in Q
      PROVE  Q = NStates(u)
  <2> SUFFICES ASSUME NEW s \in NStates(u), s \notin Q PROVE FALSE
    OBVIOUS
  <2>1. s >= z /\ s - z \in 0 .. (R - 1) /\ z + (s - z) = s
    BY <1>1, <1>2, <1>4, <1>8
  <2> QED BY <1>8, <2>1
<1>9. Reached(u)
  <2> SUFFICES ASSUME NEW Q \in SUBSET NStates(u), 0 \in Q, ForwardClosed(u, Q)
               PROVE  Q = NStates(u)
    BY <1>1 DEF Reached
  <2>1. \A s \in 0 .. (z - 1) : 0 + s \in Q
    BY <1>1, <1>3, <1>5, ReachedWithin
  <2>2. \A s \in 0 .. (z - 1) : s \in Q
    BY <1>1, <2>1
  <2>3. z \in Q
    BY <1>4, <1>7 DEF ForwardClosed
  <2>4. \A s \in 0 .. (R - 1) : z + s \in Q
    BY <1>2, <1>3, <1>6, <2>3, ReachedWithin
  <2> QED BY <1>8, <2>2, <2>4
<1>10. LeadsTo(u, F \cup {NStop(u)})
  <2> SUFFICES ASSUME NEW Q \in SUBSET NStates(u), F \subseteq Q, NStop(u) \in Q,
                      BackwardClosed(u, Q)
               PROVE  Q = NStates(u)
    BY DEF LeadsTo
  <2>1. \A s \in 0 .. (R - 1) : z + s \in Q
    <3> DEFINE G == {NStop(right)}
    <3>1. \A s \in G : z + s \in Q
      <4>1. z + (R - 1) = z + R - 1
        BY <1>1, <1>2
      <4> QED BY <1>2, <1>4, <4>1
    <3>2. G \in SUBSET NStates(right) /\ LeadsTo(right, G)
      BY <1>2
    <3> HIDE DEF G
    <3>3. \A s \in NStates(right) : z + s \in Q
      BY <1>2, <1>3, <1>6, <3>1, <3>2, LeadsWithin
    <3> QED BY <1>2, <3>3
  <2>2. 0 \in Q
    <3>1. 0 \in 0 .. (R - 1) /\ z + 0 = z
      BY <1>1, <1>2
    <3>2. z \in Q
      BY <2>1, <3>1
    <3> QED BY <1>4, <1>7, <3>2 DEF BackwardClosed
  <2>3. \A s \in 0 .. (z - 1) : s \in Q
    <3>1. CASE left.n = 1
      <4>1. 0 .. (z - 1) = {0}
        BY <3>1 DEF z
      <4> QED BY <2>2, <4>1
    <3>2. CASE LeadsTo(left, F)
      <4>1. \A s \in F : 0 + s \in Q
        BY <1>1
      <4>2. \A s \in NStates(left) : 0 + s \in Q
        BY <1>1, <1>3, <1>5, <3>2, <4>1, LeadsWithin
      <4>3. \A s \in 0 .. (z - 1) : 0 + s = s
        BY <1>1
      <4>4. \A s \in 0 .. (z - 1) : 0 + s \in Q
        BY <1>1, <4>2
      <4> QED BY <4>3, <4>4
    <3> QED BY <3>1, <3>2
  <2> QED BY <1>8, <2>1, <2>3
<1>11. F \subseteq NStates(u)
  BY <1>1, <1>2, <1>4
<1>12. Labelled(E, u)
  BY <1>1, <1>2, JoinedLabels DEF LiveFans, LivePieces, u
<1> QED BY <1>3, <1>4, <1>9, <1>10, <1>11, <1>12 DEF LiveFans, u, z, R

\* With a new state at its end, which all states of F lead to, a live fan is a
\* live piece.
LEMMA CappedLives ==
    ASSUME NEW E \in Alphabets, NEW m \in LiveFans(E),
           NEW pairs \in SUBSET (NStates(m) \X (1 .. m.n)),
           NEW F, F = {s \in NStates(m) : <<s, m.n>> \in pairs}, F # {}, LeadsTo(m, F)
    PROVE  WithEpsilons(Grown(m, 1), pairs) \in LivePieces(E)
<1> DEFINE grown == Grown(m, 1)
           u == WithEpsilons(grown, pairs)
           n == m.n
<1>1. /\ m \in WithStates /\ m \in Fans /\ n \in Nat /\ n > 0 /\ NStates(m) = 0 .. (n - 1)
      /\ NStart = 0 /\ Reached(m) /\ Labelled(E, m)
  BY NfaFacts DEF LiveFans, Fans, NStart
<1>2. /\ grown \in WithStates /\ grown.n = n + 1 /\ Labelled(E, grown)
      /\ \A s, t \in NStates(grown) :
             Joins(grown, s, t) <=> s < n /\ t < n /\ Joins(m, s, t)
  BY <1>1, GrownJoins, GrownLabels
<1>3. u \in Pieces
  BY <1>1, CappedIsPiece
<1> HIDE DEF grown
<1>4. pairs \in SUBSET (NStates(grown) \X NStates(grown))
  <2>1. NStates(grown) = 0 .. n
    BY <1>1, <1>2 DEF NStates
  <2>2. NStates(m) \subseteq NStates(grown) /\ 1 .. n \subseteq NStates(grown)
    BY <1>1, <2>1
  <2> QED BY <2>2
<1>5. /\ u \in WithStates /\ u.n = grown.n /\ Labelled(E, u)
      /\ \A s, t \in NStates(u) :
             Joins(u, s, t) <=> Joins(grown, s, t) \/ <<s, t>> \in pairs
  BY <1>2, <1>4, EpsilonsJoin, EpsilonLabels
<1> HIDE DEF u
<1>6. NStates(u) = 0 .. n /\ NStates(grown) = 0 .. n /\ NStop(u) = n /\ u.n \in Nat
  BY <1>1, <1>2, <1>5 DEF NStates, NStop
<1>7. \A s, t \in NStates(u) :
          Joins(u, s, t) <=> \/ s < n /\ t < n /\ Joins(m, s, t)
                             \/ <<s, t>> \in pairs
  BY <1>2, <1>5, <1>6
<1> HIDE DEF n
<1>8. IsCopy(m, u, 0)
  <2>1. 0 + m.n <= u.n
    BY <1>1, <1>2, <1>5 DEF n
  <2>2. ASSUME NEW s \in NStates(m), NEW t \in NStates(m), Joins(m, s, t)
        PROVE  Joins(u, 0 + s, 0 + t)
    <3>1. s \in NStates(u) /\ t \in NStates(u) /\ s < n /\ t < n /\ 0 + s = s /\ 0 + t = t
      BY <1>1, <1>6
    <3> QED BY <1>7, <2>2, <3>1
  <2> QED BY <2>1, <2>2 DEF IsCopy
<1>9. F \in SUBSET NStates(m) /\ \A s \in F : s \in NStates(u) /\ Joins(u, s, n)
  <2> SUFFICES ASSUME NEW s \in F PROVE s \in NStates(u) /\ Joins(u, s, n)
    OBVIOUS
  <2>1. s \in NStates(m) /\ <<s, n>> \in pairs
    BY DEF n
  <2>2. s \in NStates(u) /\ n \in NStates(u)
    BY <1>1, <1>6, <2>1
  <2> QED BY <1>7, <2>1, <2>2
<1>10. ASSUME NEW Q \in SUBSET NStates(u), \A s \in 0 .. (n - 1) : s \in Q, n \in Q
       PROVE  Q = NStates(u)
  <2> SUFFICES ASSUME NEW s \in NStates(u), s \notin Q PROVE FALSE
    OBVIOUS
  <2>1. s = n \/ s \in 0 .. (n - 1)
    BY <1>1, <1>6
  <2> QED BY <1>10, <2>1
<1>11. Reached(u)
  <2> SUFFICES ASSUME NEW Q \in SUBSET NStates(u), 0 \in Q, ForwardClosed(u, Q)
               PROVE  Q = NStates(u)
    BY <1>1 DEF Reached
  <2>1. \A s \in 0 .. (n - 1) : 0 + s \in Q
    BY <1>1, <1>5, <1>8, ReachedWithin
  <2>2. \A s \in 0 .. (n - 1) : s \in Q
    BY <1>1, <2>1
  <2>3. PICK s \in F : TRUE
    OBVIOUS
  <2>4. s \in Q /\ n \in NStates(u)
    BY <1>1, <1>6, <1>9, <2>2
  <2>5. n \in Q
    BY <1>9, <2>4 DEF ForwardClosed
  <2> QED BY <1>10, <2>2, <2>5
<1>12. LeadsTo(u, {NStop(u)})
  <2> SUFFICES ASSUME NEW Q \in SUBSET NStates(u), n \in Q, BackwardClosed(u, Q)
               PROVE  Q = NStates(u)
    BY <1>6 DEF LeadsTo
  <2>1. \A s \in F : s \in Q
    <3>1. n \in NStates(u)
      BY <1>1, <1>6
    <3> QED BY <1>9, <3>1 DEF BackwardClosed
  <2>2. \A s \in F : 0 + s \in Q
    <3>1. \A s \in F : 0 + s = s
      BY <1>1, <1>9
    <3> QED BY <2>1, <3>1
  <2>3. \A s \in NStates(m) : 0 + s \in Q
    BY <1>1, <1>5, <1>8, <1>9, <2>2, LeadsWithin
  <2>4. \A s \in 0 .. (n - 1) : s \in Q
    BY <1>1, <2>3
  <2> QED BY <1>10, <2>4
<1>13. u \in LivePieces(E)
  BY <1>3, <1>5, <1>11, <1>12 DEF LivePieces
<1> QED BY <1>13 DEF u, grown

\* One state by itself is a live fan, and leads to itself.
LEMMA OneLives ==
    ASSUME NEW E \in Alphabets
    PROVE  Single1 \in LiveFans(E) /\ LeadsTo(Single1, {0})
<1>1. /\ Single1 \in Fans /\ NStates(Single1) = {0} /\ NStart = 0
      /\ Single1.edges[0][0] = {}
  BY OneIsFan DEF NStart
<1>2. Reached(Single1) /\ LeadsTo(Single1, {0})
  BY <1>1 DEF Reached, LeadsTo
<1>3. Labelled(E, Single1)
  BY <1>1 DEF Labelled
<1> QED BY <1>1, <1>2, <1>3 DEF LiveFans

\* Two states, the first of which is joined to the second, are a live piece.
LEMMA TwoStatesLive ==
    ASSUME NEW E \in Alphabets, NEW m \in WithStates, m.n = 2, Labelled(E, m),
           \A s, t \in NStates(m) : Joins(m, s, t) <=> s = 0 /\ t = 1
    PROVE  m \in LivePieces(E)
<1>1. NStates(m) = {0, 1} /\ NStart = 0 /\ NStop(m) = 1
  BY DEF NStates, NStart, NStop
<1>2. m \in Pieces
  BY TwoStatesArePiece
<1>3. Reached(m)
  BY <1>1 DEF Reached, ForwardClosed
<1>4. LeadsTo(m, {NStop(m)})
  BY <1>1 DEF LeadsTo, BackwardClosed
<1> QED BY <1>2, <1>3, <1>4 DEF LivePieces

\* A character class is one, if it is in E.
LEMMA AtomLives ==
    ASSUME NEW E \in Alphabets, NEW C \in E
    PROVE  CharacterClass(C) \in LivePieces(E)
<1> DEFINE m == TwoStates(C)
<1>1. C \in SUBSET Char /\ C # {}
  BY DEF Alphabets
<1>2. /\ m \in WithStates /\ m.n = 2 /\ NStates(m) = {0, 1}
      /\ \A s, t \in NStates(m) : Joins(m, s, t) <=> s = 0 /\ t = 1
  BY <1>1, TwoStatesMade
<1>3. m.edges = [s \in 0 .. 1 |-> [t \in 0 .. 1 |-> IF s = 0 /\ t = 1 THEN C ELSE {}]]
  BY DEF TwoStates
<1> HIDE DEF m
<1>4. Labelled(E, m)
  BY <1>2, <1>3 DEF Labelled
<1>5. m \in LivePieces(E)
  BY <1>2, <1>4, TwoStatesLive
<1> QED BY <1>5 DEF CharacterClass, m

\* So is the NFA of the empty word.
LEMMA EpsilonLives ==
    ASSUME NEW E \in Alphabets
    PROVE  Epsilon \in LivePieces(E)
<1> DEFINE m == TwoStates({})
           pairs == {<<0, 1>>}
           u == WithEpsilons(m, pairs)
<1>1. /\ m \in WithStates /\ m.n = 2 /\ NStates(m) = {0, 1}
      /\ \A s, t \in NStates(m) : ~Joins(m, s, t)
  <2>1. {} \in SUBSET Char
    OBVIOUS
  <2> QED BY <2>1, TwoStatesMade
<1>2. m.edges = [s \in 0 .. 1 |-> [t \in 0 .. 1 |-> {}]]
  BY DEF TwoStates
<1> HIDE DEF m
<1>3. Labelled(E, m)
  BY <1>1, <1>2 DEF Labelled
<1>4. pairs \in SUBSET (NStates(m) \X NStates(m))
  BY <1>1
<1>5. \A s, t : <<s, t>> \in pairs <=> s = 0 /\ t = 1
  OBVIOUS
<1> HIDE DEF pairs
<1>6. /\ u \in WithStates /\ u.n = m.n /\ Labelled(E, u)
      /\ \A s, t \in NStates(u) : Joins(u, s, t) <=> Joins(m, s, t) \/ <<s, t>> \in pairs
  BY <1>1, <1>3, <1>4, EpsilonsJoin, EpsilonLabels
<1> HIDE DEF u
<1>7. NStates(u) = NStates(m)
  BY <1>6 DEF NStates
<1>8. \A s, t \in NStates(u) : Joins(u, s, t) <=> s = 0 /\ t = 1
  BY <1>1, <1>5, <1>6, <1>7
<1>9. u \in LivePieces(E)
  BY <1>1, <1>6, <1>8, TwoStatesLive
<1> QED BY <1>9 DEF Epsilon, u, m, pairs

\* A star on a live fragment is a live piece.
LEMMA StarLives ==
    ASSUME NEW E \in Alphabets, NEW m \in LiveFragments(E)
    PROVE  Star(m) \in LivePieces(E)
<1> DEFINE star == ConcatHelper(Single1, m, NStart, TRUE)
           end == NStop(star)
           pairs == StarEdges(end, star.n)
           F == {s \in NStates(star) : <<s, star.n>> \in pairs}
<1>1. /\ star \in LiveFans(E) /\ star.n \in Nat /\ star.n > 0 /\ end \in NStates(star)
      /\ LeadsTo(star, {end})
  <2>1. CASE m = NoStates
    <3>1. star = Single1
      BY <2>1 DEF ConcatHelper, NoStates
    <3> HIDE DEF star
    <3>2. end = 0 /\ star.n = 1 /\ star \in LiveFans(E) /\ NStates(star) = {0}
          /\ LeadsTo(star, {0})
      BY <3>1, OneIsFan, OneLives
    <3> HIDE DEF end
    <3> QED BY <3>2
  <2>2. CASE m \in LivePieces(E)
    <3>1. {} \in SUBSET NStates(Single1) /\ Single1.n = 1 /\ Single1 \in LiveFans(E)
      BY OneIsFan, OneLives
    <3>2. /\ star \in LiveFans(E) /\ star.n = Single1.n + m.n
          /\ end \in NStates(star) /\ LeadsTo(star, {} \cup {end})
      BY <2>2, <3>1, BesideLives
    <3>3. m.n \in Nat
      BY <2>2, LiveFacts, PieceFacts
    <3> HIDE DEF star
    <3>4. star.n \in Nat /\ star.n > 0
      BY <3>1, <3>2, <3>3
    <3> QED BY <3>2, <3>4
  <2> QED BY <2>1, <2>2 DEF LiveFragments
<1> HIDE DEF star
<1>2. NStates(star) = 0 .. (star.n - 1) /\ NStart = 0 /\ 0 \in NStates(star)
  BY <1>1 DEF NStates, NStart
<1>3. pairs = {<<end, 1>>, <<0, star.n>>, <<end, star.n>>}
  BY <1>2 DEF StarEdges
<1> HIDE DEF end
<1>4. pairs \in SUBSET (NStates(star) \X (1 .. star.n))
  <2>1. 1 \in 1 .. star.n /\ star.n \in 1 .. star.n
    BY <1>1
  <2> QED BY <1>1, <1>2, <1>3, <2>1
<1> HIDE DEF pairs
<1>5. end \in F
  BY <1>1, <1>3
<1>6. LeadsTo(star, F)
  BY <1>1, <1>5 DEF LeadsTo
<1>7. WithEpsilons(Grown(star, 1), pairs) \in LivePieces(E)
  <2>1. F = {s \in NStates(star) : <<s, star.n>> \in pairs} /\ F # {}
    BY <1>5
  <2> HIDE DEF F
  <2> QED BY <1>1, <1>4, <1>6, <2>1, CappedLives
<1>8. Star(m) = WithEpsilons(Grown(star, 1), pairs)
  BY DEF Star, Single1, star, pairs, end
<1> QED BY <1>7, <1>8

\* Every state leads to the last state of some branch.
LEMMA BranchesLead ==
    ASSUME NEW E \in Alphabets, NEW nfas \in Seq(LiveFragments(E)), NEW f, HangsOn(f, nfas)
    PROVE  \A k \in 0 .. Len(nfas) :
               /\ f[k] \in LiveFans(E) /\ Finals(f, k) \subseteq NStates(f[k])
               /\ k > 0 => LeadsTo(f[k], Finals(f, k))
<1> DEFINE n == Len(nfas)
           Good(k) == /\ f[k] \in LiveFans(E) /\ Finals(f, k) \subseteq NStates(f[k])
                      /\ NStop(f[k]) \in NStates(f[k])
                      /\ k = 0 => f[k].n = 1
                      /\ k > 0 => LeadsTo(f[k], Finals(f, k))
           K == {k \in 0 .. n : Good(k)}
<1>1. n \in Nat /\ \A i \in 1 .. n : nfas[i] \in LiveFragments(E)
  OBVIOUS
<1> HIDE DEF n
<1>2. 0 \in K
  <2>1. f[0] = Single1
    BY DEF HangsOn
  <2>2. Finals(f, 0) = {}
    BY DEF Finals
  <2> QED BY <1>1, <2>1, <2>2, OneIsFan, OneLives
<1>3. ASSUME NEW k \in 0 .. (n - 1), k \in K PROVE k + 1 \in K
  <2> DEFINE m == f[k]
             u == f[k + 1]
             p == nfas[k + 1]
             D == Finals(f, k)
  <2>1. /\ m \in LiveFans(E) /\ D \subseteq NStates(m) /\ NStop(m) \in NStates(m)
        /\ k = 0 => m.n = 1
        /\ k > 0 => LeadsTo(m, D)
    BY <1>3
  <2>2. k + 1 \in 1 .. n /\ (k + 1) - 1 = k /\ k + 1 \in 0 .. n /\ k + 1 > 0
    BY <1>1
  <2>3. p \in LiveFragments(E)
    BY <1>1, <2>2
  <2>4. u = ConcatHelper(m, p, NStart, TRUE)
    BY <2>2 DEF HangsOn, n
  <2>5. Finals(f, k + 1) = D \cup {NStop(u)}
    <3>1. 1 .. (k + 1) = (1 .. k) \cup {k + 1}
      BY <1>1
    <3> QED BY <3>1 DEF Finals
  <2> HIDE DEF m, u, p, D
  <2>6. /\ u \in LiveFans(E) /\ NStop(u) \in NStates(u) /\ D \subseteq NStates(u)
        /\ LeadsTo(u, D \cup {NStop(u)})
    <3>1. CASE p = NoStates
      <4>1. u = m
        BY <2>4, <3>1 DEF ConcatHelper, NoStates
      <4>2. LeadsTo(m, D \cup {NStop(m)})
        <5>1. CASE k = 0
          <6>1. m.n = 1
            BY <2>1, <5>1
          <6>2. NStates(m) = {NStop(m)}
            BY <6>1 DEF NStates, NStop
          <6> QED BY <6>2 DEF LeadsTo
        <5>2. CASE k > 0
          BY <2>1, <5>2 DEF LeadsTo
        <5> QED BY <1>1, <5>1, <5>2
      <4> QED BY <2>1, <4>1, <4>2
    <3>2. CASE p \in LivePieces(E)
      <4>1. LeadsTo(m, D) \/ m.n = 1
        BY <2>1
      <4>2. D \in SUBSET NStates(m)
        BY <2>1
      <4> QED BY <2>1, <2>4, <3>2, <4>1, <4>2, BesideLives
    <3> QED BY <2>3, <3>1, <3>2 DEF LiveFragments
  <2>7. Good(k + 1)
    <3>1. u = f[k + 1] /\ k + 1 # 0
      BY <1>1 DEF u
    <3> QED BY <2>5, <2>6, <3>1
  <2> HIDE DEF Good
  <2> QED BY <2>2, <2>7
<1>4. \A k \in 0 .. n : Good(k)
  <2> HIDE DEF Good
  <2>1. 0 .. n \subseteq K
    <3> HIDE DEF K
    <3> QED BY <1>1, <1>2, <1>3, UpTo
  <2> QED BY <2>1
<1> QED BY <1>4 DEF n

\* Live branches side by side are a live piece, one is what it was.
LEMMA AlternationLives ==
    ASSUME NEW E \in Alphabets, NEW nfas \in Seq(LiveFragments(E)), nfas # <<>>
    PROVE  Alternation(nfas) \in LiveFragments(E)
<1> DEFINE n == Len(nfas)
<1>1. n \in Nat /\ n > 0 /\ nfas \in Seq(Fragments)
  BY LiveFacts
<1>2. CASE n = 1
  <2>1. Alternation(nfas) = nfas[1]
    BY <1>2 DEF Alternation
  <2>2. nfas[1] \in LiveFragments(E)
    BY <1>2
  <2> QED BY <2>1, <2>2
<1>3. CASE n # 1
  <2>1. PICK f : /\ HangsOn(f, nfas)
                 /\ LET all == f[n]
                    IN  Alternation(nfas) =
                            WithEpsilons(Grown(all, 1), {<<s, all.n>> : s \in Finals(f, n)})
    BY <1>1, <1>3, AlternationRec
  <2> DEFINE m == f[n]
             D == Finals(f, n)
             pairs == {<<s, m.n>> : s \in D}
             F == {s \in NStates(m) : <<s, m.n>> \in pairs}
  <2>2. m \in LiveFans(E) /\ D \subseteq NStates(m) /\ LeadsTo(m, D)
    <3>1. n \in 0 .. Len(nfas)
      BY <1>1
    <3> HIDE DEF n
    <3> QED BY <1>1, <2>1, <3>1, BranchesLead
  <2>3. D # {}
    <3>1. NStop(f[n]) \in D
      BY <1>1 DEF Finals
    <3> QED BY <3>1
  <2>4. Alternation(nfas) = WithEpsilons(Grown(m, 1), pairs)
    BY <2>1
  <2> HIDE DEF m, D, n
  <2>5. m.n \in Nat /\ m.n > 0
    BY <2>2, NfaFacts DEF LiveFans, Fans
  <2>6. pairs \in SUBSET (NStates(m) \X (1 .. m.n))
    <3>1. m.n \in 1 .. m.n
      BY <2>5
    <3> QED BY <2>2, <3>1
  <2>7. F = D
    BY <2>2
  <2> HIDE DEF F
  <2>8. F = {s \in NStates(m) : <<s, m.n>> \in pairs}
    BY DEF F
  <2> HIDE DEF pairs
  <2>9. WithEpsilons(Grown(m, 1), pairs) \in LivePieces(E)
    BY <2>2, <2>3, <2>6, <2>7, <2>8, CappedLives
  <2> QED BY <2>4, <2>9 DEF LiveFragments
<1> QED BY <1>2, <1>3

\* Live fragments in a row, as many as there are, are a live fragment.
LEMMA ManyLive ==
    ASSUME NEW E \in Alphabets, NEW nfas \in Seq(LiveFragments(E)), nfas # <<>>
    PROVE  ConcatMany(nfas) \in LiveFragments(E)
<1> DEFINE n == Len(nfas)
           l == n - 1
<1>1. n \in Nat /\ n > 0 /\ (\A i \in 1 .. n : nfas[i] \in LiveFragments(E))
      /\ nfas \in Seq(Fragments)
  BY LiveFacts
<1>2. l \in Nat /\ n = l + 1
  BY <1>1
<1>3. PICK F : /\ ConcatMany(nfas) = F[n]
               /\ \A k \in 1 .. n : F[k] = IF k = 1 THEN nfas[1] ELSE Concat(F[k - 1], nfas[k])
  BY <1>1, ManyRec
<1> HIDE DEF n, l
<1> DEFINE K == {k \in 0 .. l : F[k + 1] \in LiveFragments(E)}
<1>4. 0 \in K
  <2>1. 1 \in 1 .. n /\ 0 + 1 = 1
    BY <1>1
  <2>2. F[1] = nfas[1]
    BY <1>3, <2>1
  <2> QED BY <1>1, <1>2, <2>1, <2>2
<1>5. ASSUME NEW k \in 0 .. (l - 1), k \in K PROVE k + 1 \in K
  <2>1. (k + 1) + 1 \in 1 .. n /\ (k + 1) + 1 # 1 /\ ((k + 1) + 1) - 1 = k + 1
        /\ k + 1 \in 0 .. l
    BY <1>2
  <2>2. F[(k + 1) + 1] = Concat(F[k + 1], nfas[(k + 1) + 1])
    BY <1>3, <2>1
  <2>3. F[k + 1] \in LiveFragments(E) /\ nfas[(k + 1) + 1] \in LiveFragments(E)
    BY <1>1, <1>5, <2>1
  <2>4. F[(k + 1) + 1] \in LiveFragments(E)
    BY <2>2, <2>3, RowLivesOn
  <2> QED BY <2>1, <2>4
<1>6. l \in K
  <2> HIDE DEF K
  <2>1. 0 .. l \subseteq K
    BY <1>2, <1>4, <1>5, UpTo
  <2> QED BY <1>2, <2>1
<1> QED BY <1>2, <1>3, <1>6

\* Copies of a live fragment are one.
LEMMA CopiesLive ==
    ASSUME NEW E \in Alphabets, NEW m \in LiveFragments(E), NEW n \in Nat
    PROVE  Copies(m, n) \in LiveFragments(E)
<1>1. PICK F : /\ Copies(m, n) = F[n]
               /\ \A i \in 0 .. n : F[i] = IF i = 0 THEN NoStates ELSE Concat(F[i - 1], m)
  <2>1. m \in Fragments
    BY LiveFacts
  <2> QED BY <2>1, CopiesRec
<1>2. NoStates \in LiveFragments(E)
  BY DEF LiveFragments
<1> DEFINE K == {i \in 0 .. n : F[i] \in LiveFragments(E)}
<1>3. 0 \in K
  <2>1. F[0] = NoStates
    BY <1>1
  <2> QED BY <1>2, <2>1
<1>4. ASSUME NEW i \in 0 .. (n - 1), i \in K PROVE i + 1 \in K
  <2>1. i + 1 \in 0 .. n /\ i + 1 # 0 /\ (i + 1) - 1 = i
    OBVIOUS
  <2>2. F[i + 1] = Concat(F[i], m)
    BY <1>1, <2>1
  <2>3. F[i] \in LiveFragments(E)
    BY <1>4
  <2> QED BY <2>1, <2>2, <2>3, RowLivesOn
<1>5. n \in K
  <2> HIDE DEF K
  <2>1. 0 .. n \subseteq K
    BY <1>3, <1>4, UpTo
  <2> QED BY <2>1
<1> QED BY <1>1, <1>5

\* And so are the quantified ones.
LEMMA QuantifiedLive ==
    ASSUME NEW E \in Alphabets, NEW m \in LiveFragments(E)
    PROVE  /\ Star(m) \in LiveFragments(E) /\ Plus(m) \in LiveFragments(E)
           /\ QuestionMark(m) \in LiveFragments(E)
<1>1. Star(m) \in LiveFragments(E) /\ Epsilon \in LiveFragments(E)
  BY StarLives, EpsilonLives DEF LiveFragments
<1>2. Plus(m) \in LiveFragments(E)
  BY <1>1, RowLivesOn DEF Plus
<1>3. <<Epsilon, m>> \in Seq(LiveFragments(E)) /\ <<Epsilon, m>> # <<>>
  BY <1>1
<1>4. QuestionMark(m) \in LiveFragments(E)
  BY <1>3, AlternationLives DEF QuestionMark
<1> QED BY <1>1, <1>2, <1>4

-----------------------------------------------------------------------------
(* What the properties say of a fragment. *)

\* What Closed computes is the least set that holds the states it starts from
\* and that no epsilon edge leads out of.
LEMMA ClosedFacts ==
    ASSUME NEW m, m.n \in Nat, m.eps \subseteq NStates(m) \X NStates(m),
           NEW S \in SUBSET NStates(m)
    PROVE  /\ S \subseteq Closed(m, S) /\ Closed(m, S) \in SUBSET NStates(m)
           /\ EpsClosed(m, Closed(m, S))
           /\ \A T \in SUBSET NStates(m) : S \subseteq T /\ EpsClosed(m, T) => Closed(m, S) \subseteq T
<1> DEFINE N == NStates(m)
           Next1(T) == T \cup {e[2] : e \in {d \in m.eps : d[1] \in T}}
           Good(f) == f = [T \in SUBSET N |-> IF Next1(T) = T THEN T ELSE f[Next1(T)]]
           F == CHOOSE f : Good(f)
           h == [T \in SUBSET N |-> EpsilonClosure(m, T)]
           Fine(T) == /\ T \subseteq F[T] /\ F[T] \in SUBSET N /\ EpsClosed(m, F[T])
                      /\ F[T] = EpsilonClosure(m, T)
<1>1. Closed(m, S) = F[S]
  BY DEF Closed
<1>2. m.eps \subseteq N \X N
  OBVIOUS
<1> HIDE DEF N
<1>3. ASSUME NEW T \in SUBSET N
      PROVE  T \subseteq Next1(T) /\ Next1(T) \in SUBSET N /\ (Next1(T) = T => EpsClosed(m, T))
  <2>1. \A e \in m.eps : e[2] \in N
    BY <1>2
  <2>2. Next1(T) \in SUBSET N
    BY <2>1
  <2>3. Next1(T) = T => EpsClosed(m, T)
    BY DEF EpsClosed
  <2> QED BY <2>2, <2>3
<1>4. ASSUME NEW T \in SUBSET N
      PROVE  EpsilonClosure(m, T) = IF Next1(T) = T THEN T ELSE EpsilonClosure(m, Next1(T))
  <2>1. ASSUME NEW V \in SUBSET N, EpsClosed(m, V)
        PROVE  T \subseteq V <=> Next1(T) \subseteq V
    BY <2>1 DEF EpsClosed
  <2>2. EpsilonClosure(m, T) = EpsilonClosure(m, Next1(T))
    <3> HIDE DEF Next1
    <3> QED BY <2>1 DEF EpsilonClosure, N
  <2>3. ASSUME Next1(T) = T PROVE EpsilonClosure(m, T) = T
    <3>1. EpsClosed(m, T)
      BY <1>3, <2>3
    <3> QED BY <3>1 DEF EpsilonClosure, N
  <2> HIDE DEF Next1
  <2> QED BY <2>2, <2>3
<1>5. Good(h)
  <2>1. \A T \in SUBSET N :
            EpsilonClosure(m, T) = IF Next1(T) = T THEN T ELSE h[Next1(T)]
    <3> SUFFICES ASSUME NEW T \in SUBSET N
                 PROVE  EpsilonClosure(m, T) = IF Next1(T) = T THEN T ELSE h[Next1(T)]
      OBVIOUS
    <3>1. Next1(T) \in SUBSET N
      BY <1>3
    <3> HIDE DEF Next1
    <3>2. h[Next1(T)] = EpsilonClosure(m, Next1(T))
      BY <3>1
    <3> QED BY <1>4, <3>2
  <2> HIDE DEF Next1
  <2> QED BY <2>1
<1>6. Good(F)
  <2> HIDE DEF Good, h
  <2> QED BY <1>5
<1>7. F = [T \in SUBSET N |-> IF Next1(T) = T THEN T ELSE F[Next1(T)]]
  BY <1>6
<1> HIDE DEF F, Next1
<1>8. ASSUME NEW T \in SUBSET N
      PROVE  F[T] = IF Next1(T) = T THEN T ELSE F[Next1(T)]
  BY <1>7
<1>9. ASSUME NEW T \in SUBSET N, Next1(T) = T PROVE Fine(T)
  BY <1>3, <1>4, <1>8, <1>9
<1>10. ASSUME NEW T \in SUBSET N, Next1(T) # T, Fine(Next1(T)) PROVE Fine(T)
  <2>1. F[T] = F[Next1(T)]
    BY <1>8, <1>10
  <2>2. T \subseteq Next1(T)
    BY <1>3
  <2>3. EpsilonClosure(m, T) = EpsilonClosure(m, Next1(T))
    BY <1>4, <1>10
  <2> QED BY <1>10, <2>1, <2>2, <2>3
<1> HIDE DEF Fine
<1>11. \A T \in SUBSET N : Fine(T)
  <2> SUFFICES ASSUME NEW B \in SUBSET N, ~Fine(B) PROVE FALSE
    OBVIOUS
  <2> DEFINE Bad == {T \in SUBSET N : ~Fine(T)}
             Rest == {N \ T : T \in Bad}
             R == StrictSubsetOrdering(N)
  <2>1. IsFiniteSet(N)
    BY FS_Interval DEF N, NStates
  <2>2. Rest \subseteq FiniteSubsetsOf(N) /\ Rest # {}
    <3>1. \A T \in SUBSET N : N \ T \in FiniteSubsetsOf(N)
      BY <2>1, FS_Subset DEF FiniteSubsetsOf
    <3> QED BY <3>1
  <2>3. IsWellFoundedOn(R, FiniteSubsetsOf(N))
    BY FS_StrictSubsetOrderingWellFounded
  <2>4. \E x \in Rest : \A y \in Rest : ~(<<y, x>> \in R)
    <3> HIDE DEF Rest, R
    <3> QED BY <2>2, <2>3, WFMin
  <2>5. PICK T \in Bad : \A y \in Rest : ~(<<y, N \ T>> \in R)
    BY <2>4
  <2>6. Next1(T) # T /\ ~Fine(Next1(T))
    BY <1>9, <1>10
  <2>7. T \subseteq Next1(T) /\ Next1(T) \in SUBSET N
    BY <1>3
  <2>8. N \ Next1(T) \in Rest
    BY <2>6, <2>7
  <2>9. <<N \ Next1(T), N \ T>> \in R
    <3>1. N \ Next1(T) \subseteq N \ T /\ N \ Next1(T) # N \ T
      BY <2>6, <2>7
    <3> QED BY <3>1 DEF StrictSubsetOrdering
  <2> QED BY <2>5, <2>8, <2>9
<1>12. Fine(S)
  BY <1>11 DEF N
<1>13. ASSUME NEW T \in SUBSET N, S \subseteq T, EpsClosed(m, T)
       PROVE  EpsilonClosure(m, S) \subseteq T
  BY <1>13 DEF EpsilonClosure, N
<1> QED BY <1>1, <1>12, <1>13 DEF Fine, N

\* A fragment has Thompson's shape.
LEMMA FragmentShape ==
    ASSUME NEW m \in Fragments
    PROVE  IsFragment(m) /\ ThompsonShape(m)
<1>1. CASE m = NoStates
  <2>1. m.n = 0
    BY <1>1 DEF NoStates
  <2> QED BY <1>1, <2>1 DEF IsFragment, ThompsonShape
<1>2. CASE m \in Pieces
  <2>1. /\ m \in WithStates /\ m.n > 1 /\ NoEntry(m) /\ NoExit(m)
        /\ NStart \in NStates(m) /\ NStop(m) \in NStates(m)
    BY <1>2, PieceFacts, NfaFacts
  <2>2. IsNfa(m)
    BY <2>1, AreGraphs, GraphIsNfa
  <2>3. ASSUME NEW s \in NStates(m)
        PROVE  /\ <<s, NStart>> \notin m.eps /\ m.edges[s][NStart] = {}
               /\ <<NStop(m), s>> \notin m.eps /\ m.edges[NStop(m)][s] = {}
    BY <2>1 DEF NoEntry, NoExit, Joins
  <2> QED BY <2>1, <2>2, <2>3 DEF IsFragment, ThompsonShape
<1> QED BY <1>1, <1>2 DEF Fragments

\* What Closed computes for another relation between the states of m.
LEMMA ClosedAlong ==
    ASSUME NEW m \in WithStates, NEW pairs \in SUBSET (NStates(m) \X NStates(m)),
           NEW s \in NStates(m)
    PROVE  LET R == Closed([m EXCEPT !.eps = pairs], {s})
           IN  /\ s \in R /\ R \in SUBSET NStates(m)
               /\ \A e \in pairs : e[1] \in R => e[2] \in R
<1> DEFINE u == [m EXCEPT !.eps = pairs]
           R == Closed(u, {s})
<1>1. IsGraph(m) /\ m = [n |-> m.n, eps |-> m.eps, edges |-> m.edges]
  BY AreGraphs
<1>2. u = [n |-> m.n, eps |-> pairs, edges |-> m.edges]
  <2>1. \A e : [[n |-> m.n, eps |-> m.eps, edges |-> m.edges] EXCEPT !.eps = e]
              = [n |-> m.n, eps |-> e, edges |-> m.edges]
    OBVIOUS
  <2> QED BY <1>1, <2>1
<1> HIDE DEF u
<1>3. u.n = m.n /\ u.eps = pairs /\ u.edges = m.edges
  BY <1>2
<1>4. NStates(u) = NStates(m)
  BY <1>3 DEF NStates
<1>5. u.n \in Nat /\ u.eps \subseteq NStates(u) \X NStates(u)
  BY <1>1, <1>3, <1>4 DEF IsGraph
<1>6. /\ {s} \subseteq R /\ R \in SUBSET NStates(m) /\ EpsClosed(u, R)
  <2>1. {s} \in SUBSET NStates(u)
    BY <1>4
  <2> QED BY <1>4, <1>5, <2>1, ClosedFacts
<1> HIDE DEF R
<1>7. \A e \in pairs : e[1] \in R => e[2] \in R
  BY <1>3, <1>6 DEF EpsClosed
<1> QED BY <1>6, <1>7 DEF R, u

\* The condition of NoDeadEnd.
NoDeadEndIn(m) ==
    LET ways == {e \in NStates(m) \X NStates(m) : e \in m.eps \/ m.edges[e[1]][e[2]] # {}}
        back == {<<e[2], e[1]>> : e \in ways}
    IN  /\ Closed([m EXCEPT !.eps = ways], {NStart}) = NStates(m)
        /\ Closed([m EXCEPT !.eps = back], {NStop(m)}) = NStates(m)

\* Every state of a live piece is on a way from start to stop.
LEMMA LiveHasNoDeadEnd ==
    ASSUME NEW E \in Alphabets, NEW m \in LivePieces(E)
    PROVE  NoDeadEndIn(m)
<1> DEFINE ways == {e \in NStates(m) \X NStates(m) : e \in m.eps \/ m.edges[e[1]][e[2]] # {}}
           back == {<<e[2], e[1]>> : e \in ways}
           A == Closed([m EXCEPT !.eps = ways], {NStart})
           B == Closed([m EXCEPT !.eps = back], {NStop(m)})
<1>1. /\ m \in WithStates /\ Reached(m) /\ LeadsTo(m, {NStop(m)})
      /\ NStart \in NStates(m) /\ NStop(m) \in NStates(m)
  <2>1. m \in Pieces /\ Reached(m) /\ LeadsTo(m, {NStop(m)})
    BY DEF LivePieces
  <2> QED BY <2>1, PieceFacts, NfaFacts
<1>2. ASSUME NEW s \in NStates(m), NEW t \in NStates(m), Joins(m, s, t)
      PROVE  <<s, t>> \in ways /\ <<t, s>> \in back
  <2>1. <<s, t>> \in ways
    BY <1>2 DEF Joins
  <2> QED BY <2>1
<1>3. ways \in SUBSET (NStates(m) \X NStates(m)) /\ back \in SUBSET (NStates(m) \X NStates(m))
  OBVIOUS
<1> HIDE DEF ways, back
<1>4. A = NStates(m)
  <2>1. /\ NStart \in A /\ A \in SUBSET NStates(m)
        /\ \A e \in ways : e[1] \in A => e[2] \in A
    BY <1>1, <1>3, ClosedAlong
  <2> HIDE DEF A
  <2>2. ForwardClosed(m, A)
    BY <1>2, <2>1 DEF ForwardClosed
  <2> QED BY <1>1, <2>1, <2>2 DEF Reached
<1>5. B = NStates(m)
  <2>1. /\ NStop(m) \in B /\ B \in SUBSET NStates(m)
        /\ \A e \in back : e[1] \in B => e[2] \in B
    BY <1>1, <1>3, ClosedAlong
  <2> HIDE DEF B
  <2>2. BackwardClosed(m, B)
    <3> SUFFICES ASSUME NEW s \in NStates(m), NEW t \in NStates(m), t \in B, Joins(m, s, t)
                 PROVE  s \in B
      BY DEF BackwardClosed
    <3>1. <<t, s>> \in back
      BY <1>2
    <3> QED BY <2>1, <3>1
  <2>3. {NStop(m)} \subseteq B
    BY <2>1
  <2> QED BY <1>1, <2>1, <2>2, <2>3 DEF LeadsTo
<1> QED BY <1>4, <1>5 DEF NoDeadEndIn, ways, back

-----------------------------------------------------------------------------
(* Words and their parts. *)

\* The part of w between two positions.
Part(w, i, j) == SubSeq(w, i + 1, j)

\* Words are sequences of characters, and so are their parts.
LEMMA WordFacts ==
    ASSUME NEW w \in Words
    PROVE  /\ w \in Seq(Char) /\ Len(w) \in Nat /\ Len(w) <= MaxLen
           /\ Part(w, 0, Len(w)) = w
           /\ \A i, j \in 0 .. Len(w) : i <= j =>
                  /\ Part(w, i, j) \in Words /\ Len(Part(w, i, j)) = j - i
                  /\ \A l \in 1 .. (j - i) : Part(w, i, j)[l] = w[i + l]
<1>1. PICK k \in 0 .. MaxLen : w \in [1 .. k -> Char]
  BY DEF Words
<1>2. k \in Nat /\ MaxLen \in Nat
  BY BoundsAssumption
<1>3. w \in Seq(Char) /\ Len(w) = k
  BY <1>1, <1>2
<1>4. Part(w, 0, Len(w)) = w
  BY <1>2, <1>3 DEF Part
<1>5. ASSUME NEW i \in 0 .. Len(w), NEW j \in 0 .. Len(w), i <= j
      PROVE  /\ Part(w, i, j) \in Words /\ Len(Part(w, i, j)) = j - i
             /\ \A l \in 1 .. (j - i) : Part(w, i, j)[l] = w[i + l]
  <2> DEFINE p == Part(w, i, j)
  <2>1. p \in Seq(Char) /\ Len(p) = j - i /\ \A l \in 1 .. (j - i) : p[l] = w[i + l]
    <3>1. i \in Nat /\ j \in Nat /\ j <= Len(w)
      BY <1>2, <1>3
    <3>2. p = SubSeq(w, i + 1, j)
      BY DEF Part
    <3>3. p \in Seq(Char)
      BY <1>3, <1>5, <3>1, <3>2
    <3>4. Len(p) = j - i
      BY <1>3, <1>5, <3>1, <3>2
    <3>5. \A l \in 1 .. (j - i) : p[l] = w[i + l]
      BY <1>3, <1>5, <3>1, <3>2
    <3> QED BY <3>3, <3>4, <3>5
  <2>2. j - i \in 0 .. MaxLen
    BY <1>2, <1>3, <1>5
  <2>3. p \in [1 .. (j - i) -> Char]
    BY <2>1
  <2> HIDE DEF p
  <2>4. p \in Words
    BY <2>2, <2>3 DEF Words
  <2> QED BY <2>1, <2>4 DEF p
<1> QED BY <1>2, <1>3, <1>4, <1>5

\* Two words are the same if they have the same characters.
LEMMA SameWord ==
    ASSUME NEW u \in Words, NEW v \in Words, Len(u) = Len(v),
           \A l \in 1 .. Len(u) : u[l] = v[l]
    PROVE  u = v
<1>1. u \in Seq(Char) /\ v \in Seq(Char)
  BY WordFacts
<1> QED BY <1>1

\* Parts that meet make one part.
LEMMA PartsMeet ==
    ASSUME NEW w \in Words, NEW i \in 0 .. Len(w), NEW j \in 0 .. Len(w), NEW k \in i .. j
    PROVE  Part(w, i, k) \o Part(w, k, j) = Part(w, i, j)
<1>1. /\ w \in Seq(Char) /\ Len(w) \in Nat /\ i \in Nat /\ j \in Nat /\ k \in Nat
      /\ k \in 0 .. Len(w) /\ i <= k /\ k <= j /\ i <= j
  <2>1. w \in Seq(Char) /\ Len(w) \in Nat
    BY WordFacts
  <2> QED BY <2>1
<1> DEFINE u == Part(w, i, k)
           v == Part(w, k, j)
           p == Part(w, i, j)
<1>2. /\ Len(u) = k - i /\ Len(v) = j - k /\ Len(p) = j - i
      /\ \A l \in 1 .. (k - i) : u[l] = w[i + l]
      /\ \A l \in 1 .. (j - k) : v[l] = w[k + l]
      /\ \A l \in 1 .. (j - i) : p[l] = w[i + l]
  BY <1>1, WordFacts
<1>3. u \in Seq(Char) /\ v \in Seq(Char) /\ p \in Seq(Char)
  <2>1. u \in Words /\ v \in Words /\ p \in Words
    BY <1>1, WordFacts
  <2> HIDE DEF u, v, p
  <2> QED BY <2>1, WordFacts
<1> HIDE DEF u, v, p
<1>4. Len(u \o v) = j - i /\ u \o v \in Seq(Char)
  <2>1. Len(u \o v) = Len(u) + Len(v) /\ u \o v \in Seq(Char)
    BY <1>3
  <2>2. (k - i) + (j - k) = j - i
    BY <1>1
  <2> QED BY <1>2, <2>1, <2>2
<1>5. ASSUME NEW l \in 1 .. (j - i) PROVE (u \o v)[l] = p[l]
  <2>1. l \in Nat /\ l >= 1 /\ l <= j - i /\ k - i \in Nat /\ j - k \in Nat
    BY <1>1
  <2>2. CASE l <= k - i
    <3>1. (u \o v)[l] = u[l] /\ l \in 1 .. (k - i)
      BY <1>2, <1>3, <2>1, <2>2
    <3>2. u[l] = w[i + l] /\ p[l] = w[i + l]
      BY <1>2, <3>1
    <3> QED BY <3>1, <3>2
  <2>3. CASE l > k - i
    <3> DEFINE r == l - (k - i)
    <3>1. r \in 1 .. (j - k) /\ k + r = i + l
      BY <1>1, <2>1, <2>3
    <3>2. (u \o v)[l] = v[r]
      <4>1. l > Len(u) /\ l <= Len(u) + Len(v)
        BY <1>1, <1>2, <2>1, <2>3
      <4>2. (u \o v)[l] = v[l - Len(u)]
        BY <1>3, <2>1, <4>1
      <4> QED BY <1>2, <4>2
    <3>3. p[l] = w[i + l]
      BY <1>2
    <3>4. v[r] = w[i + l]
      <4>1. v[r] = w[k + r]
        BY <1>2, <3>1
      <4> HIDE DEF r
      <4> QED BY <3>1, <4>1
    <3> HIDE DEF r
    <3> QED BY <3>2, <3>3, <3>4
  <2>4. l <= k - i \/ l > k - i
    BY <1>1, <2>1
  <2> QED BY <2>2, <2>3, <2>4
<1>6. u \o v = p
  <2> DEFINE x == u \o v
  <2>1. Len(x) = Len(p) /\ x \in Seq(Char) /\ \A l \in 1 .. Len(p) : x[l] = p[l]
    BY <1>2, <1>4, <1>5
  <2> HIDE DEF x
  <2>2. x = p
    BY <1>3, <2>1
  <2> QED BY <2>2 DEF x
<1> QED BY <1>6 DEF u, v, p

\* A part is a word of A and one of B in a row if a position divides it so.
LEMMA ConcatParts ==
    ASSUME NEW A \in SUBSET Words, NEW B \in SUBSET Words,
           NEW w \in Words, NEW i \in 0 .. Len(w), NEW j \in 0 .. Len(w), i <= j
    PROVE  Part(w, i, j) \in ConcatWords(A, B) <=>
               \E k \in i .. j : Part(w, i, k) \in A /\ Part(w, k, j) \in B
<1>1. Len(w) \in Nat /\ i \in Nat /\ j \in Nat
  BY WordFacts
<1>2. ASSUME Part(w, i, j) \in ConcatWords(A, B)
      PROVE  \E k \in i .. j : Part(w, i, k) \in A /\ Part(w, k, j) \in B
  <2> DEFINE p == Part(w, i, j)
  <2>1. PICK u \in A, v \in B : p = u \o v
    BY <1>2 DEF ConcatWords
  <2>2. u \in Words /\ v \in Words /\ u \in Seq(Char) /\ v \in Seq(Char)
        /\ Len(u) \in Nat /\ Len(v) \in Nat
    BY WordFacts
  <2>3. Len(p) = j - i /\ \A l \in 1 .. (j - i) : p[l] = w[i + l]
    BY WordFacts
  <2> HIDE DEF p
  <2>4. Len(p) = Len(u) + Len(v)
    BY <2>1, <2>2
  <2> DEFINE k == i + Len(u)
  <2>5. k \in i .. j /\ k \in 0 .. Len(w) /\ k - i = Len(u) /\ j - k = Len(v)
        /\ i <= k /\ k <= j /\ k \in Nat
    <3> DEFINE a == Len(u)
               b == Len(v)
    <3>1. a \in Nat /\ b \in Nat /\ j - i = a + b /\ k = i + a
      BY <2>2, <2>3, <2>4
    <3>0. j \in 0 .. Len(w)
      OBVIOUS
    <3> HIDE DEF a, b, k
    <3>2. k \in i .. j /\ k \in 0 .. Len(w) /\ k - i = a /\ j - k = b
          /\ i <= k /\ k <= j /\ k \in Nat
      BY <1>1, <3>0, <3>1
    <3> QED BY <3>2 DEF a, b
  <2> HIDE DEF k
  <2>6. /\ Part(w, i, k) \in Words /\ Len(Part(w, i, k)) = Len(u)
        /\ \A l \in 1 .. Len(u) : Part(w, i, k)[l] = w[i + l]
    BY <2>5, WordFacts, ZenonT(40)
  <2>7. /\ Part(w, k, j) \in Words /\ Len(Part(w, k, j)) = Len(v)
        /\ \A l \in 1 .. Len(v) : Part(w, k, j)[l] = w[k + l]
    BY <2>5, WordFacts, ZenonT(40)
  <2>8. \A l \in 1 .. Len(u) : u[l] = w[i + l]
    <3> SUFFICES ASSUME NEW l \in 1 .. Len(u) PROVE u[l] = w[i + l]
      OBVIOUS
    <3>1. l \in 1 .. (j - i)
      BY <1>1, <2>2, <2>3, <2>4
    <3>2. (u \o v)[l] = u[l]
      BY <2>2
    <3> QED BY <2>1, <2>3, <3>1, <3>2
  <2>9. \A l \in 1 .. Len(v) : v[l] = w[k + l]
    <3> SUFFICES ASSUME NEW l \in 1 .. Len(v) PROVE v[l] = w[k + l]
      OBVIOUS
    <3>1. Len(u) + l \in 1 .. (j - i) /\ i + (Len(u) + l) = k + l
      BY <1>1, <2>2, <2>3, <2>4, <2>5
    <3>2. (u \o v)[Len(u) + l] = v[l]
      BY <2>2
    <3>3. p[Len(u) + l] = w[i + (Len(u) + l)]
      BY <2>3, <3>1
    <3> QED BY <2>1, <3>1, <3>2, <3>3
  <2>10. Part(w, i, k) = u
    BY <2>2, <2>6, <2>8, SameWord
  <2>11. Part(w, k, j) = v
    BY <2>2, <2>7, <2>9, SameWord
  <2> QED BY <2>5, <2>10, <2>11
<1>3. ASSUME NEW k \in i .. j, Part(w, i, k) \in A, Part(w, k, j) \in B
      PROVE  Part(w, i, j) \in ConcatWords(A, B)
  <2>1. Part(w, i, k) \o Part(w, k, j) = Part(w, i, j)
    BY PartsMeet
  <2>2. Part(w, i, j) \in Words
    BY WordFacts
  <2> HIDE DEF Part
  <2> QED BY <1>3, <2>1, <2>2 DEF ConcatWords
<1> QED BY <1>2, <1>3

\* The empty word is a word.
LEMMA EmptyWord == <<>> \in Words
<1>1. <<>> \in [1 .. 0 -> Char]
  OBVIOUS
<1>2. 0 \in 0 .. MaxLen
  BY BoundsAssumption
<1> QED BY <1>1, <1>2 DEF Words

\* The empty part is the empty word.
LEMMA EmptyPart ==
    ASSUME NEW w \in Words, NEW i \in 0 .. Len(w), NEW j \in 0 .. Len(w), i <= j
    PROVE  Part(w, i, j) = <<>> <=> i = j
<1>2. Part(w, i, j) \in Words /\ Len(Part(w, i, j)) = j - i /\ Len(w) \in Nat
  BY WordFacts
<1>3. Part(w, i, j) \in Seq(Char)
  BY <1>2, WordFacts
<1> HIDE DEF Part
<1>4. Part(w, i, j) = <<>> <=> Len(Part(w, i, j)) = 0
  BY <1>3
<1> QED BY <1>2, <1>4

\* The empty word is neutral.
LEMMA ConcatEmpty ==
    ASSUME NEW A \in SUBSET Words
    PROVE  ConcatWords({<<>>}, A) = A /\ ConcatWords(A, {<<>>}) = A
<1>1. \A u \in A : u \o <<>> = u /\ <<>> \o u = u /\ u \in Words
  <2> SUFFICES ASSUME NEW u \in A PROVE u \o <<>> = u /\ <<>> \o u = u
    OBVIOUS
  <2>1. u \in Seq(Char)
    BY WordFacts
  <2> QED BY <2>1
<1> QED BY <1>1 DEF ConcatWords

\* Words in a row are words.
LEMMA ConcatAreWords ==
    ASSUME NEW A \in SUBSET Words, NEW B \in SUBSET Words
    PROVE  ConcatWords(A, B) \in SUBSET Words
BY DEF ConcatWords

\* A word of each in a row.
LEMMA InConcat ==
    ASSUME NEW A, NEW B, NEW u \in A, NEW v \in B, u \o v \in Words
    PROVE  u \o v \in ConcatWords(A, B)
BY DEF ConcatWords

\* The recursive function of RepeatWords.
LEMMA RepeatRec ==
    ASSUME NEW A \in SUBSET Words, NEW n \in Nat
    PROVE  \E f \in [0 .. n -> SUBSET Words] :
               /\ f[0] = {<<>>} /\ RepeatWords(A, n) = f[n]
               /\ \A i \in 1 .. n : f[i] = ConcatWords(f[i - 1], A)
<1> DEFINE V == SUBSET Words
           g == [i \in 1 .. n |-> [x \in V |-> ConcatWords(x, A)]]
           Good(f) == f = [i \in 0 .. n |-> IF i = 0 THEN {<<>>} ELSE ConcatWords(f[i - 1], A)]
           F == CHOOSE f : Good(f)
<1>1. RepeatWords(A, n) = F[n]
  BY DEF RepeatWords
<1>2. {<<>>} \in V
  <2>1. <<>> \in Words
    BY EmptyWord
  <2> QED BY <2>1
<1> HIDE DEF V
<1>3. \A x \in V : ConcatWords(x, A) \in V
  BY ConcatAreWords DEF V
<1>4. Recursive(n, V, {<<>>}, g)
  <2>1. g \in [1 .. n -> [V -> V]]
    BY <1>3
  <2> HIDE DEF g
  <2> QED BY <1>2, <2>1, Recursion
<1>5. PICK f \in [0 .. n -> V] : f[0] = {<<>>} /\ \A i \in 1 .. n : f[i] = g[i][f[i - 1]]
  BY <1>4 DEF Recursive
<1>6. ASSUME NEW i \in 1 .. n PROVE f[i] = ConcatWords(f[i - 1], A)
  <2>1. f[i - 1] \in V
    OBVIOUS
  <2>2. g[i][f[i - 1]] = ConcatWords(f[i - 1], A)
    BY <2>1
  <2> HIDE DEF g
  <2> QED BY <1>5, <2>2
<1>7. f[0] = {<<>>}
  BY <1>5
<1>8. Good(f)
  <2>1. f = [i \in 0 .. n |-> f[i]]
    OBVIOUS
  <2>2. \A i \in 0 .. n : f[i] = IF i = 0 THEN {<<>>} ELSE ConcatWords(f[i - 1], A)
    BY <1>6, <1>7
  <2> HIDE DEF g
  <2> QED BY <2>1, <2>2
<1>9. Good(F)
  <2> HIDE DEF Good
  <2> QED BY <1>8
<1>10. F = [i \in 0 .. n |-> IF i = 0 THEN {<<>>} ELSE ConcatWords(F[i - 1], A)]
  BY <1>9
<1> HIDE DEF F, g
<1>11. ASSUME NEW i \in 0 .. n
       PROVE  F[i] = IF i = 0 THEN {<<>>} ELSE ConcatWords(F[i - 1], A)
  BY <1>10
<1> DEFINE K == {i \in 0 .. n : F[i] \in V}
<1>12. 0 \in K
  <2>1. F[0] = {<<>>}
    BY <1>11
  <2> QED BY <1>2, <2>1
<1>13. ASSUME NEW i \in 0 .. (n - 1), i \in K PROVE i + 1 \in K
  <2>1. i + 1 \in 0 .. n /\ i + 1 # 0 /\ (i + 1) - 1 = i
    OBVIOUS
  <2>2. F[i + 1] = ConcatWords(F[i], A)
    BY <1>11, <2>1
  <2> QED BY <1>3, <1>13, <2>1, <2>2
<1>14. 0 .. n \subseteq K
  <2> HIDE DEF K
  <2> QED BY <1>12, <1>13, UpTo
<1>15. F \in [0 .. n -> V]
  <2>1. \A i \in 0 .. n : F[i] \in V
    BY <1>14
  <2>2. \E G : F = [i \in 0 .. n |-> G[i]]
    <3>1. F = [i \in 0 .. n |-> F[i]]
      BY <1>10
    <3> QED BY <3>1
  <2> QED BY <2>1, <2>2
<1>16. \A i \in 1 .. n : F[i] = ConcatWords(F[i - 1], A)
  BY <1>11
<1>17. F[0] = {<<>>}
  BY <1>11
<1> QED BY <1>1, <1>15, <1>16, <1>17 DEF V

\* Once more is one in a row.
LEMMA RepeatStep ==
    ASSUME NEW A \in SUBSET Words
    PROVE  /\ RepeatWords(A, 0) = {<<>>}
           /\ \A n \in Nat : /\ RepeatWords(A, n) \in SUBSET Words
                             /\ RepeatWords(A, n + 1) = ConcatWords(RepeatWords(A, n), A)
<1>1. RepeatWords(A, 0) = {<<>>}
  BY RepeatRec
<1>2. ASSUME NEW n \in Nat
      PROVE  /\ RepeatWords(A, n) \in SUBSET Words
             /\ RepeatWords(A, n + 1) = ConcatWords(RepeatWords(A, n), A)
  <2>1. PICK f \in [0 .. n -> SUBSET Words] :
            /\ f[0] = {<<>>} /\ RepeatWords(A, n) = f[n]
            /\ \A i \in 1 .. n : f[i] = ConcatWords(f[i - 1], A)
    BY RepeatRec
  <2>2. n + 1 \in Nat /\ (n + 1) - 1 = n /\ n + 1 \in 1 .. (n + 1) /\ n \in 0 .. n
    OBVIOUS
  <2>3. PICK h \in [0 .. (n + 1) -> SUBSET Words] :
            /\ h[0] = {<<>>} /\ RepeatWords(A, n + 1) = h[n + 1]
            /\ \A i \in 1 .. (n + 1) : h[i] = ConcatWords(h[i - 1], A)
    BY <2>2, RepeatRec
  <2> DEFINE K == {i \in 0 .. n : h[i] = f[i]}
  <2>4. 0 \in K
    <3>1. h[0] = f[0]
      BY <2>1, <2>3
    <3> QED BY <3>1
  <2>5. ASSUME NEW i \in 0 .. (n - 1), i \in K PROVE i + 1 \in K
    <3>1. i + 1 \in 1 .. n /\ i + 1 \in 1 .. (n + 1) /\ (i + 1) - 1 = i /\ i + 1 \in 0 .. n
      OBVIOUS
    <3>2. f[i + 1] = ConcatWords(f[i], A) /\ h[i + 1] = ConcatWords(h[i], A)
      BY <2>1, <2>3, <3>1
    <3> QED BY <2>5, <3>1, <3>2
  <2>6. n \in K
    <3> HIDE DEF K
    <3>1. 0 .. n \subseteq K
      BY <2>4, <2>5, UpTo
    <3> QED BY <2>2, <3>1
  <2>7. h[n + 1] = ConcatWords(h[n], A)
    BY <2>2, <2>3
  <2> QED BY <2>1, <2>2, <2>3, <2>6, <2>7
<1> QED BY <1>1, <1>2

\* What is n words of A in a row is at most as many as it has characters.
LEMMA FewRepeats ==
    ASSUME NEW A \in SUBSET Words, NEW n \in Nat, NEW u \in RepeatWords(A, n)
    PROVE  \E k \in 0 .. Len(u) : u \in RepeatWords(A, k)
<1> DEFINE Few == {x \in Words : \E k \in 0 .. Len(x) : x \in RepeatWords(A, k)}
           K == {i \in 0 .. n : RepeatWords(A, i) \subseteq Few}
<1>1. \A i \in Nat : RepeatWords(A, i) \in SUBSET Words
  BY RepeatStep
<1>2. 0 \in K
  <2>1. RepeatWords(A, 0) = {<<>>} /\ <<>> \in Words /\ Len(<<>>) = 0
    BY RepeatStep, EmptyWord
  <2>2. 0 \in 0 .. Len(<<>>) /\ <<>> \in RepeatWords(A, 0)
    BY <2>1
  <2>3. <<>> \in Few
    BY <2>1, <2>2
  <2> HIDE DEF Few
  <2>4. \A x \in RepeatWords(A, 0) : x = <<>>
    BY <2>1
  <2>5. RepeatWords(A, 0) \subseteq Few
    BY <2>3, <2>4
  <2> QED BY <2>5
<1>3. ASSUME NEW i \in 0 .. (n - 1), i \in K PROVE i + 1 \in K
  <2>1. i \in Nat /\ i + 1 \in 0 .. n
    OBVIOUS
  <2> SUFFICES ASSUME NEW x \in RepeatWords(A, i + 1) PROVE x \in Few
    BY <2>1
  <2>2. x \in ConcatWords(RepeatWords(A, i), A)
    BY <2>1, RepeatStep
  <2>3. PICK y \in RepeatWords(A, i), z \in A : x = y \o z /\ x \in Words
    BY <2>2 DEF ConcatWords
  <2>4. y \in Few
    BY <1>3
  <2>5. PICK k \in 0 .. Len(y) : y \in RepeatWords(A, k)
    BY <2>4
  <2>6. y \in Words /\ z \in Words
    BY <2>4
  <2>7. y \in Seq(Char) /\ z \in Seq(Char) /\ Len(y) \in Nat /\ Len(z) \in Nat
    BY <2>6, WordFacts
  <2>8. CASE z = <<>>
    <3>1. x = y
      BY <2>3, <2>7, <2>8
    <3> QED BY <2>4, <3>1
  <2>9. CASE z # <<>>
    <3>1. Len(x) = Len(y) + Len(z) /\ Len(z) > 0
      BY <2>3, <2>7, <2>9
    <3>2. k + 1 \in 0 .. Len(x) /\ k \in Nat
      BY <2>7, <3>1
    <3>3. x \in RepeatWords(A, k + 1)
      <4>1. RepeatWords(A, k + 1) = ConcatWords(RepeatWords(A, k), A)
        BY <3>2, RepeatStep
      <4>2. y \o z \in ConcatWords(RepeatWords(A, k), A)
        BY <2>3, <2>5, InConcat
      <4> QED BY <2>3, <4>1, <4>2
    <3> QED BY <2>3, <3>2, <3>3
  <2> QED BY <2>8, <2>9
<1>4. n \in K
  <2> HIDE DEF K
  <2>1. 0 .. n \subseteq K
    BY <1>2, <1>3, UpTo
  <2> QED BY <2>1
<1> QED BY <1>4

\* A word of A may follow what the star accepts.
LEMMA StarGrows ==
    ASSUME NEW A \in SUBSET Words
    PROVE  /\ <<>> \in StarWords(A) /\ StarWords(A) \in SUBSET Words
           /\ ConcatWords(StarWords(A), A) \subseteq StarWords(A)
           /\ \A n \in Nat : RepeatWords(A, n) \subseteq StarWords(A)
<1>1. MaxLen \in Nat
  BY BoundsAssumption
<1>2. \A n \in Nat : RepeatWords(A, n) \in SUBSET Words
  BY RepeatStep
<1>3. StarWords(A) \in SUBSET Words
  BY <1>1, <1>2 DEF StarWords
<1>4. ASSUME NEW n \in Nat, NEW u \in RepeatWords(A, n) PROVE u \in StarWords(A)
  <2>1. PICK k \in 0 .. Len(u) : u \in RepeatWords(A, k)
    BY FewRepeats
  <2>2. u \in Words
    BY <1>2
  <2>3. Len(u) \in Nat /\ Len(u) <= MaxLen
    BY <2>2, WordFacts
  <2>4. k \in 0 .. MaxLen
    BY <1>1, <2>3
  <2> QED BY <2>1, <2>4 DEF StarWords
<1>5. <<>> \in StarWords(A)
  BY <1>4, RepeatStep
<1>6. ASSUME NEW u \in ConcatWords(StarWords(A), A) PROVE u \in StarWords(A)
  <2>1. PICK x \in StarWords(A), y \in A : u = x \o y /\ u \in Words
    BY <1>6 DEF ConcatWords
  <2>2. PICK k \in 0 .. MaxLen : x \in RepeatWords(A, k)
    BY <2>1 DEF StarWords
  <2>3. k \in Nat
    BY <1>1
  <2>4. u \in RepeatWords(A, k + 1)
    <3>1. RepeatWords(A, k + 1) = ConcatWords(RepeatWords(A, k), A)
      BY <2>3, RepeatStep
    <3>2. x \o y \in ConcatWords(RepeatWords(A, k), A)
      BY <2>1, <2>2, InConcat
    <3> QED BY <2>1, <3>1, <3>2
  <2> QED BY <1>4, <2>3, <2>4
<1> QED BY <1>3, <1>4, <1>5, <1>6

-----------------------------------------------------------------------------
(* Ways.  A place is a position of a word and a state; m passes from one     *)
(* place to another over an epsilon edge, or over an edge that accepts the   *)
(* character between the two positions.                                      *)

\* m passes from position i and state s to position j and state t.
Passes(m, w, i, s, j, t) ==
    \/ j = i /\ <<s, t>> \in m.eps
    \/ j = i + 1 /\ w[j] \in m.edges[s][t]

Places(m, w) == (0 .. Len(w)) \X NStates(m)

\* m passes from the places of R to none outside.
Onward(m, w, R) ==
    \A i, j \in 0 .. Len(w), s, t \in NStates(m) :
        <<i, s>> \in R /\ Passes(m, w, i, s, j, t) => <<j, t>> \in R

\* A way leads from one place to the other: the second is in whatever the
\* first is in and m does not leave.
Way(m, w, i, s, j, t) ==
    \A R \in SUBSET Places(m, w) : <<i, s>> \in R /\ Onward(m, w, R) => <<j, t>> \in R

\* m accepts the part of w between the positions i and j.
Reads(m, w, i, j) == Way(m, w, i, 0, j, NStop(m))

\* A way may have no steps.
LEMMA WayHere == ASSUME NEW m, NEW w, NEW i, NEW s PROVE Way(m, w, i, s, i, s)
BY DEF Way

\* It may have a step more.
LEMMA WayOn ==
    ASSUME NEW m, NEW w, NEW i, NEW s, NEW j \in 0 .. Len(w), NEW t \in NStates(m),
           NEW k \in 0 .. Len(w), NEW v \in NStates(m),
           Way(m, w, i, s, j, t), Passes(m, w, j, t, k, v)
    PROVE  Way(m, w, i, s, k, v)
BY DEF Way, Onward

\* Two ways that meet make one.
LEMMA WaysMeet ==
    ASSUME NEW m, NEW w, NEW i, NEW s, NEW j, NEW t, NEW k, NEW v,
           Way(m, w, i, s, j, t), Way(m, w, j, t, k, v)
    PROVE  Way(m, w, i, s, k, v)
BY DEF Way

\* One step is a way.
LEMMA WayOfOne ==
    ASSUME NEW m, NEW w, NEW j \in 0 .. Len(w), NEW t \in NStates(m),
           NEW k \in 0 .. Len(w), NEW v \in NStates(m), Passes(m, w, j, t, k, v)
    PROVE  Way(m, w, j, t, k, v)
BY WayHere, WayOn

\* Where m passes from one state to another these are joined.
LEMMA PassesJoin ==
    ASSUME NEW m, NEW w, NEW i, NEW s, NEW j, NEW t, Passes(m, w, i, s, j, t)
    PROVE  Joins(m, s, t)
BY DEF Passes, Joins

\* No way leads back in the word.
LEMMA WayForward ==
    ASSUME NEW m, NEW w \in Words, NEW i \in 0 .. Len(w), NEW s \in NStates(m),
           NEW j \in 0 .. Len(w), NEW t \in NStates(m), Way(m, w, i, s, j, t)
    PROVE  i <= j
<1> DEFINE R == {x \in Places(m, w) : i <= x[1]}
<1>1. Len(w) \in Nat
  BY WordFacts
<1>2. \A k \in 0 .. Len(w), v \in NStates(m) : <<k, v>> \in R <=> i <= k
  BY DEF Places
<1>3. R \in SUBSET Places(m, w)
  OBVIOUS
<1> HIDE DEF R
<1>4. Onward(m, w, R)
  <2> SUFFICES ASSUME NEW h \in 0 .. Len(w), NEW k \in 0 .. Len(w),
                      NEW u \in NStates(m), NEW v \in NStates(m),
                      <<h, u>> \in R, Passes(m, w, h, u, k, v)
               PROVE  <<k, v>> \in R
    BY DEF Onward
  <2>1. i <= h
    BY <1>2
  <2>2. k = h \/ k = h + 1
    BY DEF Passes
  <2>3. i <= k
    BY <1>1, <2>1, <2>2
  <2> QED BY <1>2, <2>3
<1>5. <<i, s>> \in R
  BY <1>1, <1>2
<1>6. <<j, t>> \in R
  BY <1>3, <1>4, <1>5 DEF Way
<1> QED BY <1>2, <1>6

\* A way of a copy of m is one of m.
LEMMA WayWithin ==
    ASSUME NEW m, NEW u, NEW w, NEW z \in Nat,
           \A s \in NStates(m) : z + s \in NStates(u),
           \A h, k \in 0 .. Len(w), s, t \in NStates(m) :
               Passes(m, w, h, s, k, t) => Passes(u, w, h, z + s, k, z + t),
           NEW i \in 0 .. Len(w), NEW p \in NStates(m),
           NEW j \in 0 .. Len(w), NEW q \in NStates(m), Way(m, w, i, p, j, q)
    PROVE  Way(u, w, i, z + p, j, z + q)
<1> SUFFICES ASSUME NEW R \in SUBSET Places(u, w), <<i, z + p>> \in R, Onward(u, w, R)
             PROVE  <<j, z + q>> \in R
  BY DEF Way
<1> DEFINE Q == {x \in Places(m, w) : <<x[1], z + x[2]>> \in R}
<1>1. \A k \in 0 .. Len(w), t \in NStates(m) : <<k, t>> \in Q <=> <<k, z + t>> \in R
  BY DEF Places
<1>2. Q \in SUBSET Places(m, w)
  OBVIOUS
<1> HIDE DEF Q
<1>3. Onward(m, w, Q)
  <2> SUFFICES ASSUME NEW h \in 0 .. Len(w), NEW k \in 0 .. Len(w),
                      NEW s \in NStates(m), NEW t \in NStates(m),
                      <<h, s>> \in Q, Passes(m, w, h, s, k, t)
               PROVE  <<k, t>> \in Q
    BY DEF Onward
  <2>1. <<h, z + s>> \in R /\ Passes(u, w, h, z + s, k, z + t)
    BY <1>1
  <2>2. z + s \in NStates(u) /\ z + t \in NStates(u)
    OBVIOUS
  <2>3. <<k, z + t>> \in R
    BY <2>1, <2>2 DEF Onward
  <2> QED BY <1>1, <2>3
<1>4. <<i, p>> \in Q
  BY <1>1
<1>5. <<j, q>> \in Q
  BY <1>2, <1>3, <1>4 DEF Way
<1> QED BY <1>1, <1>5

\* If nothing leads to the start state no way leads back to it.
LEMMA WayToStart ==
    ASSUME NEW m \in WithStates, NoEntry(m), NEW w, NEW i \in 0 .. Len(w),
           NEW j \in 0 .. Len(w), Way(m, w, i, 0, j, 0)
    PROVE  j = i
<1> DEFINE R == {x \in Places(m, w) : x[2] = 0 => x[1] = i}
<1>1. \A k \in 0 .. Len(w), v \in NStates(m) : <<k, v>> \in R <=> (v = 0 => k = i)
  BY DEF Places
<1>2. R \in SUBSET Places(m, w) /\ 0 \in NStates(m)
  BY NfaFacts DEF NStart
<1> HIDE DEF R
<1>3. Onward(m, w, R)
  <2> SUFFICES ASSUME NEW h \in 0 .. Len(w), NEW k \in 0 .. Len(w),
                      NEW u \in NStates(m), NEW v \in NStates(m),
                      <<h, u>> \in R, Passes(m, w, h, u, k, v)
               PROVE  <<k, v>> \in R
    BY DEF Onward
  <2>1. v # 0
    BY PassesJoin DEF NoEntry, NStart
  <2> QED BY <1>1, <2>1
<1>4. <<i, 0>> \in R
  BY <1>1, <1>2
<1>5. <<j, 0>> \in R
  BY <1>2, <1>3, <1>4 DEF Way
<1> QED BY <1>1, <1>2, <1>5

-----------------------------------------------------------------------------
(* What the builders' NFAs pass. *)

\* Edges moved meet none of left's if left has none from z on but an epsilon
\* edge to z, and right none to its start state if left has one there.
LEMMA RowPasses ==
    ASSUME NEW left \in WithStates, NEW right \in WithStates, NoExit(left), NoEntry(right)
    PROVE  LET u == Concat(left, right)
               z == left.n - 1
           IN  /\ u \in WithStates /\ u.n = z + right.n
               /\ \A s, t \in NStates(u) : \A w, i, j :
                      Passes(u, w, i, s, j, t) <=>
                          \/ s <= z /\ t <= z /\ Passes(left, w, i, s, j, t)
                          \/ s >= z /\ t >= z /\ Passes(right, w, i, s - z, j, t - z)
<1> DEFINE z == left.n - 1
           grown == Grown(left, right.n - 1)
           u == Moved(grown, right, z, z + 1)
<1>1. /\ left.n \in Nat \ {0} /\ right.n \in Nat \ {0} /\ z \in Nat /\ z + 1 = left.n
      /\ NStop(left) = z /\ NStart = 0
      /\ NStates(left) = 0 .. z /\ NStates(right) = 0 .. (right.n - 1)
      /\ \A s, t : <<s, t>> \in left.eps => s \in NStates(left) /\ t \in NStates(left)
      /\ OneEdge(left) /\ OneEdge(right)
  BY NfaFacts DEF NStart
<1>2. Concat(left, right) = u
  BY <1>1 DEF Concat, ConcatHelper, Joined, NStop
<1>3. /\ grown \in WithStates /\ grown.n = left.n + (right.n - 1) /\ grown.eps = left.eps
      /\ \A s, t \in NStates(grown) :
             grown.edges[s][t] = IF s < left.n /\ t < left.n THEN left.edges[s][t] ELSE {}
  <2>1. right.n - 1 \in Nat
    BY <1>1
  <2> QED BY <2>1, GrownJoins
<1> HIDE DEF grown
<1>4. grown.n = z + right.n
  BY <1>1, <1>3
<1>5. /\ u \in WithStates /\ u.n = grown.n
      /\ \A s, t \in NStates(u) :
             /\ u.edges[s][t] = grown.edges[s][t] \cup
                    (IF s >= z /\ t >= z THEN right.edges[s - z][t - z] ELSE {})
             /\ <<s, t>> \in u.eps <=>
                    /\ \/ <<s, t>> \in grown.eps
                       \/ s >= z /\ t >= z /\ <<s - z, t - z>> \in right.eps
                    /\ u.edges[s][t] = {}
  <2> HIDE DEF z
  <2> QED BY <1>1, <1>3, <1>4, MovedEdges
<1> HIDE DEF u
<1>6. NStates(u) = NStates(grown) /\ NStates(u) = 0 .. (z + right.n - 1)
  <2>1. NStates(u) = 0 .. (u.n - 1) /\ NStates(grown) = 0 .. (grown.n - 1)
    BY DEF NStates
  <2> HIDE DEF z
  <2>2. u.n - 1 = z + right.n - 1 /\ grown.n - 1 = z + right.n - 1
    BY <1>1, <1>4, <1>5
  <2> QED BY <2>1, <2>2
<1>7. \A s \in NStates(u) : s < left.n <=> s <= z
  BY <1>1, <1>6
<1> HIDE DEF z
<1>8. ASSUME NEW s \in NStates(u), NEW t \in NStates(u)
      PROVE  /\ u.edges[s][t] = (IF s <= z /\ t <= z THEN left.edges[s][t] ELSE {}) \cup
                                (IF s >= z /\ t >= z THEN right.edges[s - z][t - z] ELSE {})
             /\ <<s, t>> \in u.eps <=>
                    \/ s <= z /\ t <= z /\ <<s, t>> \in left.eps
                    \/ s >= z /\ t >= z /\ <<s - z, t - z>> \in right.eps
  <2>1. u.edges[s][t] = (IF s <= z /\ t <= z THEN left.edges[s][t] ELSE {}) \cup
                        (IF s >= z /\ t >= z THEN right.edges[s - z][t - z] ELSE {})
    <3>1. grown.edges[s][t] = IF s <= z /\ t <= z THEN left.edges[s][t] ELSE {}
      BY <1>3, <1>6, <1>7
    <3> QED BY <1>5, <3>1
  <2>2. <<s, t>> \in left.eps <=> s <= z /\ t <= z /\ <<s, t>> \in left.eps
    BY <1>1
  <2>3. ASSUME s <= z, t <= z, <<s, t>> \in left.eps PROVE u.edges[s][t] = {}
    <3>1. left.edges[s][t] = {} /\ s \in NStates(left) /\ t \in NStates(left)
      BY <1>1, <2>3 DEF OneEdge
    <3>2. ~(s >= z /\ t >= z)
      <4>1. s # z
        BY <1>1, <2>3, <3>1 DEF NoExit, Joins
      <4> QED BY <1>1, <2>3, <3>1, <4>1
    <3> QED BY <2>1, <3>1, <3>2
  <2>4. ASSUME s >= z, t >= z, <<s - z, t - z>> \in right.eps PROVE u.edges[s][t] = {}
    <3>1. s - z \in NStates(right) /\ t - z \in NStates(right)
      BY <1>1, <1>6, <2>4, SMTT(20)
    <3>2. right.edges[s - z][t - z] = {}
      BY <1>1, <2>4, <3>1 DEF OneEdge
    <3>3. ~(s <= z /\ t <= z)
      <4>1. t - z # 0
        BY <1>1, <2>4, <3>1 DEF NoEntry, Joins
      <4> QED BY <1>1, <1>6, <2>4, <4>1
    <3> QED BY <2>1, <3>2, <3>3
  <2>5. <<s, t>> \in u.eps <=> /\ \/ <<s, t>> \in left.eps
                                  \/ s >= z /\ t >= z /\ <<s - z, t - z>> \in right.eps
                               /\ u.edges[s][t] = {}
    BY <1>3, <1>5
  <2> QED BY <2>1, <2>2, <2>3, <2>4, <2>5
<1>9. ASSUME NEW s \in NStates(u), NEW t \in NStates(u), NEW w, NEW i, NEW j
      PROVE  Passes(u, w, i, s, j, t) <=>
                 \/ s <= z /\ t <= z /\ Passes(left, w, i, s, j, t)
                 \/ s >= z /\ t >= z /\ Passes(right, w, i, s - z, j, t - z)
  <2>1. w[j] \in u.edges[s][t] <=>
            \/ s <= z /\ t <= z /\ w[j] \in left.edges[s][t]
            \/ s >= z /\ t >= z /\ w[j] \in right.edges[s - z][t - z]
    <3> DEFINE A == left.edges[s][t]
               B == right.edges[s - z][t - z]
               P == s <= z /\ t <= z
               Q == s >= z /\ t >= z
               D == u.edges[s][t]
    <3>1. D = (IF P THEN A ELSE {}) \cup (IF Q THEN B ELSE {})
      BY <1>8
    <3> HIDE DEF A, B, P, Q, D
    <3>2. w[j] \in D <=> (P /\ w[j] \in A) \/ (Q /\ w[j] \in B)
      BY <3>1
    <3> QED BY <3>2 DEF A, B, P, Q, D
  <2> QED BY <1>8, <2>1 DEF Passes
<1>10. u \in WithStates /\ u.n = z + right.n
  BY <1>4, <1>5
<1> QED BY <1>2, <1>9, <1>10 DEF z

\* Side by side.
LEMMA BesidePasses ==
    ASSUME NEW left \in WithStates, NEW right \in WithStates
    PROVE  LET u == ConcatHelper(left, right, NStart, TRUE)
               z == left.n
           IN  /\ u \in WithStates /\ u.n = z + right.n
               /\ \A s, t \in NStates(u) : \A w, i, j :
                      Passes(u, w, i, s, j, t) <=>
                          \/ s < z /\ t < z /\ Passes(left, w, i, s, j, t)
                          \/ s = 0 /\ t = z /\ j = i
                          \/ s >= z /\ t >= z /\ Passes(right, w, i, s - z, j, t - z)
<1> DEFINE z == left.n
           grown == Grown(left, right.n)
           pairs == {<<NStart, z>>}
           linked == WithEpsilons(grown, pairs)
           u == Moved(linked, right, z, z + 1)
<1>1. /\ left.n \in Nat \ {0} /\ right.n \in Nat \ {0} /\ z \in Nat /\ z > 0 /\ left.n = z
      /\ NStates(left) = 0 .. (z - 1) /\ NStates(right) = 0 .. (right.n - 1) /\ NStart = 0
      /\ \A s, t : <<s, t>> \in left.eps => s \in NStates(left) /\ t \in NStates(left)
      /\ OneEdge(left) /\ OneEdge(right)
  BY NfaFacts DEF NStart
<1>2. ConcatHelper(left, right, NStart, TRUE) = u
  BY <1>1 DEF ConcatHelper, Joined
<1>3. /\ grown \in WithStates /\ grown.n = left.n + right.n /\ grown.eps = left.eps
      /\ \A s, t \in NStates(grown) :
             grown.edges[s][t] = IF s < left.n /\ t < left.n THEN left.edges[s][t] ELSE {}
  BY <1>1, GrownJoins
<1> HIDE DEF grown
<1>4. NStart \in NStates(grown) /\ z \in NStates(grown)
  BY <1>1, <1>3 DEF NStates
<1>5. /\ linked \in WithStates /\ linked.n = grown.n /\ linked.edges = grown.edges
      /\ \A s, t \in NStates(linked) :
             <<s, t>> \in linked.eps <=>
                 \/ <<s, t>> \in grown.eps
                 \/ <<s, t>> \in pairs /\ grown.edges[s][t] = {}
  <2>1. pairs \in SUBSET (NStates(grown) \X NStates(grown))
    BY <1>4
  <2> HIDE DEF pairs
  <2> QED BY <1>3, <2>1, EpsilonsJoin
<1> HIDE DEF linked
<1>6. linked.n = z + right.n
  BY <1>3, <1>5
<1>7. /\ u \in WithStates /\ u.n = linked.n
      /\ \A s, t \in NStates(u) :
             /\ u.edges[s][t] = linked.edges[s][t] \cup
                    (IF s >= z /\ t >= z THEN right.edges[s - z][t - z] ELSE {})
             /\ <<s, t>> \in u.eps <=>
                    /\ \/ <<s, t>> \in linked.eps
                       \/ s >= z /\ t >= z /\ <<s - z, t - z>> \in right.eps
                    /\ u.edges[s][t] = {}
  <2> HIDE DEF z
  <2> QED BY <1>1, <1>5, <1>6, MovedEdges, SMTT(20)
<1> HIDE DEF u
<1>8. /\ NStates(u) = NStates(grown) /\ NStates(linked) = NStates(grown)
      /\ NStates(u) = 0 .. (z + right.n - 1)
  <2>1. /\ NStates(u) = 0 .. (u.n - 1) /\ NStates(grown) = 0 .. (grown.n - 1)
        /\ NStates(linked) = 0 .. (linked.n - 1)
    BY DEF NStates
  <2> HIDE DEF z
  <2>2. /\ u.n - 1 = z + right.n - 1 /\ grown.n - 1 = z + right.n - 1
        /\ linked.n - 1 = z + right.n - 1
    BY <1>1, <1>5, <1>6, <1>7
  <2> QED BY <2>1, <2>2
<1> HIDE DEF z
<1>9. /\ \A s, t \in NStates(u) : <<s, t>> \in left.eps => s < z /\ t < z
      /\ \A s \in NStates(u) : s < z => s \in NStates(left)
      /\ \A s \in NStates(u) : s >= z => s - z \in NStates(right)
      /\ \A s \in NStates(u) : ~(s < z /\ s >= z)
  <2>1. \A s, t \in NStates(u) : <<s, t>> \in left.eps => s < z /\ t < z
    BY <1>1
  <2>2. \A s \in NStates(u) : /\ s < z => s \in NStates(left)
                              /\ s >= z => s - z \in NStates(right)
                              /\ ~(s < z /\ s >= z)
    BY <1>1, <1>8
  <2> QED BY <2>1, <2>2
<1>10. ASSUME NEW s \in NStates(u), NEW t \in NStates(u)
       PROVE  /\ u.edges[s][t] = (IF s < z /\ t < z THEN left.edges[s][t] ELSE {}) \cup
                                 (IF s >= z /\ t >= z THEN right.edges[s - z][t - z] ELSE {})
              /\ <<s, t>> \in u.eps <=>
                     \/ s < z /\ t < z /\ <<s, t>> \in left.eps
                     \/ s = 0 /\ t = z
                     \/ s >= z /\ t >= z /\ <<s - z, t - z>> \in right.eps
  <2>1. linked.edges[s][t] = IF s < z /\ t < z THEN left.edges[s][t] ELSE {}
    BY <1>3, <1>5, <1>8 DEF z
  <2>2. u.edges[s][t] = (IF s < z /\ t < z THEN left.edges[s][t] ELSE {}) \cup
                        (IF s >= z /\ t >= z THEN right.edges[s - z][t - z] ELSE {})
    BY <1>7, <2>1
  <2>3. <<s, t>> \in linked.eps <=> \/ <<s, t>> \in left.eps
                                    \/ s = 0 /\ t = z /\ linked.edges[s][t] = {}
    BY <1>1, <1>3, <1>5, <1>8
  <2>4. s = 0 /\ t = z => linked.edges[s][t] = {} /\ u.edges[s][t] = {}
    <3>1. s = 0 /\ t = z => ~(t < z) /\ ~(s >= z)
      BY <1>1
    <3> QED BY <2>1, <2>2, <3>1
  <2>5. s < z /\ t < z /\ <<s, t>> \in left.eps => u.edges[s][t] = {}
    BY <1>1, <1>9, <2>2 DEF OneEdge
  <2>6. s >= z /\ t >= z /\ <<s - z, t - z>> \in right.eps => u.edges[s][t] = {}
    BY <1>1, <1>9, <2>2 DEF OneEdge
  <2>7. <<s, t>> \in u.eps <=> /\ \/ <<s, t>> \in linked.eps
                                  \/ s >= z /\ t >= z /\ <<s - z, t - z>> \in right.eps
                               /\ u.edges[s][t] = {}
    BY <1>7
  <2> QED BY <1>9, <2>2, <2>3, <2>4, <2>5, <2>6, <2>7
<1>11. ASSUME NEW s \in NStates(u), NEW t \in NStates(u), NEW w, NEW i, NEW j
       PROVE  Passes(u, w, i, s, j, t) <=>
                  \/ s < z /\ t < z /\ Passes(left, w, i, s, j, t)
                  \/ s = 0 /\ t = z /\ j = i
                  \/ s >= z /\ t >= z /\ Passes(right, w, i, s - z, j, t - z)
  <2>1. w[j] \in u.edges[s][t] <=>
            \/ s < z /\ t < z /\ w[j] \in left.edges[s][t]
            \/ s >= z /\ t >= z /\ w[j] \in right.edges[s - z][t - z]
    <3> DEFINE A == left.edges[s][t]
               B == right.edges[s - z][t - z]
               P == s < z /\ t < z
               Q == s >= z /\ t >= z
               D == u.edges[s][t]
    <3>1. D = (IF P THEN A ELSE {}) \cup (IF Q THEN B ELSE {})
      BY <1>10
    <3> HIDE DEF A, B, P, Q, D
    <3>2. w[j] \in D <=> (P /\ w[j] \in A) \/ (Q /\ w[j] \in B)
      BY <3>1
    <3> QED BY <3>2 DEF A, B, P, Q, D
  <2> QED BY <1>10, <2>1 DEF Passes
<1>12. u \in WithStates /\ u.n = z + right.n
  BY <1>6, <1>7
<1> QED BY <1>2, <1>11, <1>12, ZenonT(40) DEF z

\* With a new state at the end and epsilon edges where there was none.
LEMMA CapPasses ==
    ASSUME NEW m \in WithStates, NEW pairs \in SUBSET (NStates(m) \X (1 .. m.n)),
           \A s, t \in NStates(m) : <<s, t>> \in pairs => m.edges[s][t] = {}
    PROVE  LET u == WithEpsilons(Grown(m, 1), pairs)
               n == m.n
           IN  /\ u \in WithStates /\ u.n = n + 1
               /\ \A s, t \in NStates(u) : \A w, i, j :
                      Passes(u, w, i, s, j, t) <=>
                          \/ s < n /\ t < n /\ Passes(m, w, i, s, j, t)
                          \/ <<s, t>> \in pairs /\ j = i
<1> DEFINE n == m.n
           grown == Grown(m, 1)
           u == WithEpsilons(grown, pairs)
<1>1. /\ n \in Nat \ {0} /\ NStates(m) = 0 .. (n - 1)
      /\ \A s, t : <<s, t>> \in m.eps => s \in NStates(m) /\ t \in NStates(m)
  BY NfaFacts
<1>2. /\ grown \in WithStates /\ grown.n = n + 1 /\ grown.eps = m.eps
      /\ \A s, t \in NStates(grown) :
             grown.edges[s][t] = IF s < n /\ t < n THEN m.edges[s][t] ELSE {}
  BY <1>1, GrownJoins
<1> HIDE DEF grown
<1>3. NStates(grown) = 0 .. n
  BY <1>1, <1>2 DEF NStates
<1>4. pairs \in SUBSET (NStates(grown) \X NStates(grown))
  <2>1. NStates(m) \subseteq NStates(grown) /\ 1 .. n \subseteq NStates(grown)
    BY <1>1, <1>3
  <2> QED BY <2>1
<1>5. /\ u \in WithStates /\ u.n = grown.n /\ u.edges = grown.edges
      /\ \A s, t \in NStates(u) :
             <<s, t>> \in u.eps <=>
                 \/ <<s, t>> \in grown.eps
                 \/ <<s, t>> \in pairs /\ grown.edges[s][t] = {}
  BY <1>2, <1>4, EpsilonsJoin
<1> HIDE DEF u
<1>6. NStates(u) = NStates(grown)
  BY <1>5 DEF NStates
<1> HIDE DEF n
<1>7. ASSUME NEW s \in NStates(u), NEW t \in NStates(u), NEW w, NEW i, NEW j
      PROVE  Passes(u, w, i, s, j, t) <=>
                 \/ s < n /\ t < n /\ Passes(m, w, i, s, j, t)
                 \/ <<s, t>> \in pairs /\ j = i
  <2>1. u.edges[s][t] = IF s < n /\ t < n THEN m.edges[s][t] ELSE {}
    BY <1>2, <1>5, <1>6
  <2>2. s < n /\ t < n => s \in NStates(m) /\ t \in NStates(m)
    BY <1>1, <1>3, <1>6
  <2>3. <<s, t>> \in pairs => u.edges[s][t] = {}
    BY <2>1, <2>2
  <2>4. <<s, t>> \in u.eps <=> \/ s < n /\ t < n /\ <<s, t>> \in m.eps
                               \/ <<s, t>> \in pairs
    <3>1. <<s, t>> \in m.eps => s < n /\ t < n
      BY <1>1
    <3> QED BY <1>2, <1>5, <2>3, <3>1
  <2> QED BY <2>1, <2>4 DEF Passes
<1> QED BY <1>2, <1>5, <1>7 DEF u, grown, n

-----------------------------------------------------------------------------
(* What the builders' NFAs accept. *)

\* Two pieces in a row accept what the one accepts followed by what the other
\* does.
LEMMA RowReads ==
    ASSUME NEW left \in Pieces, NEW right \in Pieces, NEW w \in Words,
           NEW i \in 0 .. Len(w), NEW j \in 0 .. Len(w)
    PROVE  Reads(Concat(left, right), w, i, j) <=>
               \E k \in 0 .. Len(w) : Reads(left, w, i, k) /\ Reads(right, w, k, j)
<1> DEFINE u == Concat(left, right)
           z == left.n - 1
           r == right.n - 1
           L == 0 .. Len(w)
<1>1. /\ left \in WithStates /\ right \in WithStates /\ z \in Nat /\ r \in Nat /\ r > 0
      /\ NStates(left) = 0 .. z /\ NStates(right) = 0 .. r
      /\ NStop(left) = z /\ NStop(right) = r /\ NStart = 0
      /\ NoExit(left) /\ NoEntry(right) /\ right.n = r + 1
  <2>1. /\ left \in WithStates /\ left.n \in Nat /\ left.n > 1 /\ NoExit(left)
        /\ NStates(left) = 0 .. (left.n - 1) /\ NStop(left) = left.n - 1 /\ NStart = 0
    BY PieceFacts
  <2>2. /\ right \in WithStates /\ right.n \in Nat /\ right.n > 1 /\ NoEntry(right)
        /\ NStates(right) = 0 .. (right.n - 1) /\ NStop(right) = right.n - 1
    BY PieceFacts
  <2> QED BY <2>1, <2>2
<1>2. /\ u \in WithStates /\ u.n = z + right.n
      /\ \A s, t \in NStates(u) : \A v, h, k :
             Passes(u, v, h, s, k, t) <=>
                 \/ s <= z /\ t <= z /\ Passes(left, v, h, s, k, t)
                 \/ s >= z /\ t >= z /\ Passes(right, v, h, s - z, k, t - z)
  BY <1>1, RowPasses
<1> HIDE DEF u, z, r
<1>3. NStates(u) = 0 .. (z + r) /\ NStop(u) = z + r
  <2>1. NStates(u) = 0 .. (u.n - 1) /\ NStop(u) = u.n - 1
    BY DEF NStates, NStop
  <2>2. u.n - 1 = z + r
    BY <1>1, <1>2
  <2> QED BY <2>1, <2>2
<1>4. ASSUME NEW k \in L, Reads(left, w, i, k), Reads(right, w, k, j)
      PROVE  Reads(u, w, i, j)
  <2>1. Way(u, w, i, 0 + 0, k, 0 + z)
    <3>1. \A s \in NStates(left) : 0 + s \in NStates(u)
      BY <1>1, <1>3
    <3>2. \A g, h \in L, s, t \in NStates(left) :
              Passes(left, w, g, s, h, t) => Passes(u, w, g, 0 + s, h, 0 + t)
      <4> SUFFICES ASSUME NEW g \in L, NEW h \in L, NEW s \in NStates(left),
                          NEW t \in NStates(left), Passes(left, w, g, s, h, t)
                   PROVE  Passes(u, w, g, 0 + s, h, 0 + t)
        OBVIOUS
      <4>1. 0 + s = s /\ 0 + t = t /\ s <= z /\ t <= z /\ s \in NStates(u) /\ t \in NStates(u)
        BY <1>1, <1>3
      <4> QED BY <1>2, <4>1
    <3>3. Way(left, w, i, 0, k, z) /\ 0 \in NStates(left) /\ z \in NStates(left)
      BY <1>1, <1>4 DEF Reads
    <3> QED BY <3>1, <3>2, <3>3, WayWithin
  <2>2. Way(u, w, k, z + 0, j, z + r)
    <3>1. \A s \in NStates(right) : z + s \in NStates(u)
      BY <1>1, <1>3
    <3>2. \A g, h \in L, s, t \in NStates(right) :
              Passes(right, w, g, s, h, t) => Passes(u, w, g, z + s, h, z + t)
      <4> SUFFICES ASSUME NEW g \in L, NEW h \in L, NEW s \in NStates(right),
                          NEW t \in NStates(right), Passes(right, w, g, s, h, t)
                   PROVE  Passes(u, w, g, z + s, h, z + t)
        OBVIOUS
      <4>1. /\ (z + s) - z = s /\ (z + t) - z = t /\ z + s >= z /\ z + t >= z
            /\ z + s \in NStates(u) /\ z + t \in NStates(u)
        BY <1>1, <1>3
      <4> QED BY <1>2, <4>1
    <3>3. Way(right, w, k, 0, j, r) /\ 0 \in NStates(right) /\ r \in NStates(right)
      BY <1>1, <1>4 DEF Reads
    <3> QED BY <1>1, <3>1, <3>2, <3>3, WayWithin
  <2>3. 0 + 0 = 0 /\ 0 + z = z /\ z + 0 = z
    BY <1>1
  <2>4. Way(u, w, i, 0, j, z + r)
    BY <2>1, <2>2, <2>3, WaysMeet
  <2> QED BY <1>3, <2>4 DEF Reads
<1>5. ASSUME Reads(u, w, i, j)
      PROVE  \E k \in L : Reads(left, w, i, k) /\ Reads(right, w, k, j)
  <2> DEFINE Here(h, s) == s <= z /\ Way(left, w, i, 0, h, s)
             There(h, s) == s >= z /\ \E k \in L : /\ Way(left, w, i, 0, k, z)
                                                   /\ Way(right, w, k, 0, h, s - z)
             R == {x \in Places(u, w) : Here(x[1], x[2]) \/ There(x[1], x[2])}
  <2>1. \A h \in L, s \in NStates(u) : <<h, s>> \in R <=> Here(h, s) \/ There(h, s)
    BY DEF Places
  <2>2. R \in SUBSET Places(u, w)
    OBVIOUS
  <2> HIDE DEF R
  <2>3. ASSUME NEW h \in L, NEW k \in L, NEW s \in NStates(u), NEW t \in NStates(u),
               Here(h, s) \/ There(h, s), Passes(u, w, h, s, k, t)
        PROVE  Here(k, t) \/ There(k, t)
    <3>1. CASE s <= z /\ t <= z /\ Passes(left, w, h, s, k, t)
      <4>1. s \in NStates(left) /\ t \in NStates(left)
        BY <1>1, <1>3, <3>1
      <4>2. s # z
        BY <1>1, <3>1, <4>1, PassesJoin DEF NoExit
      <4>3. ~(s >= z)
        BY <1>1, <3>1, <4>1, <4>2
      <4>4. Way(left, w, i, 0, h, s)
        BY <2>3, <4>3
      <4>5. Way(left, w, i, 0, k, t)
        BY <3>1, <4>1, <4>4, WayOn
      <4> QED BY <3>1, <4>5
    <3>2. CASE s >= z /\ t >= z /\ Passes(right, w, h, s - z, k, t - z)
      <4>1. s - z \in NStates(right) /\ t - z \in NStates(right)
        BY <1>1, <1>3, <3>2
      <4>2. PICK g \in L : Way(left, w, i, 0, g, z) /\ Way(right, w, g, 0, h, s - z)
        <5>1. CASE There(h, s)
          BY <5>1
        <5>2. CASE Here(h, s)
          <6>1. s = z /\ s - z = 0
            BY <1>1, <1>3, <3>2, <5>2
          <6>2. Way(left, w, i, 0, h, z) /\ Way(right, w, h, 0, h, s - z)
            BY <5>2, <6>1, WayHere
          <6> QED BY <6>2
        <5> QED BY <2>3, <5>1, <5>2
      <4>3. Way(right, w, g, 0, k, t - z)
        BY <3>2, <4>1, <4>2, WayOn
      <4> QED BY <3>2, <4>2, <4>3
    <3> QED BY <1>2, <2>3, <3>1, <3>2
  <2>4. Here(i, 0)
    BY <1>1, WayHere
  <2> HIDE DEF Here, There
  <2>5. Onward(u, w, R)
    BY <2>1, <2>3 DEF Onward
  <2>6. <<i, 0>> \in R
    <3>1. 0 \in NStates(u)
      BY <1>1, <1>3
    <3> QED BY <2>1, <2>4, <3>1
  <2>7. Here(j, z + r) \/ There(j, z + r)
    <3>1. Way(u, w, i, 0, j, z + r) /\ z + r \in NStates(u)
      BY <1>1, <1>3, <1>5 DEF Reads
    <3>2. <<j, z + r>> \in R
      BY <2>2, <2>5, <2>6, <3>1 DEF Way
    <3> QED BY <2>1, <3>1, <3>2
  <2>8. ~(z + r <= z) /\ (z + r) - z = r
    BY <1>1
  <2>9. PICK k \in L : Way(left, w, i, 0, k, z) /\ Way(right, w, k, 0, j, r)
    BY <2>7, <2>8 DEF Here, There
  <2> QED BY <1>1, <2>9 DEF Reads
<1> QED BY <1>4, <1>5 DEF u

\* A piece at the side of a fan leaves its ways as they were, and has those of
\* the piece besides.
LEMMA BesideWays ==
    ASSUME NEW left \in Fans, NEW right \in Pieces, NEW w \in Words,
           NEW i \in 0 .. Len(w), NEW j \in 0 .. Len(w)
    PROVE  LET u == ConcatHelper(left, right, NStart, TRUE)
               z == left.n
           IN  /\ \A t \in NStates(left) : Way(u, w, i, 0, j, t) <=> Way(left, w, i, 0, j, t)
               /\ \A t \in NStates(right) :
                      Way(u, w, i, 0, j, z + t) <=> Way(right, w, i, 0, j, t)
<1> DEFINE u == ConcatHelper(left, right, NStart, TRUE)
           z == left.n
           r == right.n - 1
           L == 0 .. Len(w)
<1>1. /\ left \in WithStates /\ right \in WithStates /\ z \in Nat /\ z > 0 /\ r \in Nat /\ r > 0
      /\ NStates(left) = 0 .. (z - 1) /\ NStates(right) = 0 .. r
      /\ NStart = 0 /\ NoEntry(left) /\ right.n = r + 1
  <2>1. /\ left \in WithStates /\ left.n \in Nat \ {0} /\ NStart = 0 /\ NoEntry(left)
        /\ NStates(left) = 0 .. (left.n - 1)
    BY NfaFacts DEF Fans, NStart
  <2>2. /\ right \in WithStates /\ right.n \in Nat /\ right.n > 1
        /\ NStates(right) = 0 .. (right.n - 1)
    BY PieceFacts
  <2> QED BY <2>1, <2>2
<1>2. /\ u \in WithStates /\ u.n = z + right.n
      /\ \A s, t \in NStates(u) : \A v, h, k :
             Passes(u, v, h, s, k, t) <=>
                 \/ s < z /\ t < z /\ Passes(left, v, h, s, k, t)
                 \/ s = 0 /\ t = z /\ k = h
                 \/ s >= z /\ t >= z /\ Passes(right, v, h, s - z, k, t - z)
  BY <1>1, BesidePasses
<1> HIDE DEF u, z, r
<1>3. NStates(u) = 0 .. (z + r)
  <2>1. NStates(u) = 0 .. (u.n - 1)
    BY DEF NStates
  <2>2. u.n - 1 = z + r
    BY <1>1, <1>2
  <2> QED BY <2>1, <2>2
<1>4. ASSUME NEW t \in NStates(left), Way(left, w, i, 0, j, t)
      PROVE  Way(u, w, i, 0, j, t)
  <2>1. \A s \in NStates(left) : 0 + s \in NStates(u)
    BY <1>1, <1>3
  <2>2. \A g, h \in L, s, q \in NStates(left) :
            Passes(left, w, g, s, h, q) => Passes(u, w, g, 0 + s, h, 0 + q)
    <3> SUFFICES ASSUME NEW g \in L, NEW h \in L, NEW s \in NStates(left),
                        NEW q \in NStates(left), Passes(left, w, g, s, h, q)
                 PROVE  Passes(u, w, g, 0 + s, h, 0 + q)
      OBVIOUS
    <3>1. 0 + s = s /\ 0 + q = q /\ s < z /\ q < z /\ s \in NStates(u) /\ q \in NStates(u)
      BY <1>1, <1>3
    <3> QED BY <1>2, <3>1
  <2>3. 0 \in NStates(left)
    BY <1>1
  <2>4. Way(u, w, i, 0 + 0, j, 0 + t)
    BY <1>4, <2>1, <2>2, <2>3, WayWithin
  <2>5. 0 + 0 = 0 /\ 0 + t = t
    BY <1>1
  <2> QED BY <2>4, <2>5
<1>5. ASSUME NEW t \in NStates(right), Way(right, w, i, 0, j, t)
      PROVE  Way(u, w, i, 0, j, z + t)
  <2>1. \A s \in NStates(right) : z + s \in NStates(u)
    BY <1>1, <1>3
  <2>2. \A g, h \in L, s, q \in NStates(right) :
            Passes(right, w, g, s, h, q) => Passes(u, w, g, z + s, h, z + q)
    <3> SUFFICES ASSUME NEW g \in L, NEW h \in L, NEW s \in NStates(right),
                        NEW q \in NStates(right), Passes(right, w, g, s, h, q)
                 PROVE  Passes(u, w, g, z + s, h, z + q)
      OBVIOUS
    <3>1. z + s \in NStates(u) /\ z + q \in NStates(u)
      BY <2>1
    <3>2. (z + s) - z = s /\ (z + q) - z = q /\ z + s >= z /\ z + q >= z
      <4>1. z \in Nat /\ s \in Nat /\ q \in Nat
        BY <1>1
      <4> QED BY <4>1
    <3> QED BY <1>2, <3>1, <3>2
  <2>3. 0 \in NStates(right)
    BY <1>1
  <2>4. Way(u, w, i, z + 0, j, z + t)
    BY <1>1, <1>5, <2>1, <2>2, <2>3, WayWithin
  <2>5. z + 0 = z /\ 0 \in NStates(u) /\ z \in NStates(u)
    BY <1>1, <1>3
  <2>6. Way(u, w, i, 0, i, z)
    BY <1>2, <2>5, WayOfOne
  <2> QED BY <2>4, <2>5, <2>6, WaysMeet
<1> DEFINE Here(h, s) == s < z /\ Way(left, w, i, 0, h, s)
           There(h, s) == s >= z /\ Way(right, w, i, 0, h, s - z)
           R == {x \in Places(u, w) : Here(x[1], x[2]) \/ There(x[1], x[2])}
<1>6. \A h \in L, s \in NStates(u) : <<h, s>> \in R <=> Here(h, s) \/ There(h, s)
  BY DEF Places
<1>7. R \in SUBSET Places(u, w)
  OBVIOUS
<1> HIDE DEF R
<1>8. ASSUME NEW h \in L, NEW k \in L, NEW s \in NStates(u), NEW t \in NStates(u),
             Here(h, s) \/ There(h, s), Passes(u, w, h, s, k, t)
      PROVE  Here(k, t) \/ There(k, t)
  <2>1. CASE s < z /\ t < z /\ Passes(left, w, h, s, k, t)
    <3>1. s \in NStates(left) /\ t \in NStates(left) /\ ~(s >= z)
      BY <1>1, <1>3, <2>1
    <3>2. Way(left, w, i, 0, k, t)
      BY <1>8, <2>1, <3>1, WayOn
    <3> QED BY <2>1, <3>2
  <2>2. CASE s = 0 /\ t = z /\ k = h
    <3>1. Way(left, w, i, 0, h, 0)
      BY <1>1, <1>8, <2>2
    <3>2. k = i
      BY <1>1, <2>2, <3>1, WayToStart
    <3>3. t >= z /\ t - z = 0
      BY <1>1, <2>2
    <3> QED BY <3>2, <3>3, WayHere
  <2>3. CASE s >= z /\ t >= z /\ Passes(right, w, h, s - z, k, t - z)
    <3>1. s - z \in NStates(right) /\ t - z \in NStates(right) /\ ~(s < z)
      BY <1>1, <1>3, <2>3
    <3>2. Way(right, w, i, 0, k, t - z)
      BY <1>8, <2>3, <3>1, WayOn
    <3> QED BY <2>3, <3>2
  <2> QED BY <1>2, <1>8, <2>1, <2>2, <2>3
<1>9. Here(i, 0)
  BY <1>1, WayHere
<1>10. \A t \in NStates(u) : Way(u, w, i, 0, j, t) => Here(j, t) \/ There(j, t)
  <2> HIDE DEF Here, There
  <2>1. Onward(u, w, R)
    BY <1>6, <1>8 DEF Onward
  <2>2. <<i, 0>> \in R
    <3>1. 0 \in NStates(u)
      BY <1>1, <1>3
    <3> QED BY <1>6, <1>9, <3>1
  <2>3. \A t \in NStates(u) : Way(u, w, i, 0, j, t) => <<j, t>> \in R
    BY <1>7, <2>1, <2>2 DEF Way
  <2> QED BY <1>6, <2>3
<1>11. ASSUME NEW t \in NStates(left), Way(u, w, i, 0, j, t) PROVE Way(left, w, i, 0, j, t)
  <2>1. t \in NStates(u) /\ ~(t >= z)
    BY <1>1, <1>3
  <2> QED BY <1>10, <1>11, <2>1
<1>12. ASSUME NEW t \in NStates(right), Way(u, w, i, 0, j, z + t)
       PROVE  Way(right, w, i, 0, j, t)
  <2>1. z + t \in NStates(u) /\ ~(z + t < z) /\ (z + t) - z = t
    BY <1>1, <1>3
  <2>2. There(j, z + t)
    BY <1>10, <1>12, <2>1
  <2> QED BY <2>1, <2>2
<1> HIDE DEF Here, There
<1> QED BY <1>4, <1>5, <1>11, <1>12 DEF u, z

\* With a new state at its end m accepts what leads to one of the states that
\* lead there.
LEMMA CapReads ==
    ASSUME NEW m \in WithStates, NEW F \in SUBSET NStates(m), NEW w \in Words,
           NEW i \in 0 .. Len(w), NEW j \in 0 .. Len(w)
    PROVE  Reads(WithEpsilons(Grown(m, 1), {<<s, m.n>> : s \in F}), w, i, j) <=>
               \E s \in F : Way(m, w, i, 0, j, s)
<1> DEFINE n == m.n
           pairs == {<<s, n>> : s \in F}
           u == WithEpsilons(Grown(m, 1), pairs)
           L == 0 .. Len(w)
<1>1. n \in Nat /\ n > 0 /\ NStates(m) = 0 .. (n - 1)
  BY NfaFacts
<1>2. \A s, t : <<s, t>> \in pairs <=> s \in F /\ t = n
  OBVIOUS
<1>3. /\ u \in WithStates /\ u.n = n + 1
      /\ \A s, t \in NStates(u) : \A v, h, k :
             Passes(u, v, h, s, k, t) <=>
                 \/ s < n /\ t < n /\ Passes(m, v, h, s, k, t)
                 \/ <<s, t>> \in pairs /\ k = h
  <2>1. n \in 1 .. n /\ n \notin NStates(m)
    BY <1>1
  <2>2. pairs \in SUBSET (NStates(m) \X (1 .. m.n))
    BY <2>1
  <2>3. \A s, t \in NStates(m) : <<s, t>> \in pairs => m.edges[s][t] = {}
    BY <1>2, <2>1
  <2> HIDE DEF pairs
  <2> QED BY <2>2, <2>3, CapPasses
<1> HIDE DEF u, n, pairs
<1>4. NStates(u) = 0 .. n /\ NStop(u) = n
  <2>1. NStates(u) = 0 .. (u.n - 1) /\ NStop(u) = u.n - 1
    BY DEF NStates, NStop
  <2>2. u.n - 1 = n
    BY <1>1, <1>3
  <2> QED BY <2>1, <2>2
<1>5. ASSUME NEW s \in F, Way(m, w, i, 0, j, s) PROVE Way(u, w, i, 0, j, n)
  <2>1. \A q \in NStates(m) : 0 + q \in NStates(u)
    BY <1>1, <1>4
  <2>2. \A g, h \in L, p, q \in NStates(m) :
            Passes(m, w, g, p, h, q) => Passes(u, w, g, 0 + p, h, 0 + q)
    <3> SUFFICES ASSUME NEW g \in L, NEW h \in L, NEW p \in NStates(m),
                        NEW q \in NStates(m), Passes(m, w, g, p, h, q)
                 PROVE  Passes(u, w, g, 0 + p, h, 0 + q)
      OBVIOUS
    <3>1. 0 + p = p /\ 0 + q = q /\ p < n /\ q < n /\ p \in NStates(u) /\ q \in NStates(u)
      BY <1>1, <1>4
    <3>2. Passes(u, w, g, p, h, q)
      BY <1>3, <3>1
    <3> QED BY <3>1, <3>2
  <2>3. 0 \in NStates(m) /\ s \in NStates(m)
    BY <1>1
  <2>4. Way(u, w, i, 0 + 0, j, 0 + s)
    BY <1>5, <2>1, <2>2, <2>3, WayWithin
  <2>5. 0 + 0 = 0 /\ 0 + s = s /\ s \in NStates(u) /\ n \in NStates(u)
    BY <1>1, <1>4, <2>3
  <2>6. Passes(u, w, j, s, j, n)
    BY <1>2, <1>3, <2>5
  <2> QED BY <2>4, <2>5, <2>6, WayOn
<1>6. ASSUME Way(u, w, i, 0, j, n) PROVE \E s \in F : Way(m, w, i, 0, j, s)
  <2> DEFINE In(h, s) == IF s = n THEN \E q \in F : Way(m, w, i, 0, h, q)
                         ELSE Way(m, w, i, 0, h, s)
             R == {x \in Places(u, w) : In(x[1], x[2])}
  <2>1. \A h \in L, s \in NStates(u) : <<h, s>> \in R <=> In(h, s)
    BY DEF Places
  <2>2. R \in SUBSET Places(u, w)
    OBVIOUS
  <2> HIDE DEF R
  <2>3. ASSUME NEW h \in L, NEW k \in L, NEW s \in NStates(u), NEW t \in NStates(u),
               In(h, s), Passes(u, w, h, s, k, t)
        PROVE  In(k, t)
    <3>1. CASE s < n /\ t < n /\ Passes(m, w, h, s, k, t)
      <4>1. s \in NStates(m) /\ t \in NStates(m) /\ s # n /\ t # n
        BY <1>1, <1>4, <3>1
      <4>2. Way(m, w, i, 0, k, t)
        BY <2>3, <3>1, <4>1, WayOn
      <4> QED BY <4>1, <4>2
    <3>2. CASE <<s, t>> \in pairs /\ k = h
      <4>1. s \in F /\ t = n /\ s # n
        BY <1>1, <1>2, <3>2
      <4> QED BY <2>3, <3>2, <4>1
    <3> QED BY <1>3, <2>3, <3>1, <3>2
  <2>4. In(i, 0)
    BY <1>1, WayHere
  <2>5. In(j, n)
    <3> HIDE DEF In
    <3>1. Onward(u, w, R)
      BY <2>1, <2>3 DEF Onward
    <3>2. 0 \in NStates(u) /\ n \in NStates(u)
      BY <1>1, <1>4
    <3>3. <<i, 0>> \in R
      BY <2>1, <2>4, <3>2
    <3>4. <<j, n>> \in R
      BY <1>6, <2>2, <3>1, <3>3 DEF Way
    <3> QED BY <2>1, <3>2, <3>4
  <2> QED BY <2>5
<1>7. Reads(u, w, i, j) <=> Way(u, w, i, 0, j, n)
  BY <1>4 DEF Reads
<1> QED BY <1>5, <1>6, <1>7 DEF u, pairs, n

-----------------------------------------------------------------------------
(* The builders' NFAs mean what they are built for. *)

\* m accepts the parts of words that are in A and no others.
Exact(m, A) ==
    \A w \in Words : \A i, j \in 0 .. Len(w) :
        i <= j => (Reads(m, w, i, j) <=> Part(w, i, j) \in A)

\* The NFA without states stands for the empty word.
Means(m, A) ==
    /\ A \in SUBSET Words
    /\ IF m.n = 0 THEN A = {<<>>} ELSE Exact(m, A)

\* What fragments mean, by whether they have states.
LEMMA FragmentMeans ==
    ASSUME NEW m \in Fragments, NEW A, Means(m, A)
    PROVE  /\ A \in SUBSET Words
           /\ m = NoStates => m.n = 0 /\ A = {<<>>}
           /\ m # NoStates => m \in Pieces /\ m.n # 0 /\ Exact(m, A)
<1>1. NoStates.n = 0
  BY DEF NoStates
<1>2. ASSUME m # NoStates PROVE m \in Pieces /\ m.n # 0
  <2>1. m \in Pieces
    BY <1>2 DEF Fragments
  <2>2. m.n \in Nat /\ m.n > 1
    BY <2>1, PieceFacts
  <2> QED BY <2>1, <2>2
<1> QED BY <1>1, <1>2 DEF Means

\* In a row.
LEMMA ConcatMeans ==
    ASSUME NEW l \in Fragments, NEW r \in Fragments, NEW A, NEW B, Means(l, A), Means(r, B)
    PROVE  Means(Concat(l, r), ConcatWords(A, B))
<1>1. /\ A \in SUBSET Words
      /\ l = NoStates => l.n = 0 /\ A = {<<>>}
      /\ l # NoStates => l \in Pieces /\ l.n # 0 /\ Exact(l, A)
  BY FragmentMeans
<1>2. /\ B \in SUBSET Words
      /\ r = NoStates => r.n = 0 /\ B = {<<>>}
      /\ r # NoStates => r \in Pieces /\ r.n # 0 /\ Exact(r, B)
  BY FragmentMeans
<1>3. CASE r = NoStates
  <2>1. Concat(l, r) = l
    BY <1>2, <1>3 DEF Concat, ConcatHelper
  <2>2. ConcatWords(A, B) = A
    BY <1>1, <1>2, <1>3, ConcatEmpty
  <2> QED BY <2>1, <2>2
<1>4. CASE r # NoStates /\ l = NoStates
  <2>1. Concat(l, r) = r
    BY <1>1, <1>2, <1>4 DEF Concat, ConcatHelper
  <2>2. ConcatWords(A, B) = B
    BY <1>1, <1>2, <1>4, ConcatEmpty
  <2> QED BY <2>1, <2>2
<1>5. CASE r # NoStates /\ l # NoStates
  <2>1. l \in Pieces /\ r \in Pieces /\ Exact(l, A) /\ Exact(r, B)
    BY <1>1, <1>2, <1>5
  <2>2. Concat(l, r) \in Pieces
    BY <2>1, RowIsPiece
  <2>3. Concat(l, r).n # 0
    <3>1. \A p \in Pieces : p.n # 0
      <4> SUFFICES ASSUME NEW p \in Pieces PROVE p.n # 0
        OBVIOUS
      <4>1. p.n \in Nat /\ p.n > 1
        BY PieceFacts
      <4> QED BY <4>1
    <3> QED BY <2>2, <3>1
  <2>4. Exact(Concat(l, r), ConcatWords(A, B))
    <3> SUFFICES ASSUME NEW w \in Words, NEW i \in 0 .. Len(w), NEW j \in 0 .. Len(w), i <= j
                 PROVE  Reads(Concat(l, r), w, i, j) <=> Part(w, i, j) \in ConcatWords(A, B)
      BY DEF Exact
    <3>1. Reads(Concat(l, r), w, i, j) <=>
              \E k \in 0 .. Len(w) : Reads(l, w, i, k) /\ Reads(r, w, k, j)
      BY <2>1, RowReads
    <3>2. Part(w, i, j) \in ConcatWords(A, B) <=>
              \E k \in i .. j : Part(w, i, k) \in A /\ Part(w, k, j) \in B
      BY <1>1, <1>2, ConcatParts
    <3>3. /\ Len(w) \in Nat /\ 0 \in NStates(l) /\ 0 \in NStates(r)
          /\ NStop(l) \in NStates(l) /\ NStop(r) \in NStates(r)
      <4>1. l \in WithStates /\ r \in WithStates
        BY <2>1, PieceFacts
      <4> QED BY <4>1, NfaFacts, WordFacts DEF NStart
    <3>4. ASSUME NEW k \in 0 .. Len(w), Reads(l, w, i, k), Reads(r, w, k, j)
          PROVE  k \in i .. j /\ Part(w, i, k) \in A /\ Part(w, k, j) \in B
      <4>1. i <= k
        BY <3>3, <3>4, WayForward DEF Reads
      <4>2. k <= j
        BY <3>3, <3>4, WayForward DEF Reads
      <4>3. Part(w, i, k) \in A
        BY <2>1, <3>4, <4>1 DEF Exact
      <4>4. Part(w, k, j) \in B
        BY <2>1, <3>4, <4>2 DEF Exact
      <4> QED BY <3>3, <4>1, <4>2, <4>3, <4>4
    <3>5. ASSUME NEW k \in i .. j, Part(w, i, k) \in A, Part(w, k, j) \in B
          PROVE  k \in 0 .. Len(w) /\ Reads(l, w, i, k) /\ Reads(r, w, k, j)
      <4>1. k \in 0 .. Len(w) /\ i <= k /\ k <= j
        BY <3>3
      <4>2. Reads(l, w, i, k)
        BY <2>1, <3>5, <4>1 DEF Exact
      <4>3. Reads(r, w, k, j)
        BY <2>1, <3>5, <4>1 DEF Exact
      <4> QED BY <4>1, <4>2, <4>3
    <3> QED BY <3>1, <3>2, <3>4, <3>5
  <2>5. ConcatWords(A, B) \in SUBSET Words
    BY <1>1, <1>2, ConcatAreWords
  <2> QED BY <2>3, <2>4, <2>5 DEF Means
<1> QED BY <1>3, <1>4, <1>5

\* Two states accept what leads from the first to the second.
LEMMA TwoStatesRead ==
    ASSUME NEW m \in WithStates, m.n = 2,
           \A s, t \in NStates(m) : Joins(m, s, t) => s = 0 /\ t = 1,
           NEW w \in Words, NEW i \in 0 .. Len(w), NEW j \in 0 .. Len(w)
    PROVE  Reads(m, w, i, j) <=> Passes(m, w, i, 0, j, 1)
<1>1. NStates(m) = {0, 1} /\ NStop(m) = 1
  BY DEF NStates, NStop
<1>2. ASSUME Passes(m, w, i, 0, j, 1) PROVE Reads(m, w, i, j)
  BY <1>1, <1>2, WayOfOne DEF Reads
<1>3. ASSUME Reads(m, w, i, j) PROVE Passes(m, w, i, 0, j, 1)
  <2> DEFINE In(h, s) == IF s = 0 THEN h = i ELSE Passes(m, w, i, 0, h, 1)
             R == {x \in Places(m, w) : In(x[1], x[2])}
  <2>1. \A h \in 0 .. Len(w), s \in NStates(m) : <<h, s>> \in R <=> In(h, s)
    BY DEF Places
  <2>2. R \in SUBSET Places(m, w)
    OBVIOUS
  <2> HIDE DEF R
  <2>3. Onward(m, w, R)
    <3> SUFFICES ASSUME NEW h \in 0 .. Len(w), NEW k \in 0 .. Len(w),
                        NEW s \in NStates(m), NEW t \in NStates(m),
                        <<h, s>> \in R, Passes(m, w, h, s, k, t)
                 PROVE  <<k, t>> \in R
      BY DEF Onward
    <3>1. s = 0 /\ t = 1
      BY PassesJoin
    <3>2. In(k, t)
      BY <2>1, <3>1
    <3> QED BY <2>1, <3>2
  <2>4. <<i, 0>> \in R
    BY <1>1, <2>1
  <2>5. <<j, 1>> \in R
    BY <1>1, <1>3, <2>2, <2>3, <2>4 DEF Reads, Way
  <2>6. In(j, 1)
    BY <1>1, <2>1, <2>5
  <2> QED BY <2>6
<1> QED BY <1>2, <1>3

\* A part of one character.
LEMMA PartOfOne ==
    ASSUME NEW C \in SUBSET Char, NEW w \in Words, NEW i \in 0 .. Len(w),
           NEW j \in 0 .. Len(w), i <= j
    PROVE  Part(w, i, j) \in {<<c>> : c \in C} \cap Words <=> j = i + 1 /\ w[j] \in C
<1> DEFINE p == Part(w, i, j)
<1>1. /\ p \in Words /\ Len(p) = j - i /\ Len(w) \in Nat
      /\ \A l \in 1 .. (j - i) : p[l] = w[i + l]
  BY WordFacts
<1>2. p \in Seq(Char)
  BY <1>1, WordFacts
<1> HIDE DEF p
<1>3. ASSUME NEW c \in C, p = <<c>> PROVE j = i + 1 /\ w[j] \in C
  <2>1. Len(p) = 1 /\ p[1] = c
    BY <1>3
  <2>2. j = i + 1 /\ 1 \in 1 .. (j - i)
    <3>1. i \in Int /\ j \in Int
      OBVIOUS
    <3>2. Len(p) = j - i
      BY <1>1
    <3>3. j - i = 1
      BY <2>1, <3>2
    <3> QED BY <3>1, <3>3
  <2> QED BY <1>1, <2>1, <2>2
<1>4. ASSUME j = i + 1, w[j] \in C PROVE p \in {<<c>> : c \in C}
  <2>1. Len(p) = 1 /\ 1 \in 1 .. (j - i)
    BY <1>1, <1>4
  <2>2. p[1] = w[j]
    BY <1>1, <1>4, <2>1
  <2>3. p = <<p[1]>>
    BY <1>2, <2>1
  <2> QED BY <1>4, <2>2, <2>3
<1>5. p \in {<<c>> : c \in C} <=> j = i + 1 /\ w[j] \in C
  BY <1>3, <1>4
<1> QED BY <1>1, <1>5 DEF p

\* An atom.
LEMMA AtomMeans ==
    ASSUME NEW C \in Atoms
    PROVE  Means(CharacterClass(C), {<<c>> : c \in C} \cap Words)
<1> DEFINE m == CharacterClass(C)
           A == {<<c>> : c \in C} \cap Words
<1>1. C \in SUBSET Char /\ C \in SUBSET Char
  BY AtomsAssumption
<1>2. /\ m \in WithStates /\ m.n = 2 /\ NStates(m) = {0, 1}
      /\ \A s, t \in NStates(m) : Joins(m, s, t) => s = 0 /\ t = 1
  BY <1>1, TwoStatesMade DEF CharacterClass
<1>3. m.eps = {} /\ m.edges[0][1] = C
  BY DEF CharacterClass, TwoStates
<1> HIDE DEF m
<1>4. Exact(m, A)
  <2> SUFFICES ASSUME NEW w \in Words, NEW i \in 0 .. Len(w), NEW j \in 0 .. Len(w), i <= j
               PROVE  Reads(m, w, i, j) <=> Part(w, i, j) \in A
    BY DEF Exact
  <2>1. Reads(m, w, i, j) <=> Passes(m, w, i, 0, j, 1)
    BY <1>2, TwoStatesRead
  <2>2. Passes(m, w, i, 0, j, 1) <=> j = i + 1 /\ w[j] \in C
    BY <1>3 DEF Passes
  <2> QED BY <1>1, <2>1, <2>2, PartOfOne
<1> QED BY <1>2, <1>4 DEF Means, m

\* The empty word.
LEMMA EpsilonMeans == Means(Epsilon, {<<>>})
<1> DEFINE m == TwoStates({})
           pairs == {<<0, 1>>}
           u == WithEpsilons(m, pairs)
<1>1. /\ m \in WithStates /\ m.n = 2 /\ NStates(m) = {0, 1}
      /\ \A s, t \in NStates(m) : ~Joins(m, s, t)
  <2>1. {} \in SUBSET Char
    OBVIOUS
  <2> QED BY <2>1, TwoStatesMade
<1> HIDE DEF m
<1>2. /\ u \in WithStates /\ u.n = m.n /\ u.edges = m.edges
      /\ \A s, t \in NStates(u) :
             /\ <<s, t>> \in u.eps <=>
                    \/ <<s, t>> \in m.eps
                    \/ <<s, t>> \in pairs /\ m.edges[s][t] = {}
             /\ Joins(u, s, t) <=> Joins(m, s, t) \/ <<s, t>> \in pairs
  <2>1. pairs \in SUBSET (NStates(m) \X NStates(m))
    BY <1>1
  <2> HIDE DEF pairs
  <2> QED BY <1>1, <2>1, EpsilonsJoin
<1> HIDE DEF u
<1>3. NStates(u) = {0, 1}
  BY <1>1, <1>2 DEF NStates
<1>4. \A s, t \in NStates(u) : Joins(u, s, t) => s = 0 /\ t = 1
  BY <1>1, <1>2, <1>3
<1>5. <<0, 1>> \in u.eps /\ u.edges[0][1] = {}
  BY <1>1, <1>2, <1>3 DEF Joins
<1>6. Exact(u, {<<>>})
  <2> SUFFICES ASSUME NEW w \in Words, NEW i \in 0 .. Len(w), NEW j \in 0 .. Len(w), i <= j
               PROVE  Reads(u, w, i, j) <=> Part(w, i, j) \in {<<>>}
    BY DEF Exact
  <2>1. Reads(u, w, i, j) <=> Passes(u, w, i, 0, j, 1)
    BY <1>1, <1>2, <1>4, TwoStatesRead
  <2>2. Passes(u, w, i, 0, j, 1) <=> j = i
    BY <1>5 DEF Passes
  <2>3. Part(w, i, j) = <<>> <=> i = j
    BY EmptyPart
  <2> QED BY <2>1, <2>2, <2>3
<1>7. Means(u, {<<>>})
  <2>1. {<<>>} \in SUBSET Words
    BY EmptyWord
  <2> QED BY <1>1, <1>2, <1>6, <2>1 DEF Means
<1> QED BY <1>7 DEF u, m, Epsilon

\* The recursive function of AllWords.
LEMMA AllWordsRec ==
    ASSUME NEW V, \A v \in V : v.lang \in SUBSET Words, NEW parts \in Seq(V)
    PROVE  \E f : /\ AllWords(parts) = f[Len(parts)] /\ f[0] = {<<>>}
                  /\ \A i \in 1 .. Len(parts) : f[i] = ConcatWords(f[i - 1], parts[i].lang)
<1> DEFINE n == Len(parts)
           S == SUBSET Words
           g == [i \in 1 .. n |-> [x \in S |-> ConcatWords(x, parts[i].lang)]]
           Good(f) == f = [i \in 0 .. n |-> IF i = 0 THEN {<<>>}
                                            ELSE ConcatWords(f[i - 1], parts[i].lang)]
           F == CHOOSE f : Good(f)
<1>1. n \in Nat /\ \A i \in 1 .. n : parts[i].lang \in S
  OBVIOUS
<1>2. AllWords(parts) = F[n]
  BY DEF AllWords
<1>3. {<<>>} \in S
  BY EmptyWord
<1> HIDE DEF S, n
<1>4. \A x \in S, i \in 1 .. n : ConcatWords(x, parts[i].lang) \in S
  BY <1>1, ConcatAreWords DEF S
<1>5. Recursive(n, S, {<<>>}, g)
  <2>1. g \in [1 .. n -> [S -> S]]
    BY <1>4
  <2> HIDE DEF g
  <2> QED BY <1>1, <1>3, <2>1, Recursion
<1>6. PICK f \in [0 .. n -> S] : f[0] = {<<>>} /\ \A i \in 1 .. n : f[i] = g[i][f[i - 1]]
  BY <1>5 DEF Recursive
<1>7. ASSUME NEW i \in 1 .. n PROVE f[i] = ConcatWords(f[i - 1], parts[i].lang)
  <2>1. f[i - 1] \in S
    BY <1>1
  <2>2. g[i][f[i - 1]] = ConcatWords(f[i - 1], parts[i].lang)
    BY <2>1
  <2> HIDE DEF g
  <2> QED BY <1>6, <2>2
<1>8. f[0] = {<<>>}
  BY <1>6
<1>9. Good(f)
  <2>1. f = [i \in 0 .. n |-> f[i]]
    OBVIOUS
  <2>2. \A i \in 0 .. n : f[i] = IF i = 0 THEN {<<>>}
                                 ELSE ConcatWords(f[i - 1], parts[i].lang)
    BY <1>1, <1>7, <1>8
  <2> HIDE DEF g
  <2> QED BY <2>1, <2>2
<1>10. Good(F)
  <2> HIDE DEF Good
  <2> QED BY <1>9
<1>11. F = [i \in 0 .. n |-> IF i = 0 THEN {<<>>} ELSE ConcatWords(F[i - 1], parts[i].lang)]
  BY <1>10
<1> HIDE DEF F, g
<1>12. F[0] = {<<>>}
  BY <1>1, <1>11
<1>13. ASSUME NEW i \in 1 .. n PROVE F[i] = ConcatWords(F[i - 1], parts[i].lang)
  <2>1. i \in 0 .. n /\ i # 0
    BY <1>1
  <2>2. F[i] = IF i = 0 THEN {<<>>} ELSE ConcatWords(F[i - 1], parts[i].lang)
    BY <1>11, <2>1
  <2> QED BY <2>1, <2>2
<1> QED BY <1>2, <1>12, <1>13 DEF n

\* They are words.
LEMMA AllAreWords ==
    ASSUME NEW V, \A v \in V : v.lang \in SUBSET Words, NEW parts \in Seq(V)
    PROVE  AllWords(parts) \in SUBSET Words
<1>1. PICK f : /\ AllWords(parts) = f[Len(parts)] /\ f[0] = {<<>>}
               /\ \A i \in 1 .. Len(parts) : f[i] = ConcatWords(f[i - 1], parts[i].lang)
  BY AllWordsRec
<1>2. Len(parts) = 0 \/ Len(parts) \in 1 .. Len(parts)
  OBVIOUS
<1> QED BY <1>1, <1>2, EmptyWord DEF ConcatWords

\* The elements of a branch.
LEMMA ManyMeans ==
    ASSUME NEW V, \A v \in V : v.nfa \in Fragments /\ Means(v.nfa, v.lang),
           NEW parts \in Seq(V), parts # <<>>,
           NEW nfas \in Seq(Fragments), Len(nfas) = Len(parts),
           \A i \in 1 .. Len(parts) : nfas[i] = parts[i].nfa
    PROVE  Means(ConcatMany(nfas), AllWords(parts))
<1> DEFINE n == Len(parts)
           l == n - 1
<1>1. n \in Nat /\ n > 0 /\ nfas # <<>> /\ Len(nfas) = n
      /\ \A i \in 1 .. n : nfas[i] \in Fragments /\ Means(nfas[i], parts[i].lang)
  OBVIOUS
<1>2. l \in Nat /\ n = l + 1
  BY <1>1
<1>3. PICK F : /\ ConcatMany(nfas) = F[Len(nfas)]
               /\ \A k \in 1 .. Len(nfas) :
                      F[k] = IF k = 1 THEN nfas[1] ELSE Concat(F[k - 1], nfas[k])
  BY <1>1, ManyRec
<1>4. PICK W : /\ AllWords(parts) = W[n] /\ W[0] = {<<>>}
               /\ \A i \in 1 .. n : W[i] = ConcatWords(W[i - 1], parts[i].lang)
  <2>1. \A v \in V : v.lang \in SUBSET Words
    BY DEF Means
  <2> QED BY <2>1, AllWordsRec
<1> HIDE DEF n, l
<1> DEFINE K == {k \in 0 .. l : F[k + 1] \in Fragments /\ Means(F[k + 1], W[k + 1])}
<1>5. 0 \in K
  <2>1. 1 \in 1 .. n /\ 0 + 1 = 1 /\ 1 - 1 = 0
    BY <1>1
  <2>2. F[1] = nfas[1] /\ W[1] = ConcatWords({<<>>}, parts[1].lang)
    BY <1>1, <1>3, <1>4, <2>1
  <2>3. nfas[1] \in Fragments /\ Means(nfas[1], parts[1].lang)
    BY <1>1, <2>1
  <2>4. W[1] = parts[1].lang
    BY <2>2, <2>3, ConcatEmpty DEF Means
  <2> QED BY <1>2, <2>1, <2>2, <2>3, <2>4
<1>6. ASSUME NEW k \in 0 .. (l - 1), k \in K PROVE k + 1 \in K
  <2>1. /\ (k + 1) + 1 \in 1 .. n /\ (k + 1) + 1 # 1 /\ ((k + 1) + 1) - 1 = k + 1
        /\ k + 1 \in 0 .. l
    BY <1>2
  <2> DEFINE i == (k + 1) + 1
  <2>2. F[i] = Concat(F[k + 1], nfas[i]) /\ W[i] = ConcatWords(W[k + 1], parts[i].lang)
    BY <1>1, <1>3, <1>4, <2>1
  <2>3. /\ F[k + 1] \in Fragments /\ Means(F[k + 1], W[k + 1])
        /\ nfas[i] \in Fragments /\ Means(nfas[i], parts[i].lang)
    BY <1>1, <1>6, <2>1
  <2> HIDE DEF i
  <2>4. F[i] \in Fragments /\ Means(F[i], W[i])
    BY <2>2, <2>3, RowIsFragment, ConcatMeans
  <2> QED BY <2>1, <2>4 DEF i
<1>7. l \in K
  <2> HIDE DEF K
  <2>1. 0 .. l \subseteq K
    BY <1>2, <1>5, <1>6, UpTo
  <2> QED BY <1>2, <2>1
<1> QED BY <1>1, <1>2, <1>3, <1>4, <1>7

\* A number in braces.
LEMMA CopiesMean ==
    ASSUME NEW m \in Fragments, NEW A, Means(m, A), NEW n \in Nat
    PROVE  Means(Copies(m, n), RepeatWords(A, n))
<1>1. PICK F : /\ Copies(m, n) = F[n]
               /\ \A i \in 0 .. n : F[i] = IF i = 0 THEN NoStates ELSE Concat(F[i - 1], m)
  BY CopiesRec
<1>2. /\ A \in SUBSET Words /\ RepeatWords(A, 0) = {<<>>}
      /\ \A k \in Nat : RepeatWords(A, k + 1) = ConcatWords(RepeatWords(A, k), A)
  <2>1. A \in SUBSET Words
    BY DEF Means
  <2> QED BY <2>1, RepeatStep
<1> DEFINE K == {i \in 0 .. n : F[i] \in Fragments /\ Means(F[i], RepeatWords(A, i))}
<1>3. 0 \in K
  <2>1. F[0] = NoStates
    BY <1>1
  <2>2. Means(NoStates, {<<>>})
    BY EmptyWord DEF Means, NoStates
  <2>3. F[0] \in Fragments /\ Means(F[0], RepeatWords(A, 0))
    BY <1>2, <2>1, <2>2 DEF Fragments
  <2> QED BY <2>3
<1>4. ASSUME NEW i \in 0 .. (n - 1), i \in K PROVE i + 1 \in K
  <2>1. i + 1 \in 0 .. n /\ i + 1 # 0 /\ (i + 1) - 1 = i /\ i \in Nat
    OBVIOUS
  <2>2. F[i + 1] = Concat(F[i], m)
    BY <1>1, <2>1
  <2>3. F[i] \in Fragments /\ Means(F[i], RepeatWords(A, i))
    BY <1>4
  <2>4. RepeatWords(A, i + 1) = ConcatWords(RepeatWords(A, i), A)
    BY <1>2, <2>1
  <2>5. F[i + 1] \in Fragments /\ Means(F[i + 1], RepeatWords(A, i + 1))
    BY <2>2, <2>3, <2>4, RowIsFragment, ConcatMeans
  <2> QED BY <2>1, <2>5
<1>5. n \in K
  <2> HIDE DEF K
  <2>1. 0 .. n \subseteq K
    BY <1>3, <1>4, UpTo
  <2> QED BY <2>1
<1> QED BY <1>1, <1>5

\* The state a fan is grown from accepts the empty word.
LEMMA OneReads ==
    ASSUME NEW w \in Words, NEW i \in 0 .. Len(w), NEW j \in 0 .. Len(w)
    PROVE  Way(Single1, w, i, 0, j, 0) <=> j = i
<1>1. Single1 \in WithStates /\ NoEntry(Single1)
  BY OneIsFan DEF Fans
<1> QED BY <1>1, WayToStart, WayHere

\* What leads to the last state of some branch is what one of the branches
\* means; a branch without states counts if it is the first.
LEMMA BranchesMean ==
    ASSUME NEW nfas \in Seq(Fragments), NEW f, HangsOn(f, nfas), NEW langs,
           \A b \in 1 .. Len(nfas) : Means(nfas[b], langs[b]),
           NEW k \in 1 .. Len(nfas), NEW w \in Words,
           NEW i \in 0 .. Len(w), NEW j \in 0 .. Len(w), i <= j
    PROVE  (\E s \in Finals(f, k) : Way(f[k], w, i, 0, j, s)) <=>
               \E b \in 1 .. k : (b = 1 \/ nfas[b].n # 0) /\ Part(w, i, j) \in langs[b]
<1> DEFINE n == Len(nfas)
           Ways(a) == \E s \in Finals(f, a) : Way(f[a], w, i, 0, j, s)
           Lang(b) == (b = 1 \/ nfas[b].n # 0) /\ Part(w, i, j) \in langs[b]
           K == {a \in 0 .. n : Ways(a) <=> \E b \in 1 .. a : Lang(b)}
<1>1. n \in Nat /\ \A b \in 1 .. n : nfas[b] \in Fragments
  OBVIOUS
<1> HIDE DEF n
<1>2. 0 \in K
  <2>1. Finals(f, 0) = {}
    BY DEF Finals
  <2> QED BY <1>1, <2>1
<1>3. ASSUME NEW a \in 0 .. (n - 1), a \in K PROVE a + 1 \in K
  <2> DEFINE c == a + 1
             m == f[a]
             u == f[c]
             p == nfas[c]
             E == Finals(f, a)
  <2>1. c \in 1 .. n /\ c - 1 = a /\ c \in 0 .. n /\ a \in 0 .. n /\ a \in Nat /\ c \in Nat
    BY <1>1
  <2>2. p \in Fragments /\ Means(p, langs[c])
    BY <1>1, <2>1 DEF n
  <2>3. u = ConcatHelper(m, p, NStart, TRUE)
    BY <2>1 DEF HangsOn, n
  <2>4. m \in Fans /\ E \subseteq NStates(m)
    BY <2>1, BranchesFan DEF n
  <2>5. /\ 1 .. c = (1 .. a) \cup {c}
        /\ Finals(f, c) = E \cup {NStop(u)}
    <3>1. 1 .. c = (1 .. a) \cup {c}
      BY <2>1
    <3> HIDE DEF c
    <3> QED BY <3>1 DEF Finals
  <2>6. Ways(a) <=> \E b \in 1 .. a : Lang(b)
    BY <1>3
  <2>7. /\ langs[c] \in SUBSET Words
        /\ p = NoStates => p.n = 0 /\ langs[c] = {<<>>}
        /\ p # NoStates => p \in Pieces /\ p.n # 0 /\ Exact(p, langs[c])
    BY <2>2, FragmentMeans
  <2>8. Ways(c) <=> Ways(a) \/ Lang(c)
    <3>1. CASE p = NoStates
      <4>1. u = m
        BY <2>3, <2>7, <3>1 DEF ConcatHelper
      <4>2. CASE a = 0
        <5>1. m = Single1 /\ E = {} /\ c = 1
          BY <4>2 DEF HangsOn, Finals
        <5>2. NStop(u) = 0
          BY <4>1, <5>1, OneIsFan
        <5>3. Ways(c) <=> Way(Single1, w, i, 0, j, 0)
          BY <2>5, <4>1, <5>1, <5>2
        <5>4. Ways(c) <=> j = i
          BY <5>3, OneReads
        <5>5. Lang(c) <=> j = i
          <6>1. Part(w, i, j) = <<>> <=> i = j
            BY EmptyPart
          <6> QED BY <2>7, <3>1, <5>1, <6>1
        <5>6. ~Ways(a)
          BY <5>1
        <5> QED BY <5>4, <5>5, <5>6
      <4>3. CASE a # 0
        <5>1. NStop(m) \in E
          <6>1. a \in 1 .. a
            BY <2>1, <4>3
          <6> QED BY <6>1 DEF Finals
        <5>2. Finals(f, c) = E
          BY <2>5, <4>1, <5>1
        <5>3. ~Lang(c)
          BY <2>1, <2>7, <3>1, <4>3
        <5> QED BY <4>1, <5>2, <5>3
      <4> QED BY <4>2, <4>3
    <3>2. CASE p # NoStates
      <4> DEFINE z == m.n
      <4>1. p \in Pieces /\ p.n # 0 /\ Exact(p, langs[c])
        BY <2>7, <3>2
      <4>2. /\ \A t \in NStates(m) : Way(u, w, i, 0, j, t) <=> Way(m, w, i, 0, j, t)
            /\ \A t \in NStates(p) : Way(u, w, i, 0, j, z + t) <=> Way(p, w, i, 0, j, t)
        <5> HIDE DEF m, u, p
        <5> DEFINE x == ConcatHelper(m, p, NStart, TRUE)
        <5>1. /\ \A t \in NStates(m) : Way(x, w, i, 0, j, t) <=> Way(m, w, i, 0, j, t)
              /\ \A t \in NStates(p) : Way(x, w, i, 0, j, z + t) <=> Way(p, w, i, 0, j, t)
          BY <2>4, <4>1, BesideWays
        <5>2. u = x
          BY <2>3
        <5> HIDE DEF x
        <5> QED BY <5>1, <5>2
      <4>3. NStop(u) = z + NStop(p) /\ NStop(p) \in NStates(p)
        <5>1. m \in WithStates /\ p \in WithStates /\ z \in Nat /\ p.n \in Nat
          <6>1. m \in WithStates /\ p \in WithStates
            BY <2>4, <4>1, PieceFacts DEF Fans
          <6> QED BY <6>1, NfaFacts
        <5> HIDE DEF m, u, p
        <5>2. u.n = z + p.n
          <6> DEFINE x == ConcatHelper(m, p, NStart, TRUE)
          <6>1. x.n = z + p.n
            <7>1. x \in WithStates /\ x.n = m.n + p.n
              BY <5>1, BesideJoins
            <7> QED BY <7>1
          <6> HIDE DEF x
          <6> QED BY <2>3, <6>1 DEF x
        <5>3. NStop(p) \in NStates(p)
          BY <5>1, NfaFacts
        <5>4. NStop(u) = u.n - 1 /\ NStop(p) = p.n - 1
          BY DEF NStop
        <5> HIDE DEF z
        <5>5. z \in Int /\ p.n \in Int
          BY <5>1, NfaFacts DEF z
        <5> QED BY <5>2, <5>3, <5>4, <5>5
      <4>4. Way(u, w, i, 0, j, NStop(u)) <=> Reads(p, w, i, j)
        BY <4>2, <4>3 DEF Reads
      <4>5. Reads(p, w, i, j) <=> Part(w, i, j) \in langs[c]
        BY <4>1 DEF Exact
      <4>6. Lang(c) <=> Way(u, w, i, 0, j, NStop(u))
        BY <4>1, <4>4, <4>5
      <4>7. (\E s \in E : Way(u, w, i, 0, j, s)) <=> Ways(a)
        BY <2>4, <4>2
      <4> HIDE DEF u, E, Lang, c
      <4> QED BY <2>5, <4>6, <4>7 DEF u
    <3> QED BY <3>1, <3>2
  <2> HIDE DEF Ways, Lang
  <2> QED BY <2>1, <2>5, <2>6, <2>8
<1>4. k \in K
  <2> HIDE DEF K
  <2>1. 0 .. n \subseteq K
    BY <1>1, <1>2, <1>3, UpTo
  <2>2. k \in 0 .. n
    BY <1>1 DEF n
  <2> QED BY <2>1, <2>2
<1> QED BY <1>4

\* Branches side by side.
LEMMA AlternationMeans ==
    ASSUME NEW nfas \in Seq(Fragments), nfas # <<>>, NEW langs,
           \A b \in 1 .. Len(nfas) : Means(nfas[b], langs[b])
    PROVE  Means(Alternation(nfas),
                 UNION {langs[b] : b \in {c \in 1 .. Len(nfas) : c = 1 \/ nfas[c].n # 0}})
<1> DEFINE n == Len(nfas)
           Counts1 == {c \in 1 .. n : c = 1 \/ nfas[c].n # 0}
           U == UNION {langs[b] : b \in Counts1}
<1>1. n \in Nat /\ n > 0
  OBVIOUS
<1>2. CASE n = 1
  <2>1. Alternation(nfas) = nfas[1] /\ Means(nfas[1], langs[1])
    BY <1>2 DEF Alternation
  <2>2. Counts1 = {1}
    BY <1>2
  <2> HIDE DEF Counts1
  <2>3. U = langs[1]
    BY <2>2
  <2> HIDE DEF U
  <2> QED BY <2>1, <2>3 DEF U, Counts1
<1>3. CASE n # 1
  <2>1. PICK f : /\ HangsOn(f, nfas)
                 /\ LET all == f[n]
                    IN  Alternation(nfas) =
                            WithEpsilons(Grown(all, 1), {<<s, all.n>> : s \in Finals(f, n)})
    BY <1>3, AlternationRec
  <2> DEFINE m == f[n]
             F == Finals(f, n)
             u == WithEpsilons(Grown(m, 1), {<<s, m.n>> : s \in F})
  <2>2. m \in WithStates /\ F \in SUBSET NStates(m)
    <3>1. n \in 0 .. Len(nfas)
      BY <1>1
    <3> HIDE DEF n
    <3> QED BY <2>1, <3>1, BranchesFan DEF Fans
  <2>3. Alternation(nfas) = u
    BY <2>1
  <2>4. U \in SUBSET Words
    BY DEF Means
  <2>5. ASSUME NEW w \in Words, NEW i \in 0 .. Len(w), NEW j \in 0 .. Len(w), i <= j
        PROVE  Reads(u, w, i, j) <=> Part(w, i, j) \in U
    <3>1. Reads(u, w, i, j) <=> \E s \in F : Way(m, w, i, 0, j, s)
      <4> HIDE DEF m, F
      <4> QED BY <2>2, CapReads
    <3>2. (\E s \in F : Way(m, w, i, 0, j, s)) <=>
              \E b \in 1 .. n : (b = 1 \/ nfas[b].n # 0) /\ Part(w, i, j) \in langs[b]
      <4>1. n \in 1 .. Len(nfas)
        BY <1>1
      <4> QED BY <2>1, <2>5, <4>1, BranchesMean
    <3>3. Part(w, i, j) \in U <=>
              \E b \in 1 .. n : (b = 1 \/ nfas[b].n # 0) /\ Part(w, i, j) \in langs[b]
      <4> HIDE DEF n
      <4> QED OBVIOUS
    <3> HIDE DEF u, U, m, F
    <3> QED BY <3>1, <3>2, <3>3
  <2>6. u.n # 0
    <3>1. Alternation(nfas) \in Pieces
      BY <1>3, AlternationIsPiece
    <3> HIDE DEF u
    <3>2. u.n \in Nat /\ u.n > 1
      BY <2>3, <3>1, PieceFacts
    <3> QED BY <3>2
  <2>7. Means(u, U)
    <3> HIDE DEF u, U
    <3>1. Exact(u, U)
      BY <2>5 DEF Exact
    <3> QED BY <2>4, <2>6, <3>1 DEF Means
  <2> HIDE DEF u, U
  <2> QED BY <2>3, <2>7 DEF U
<1> QED BY <1>2, <1>3

\* What star puts around a piece: epsilon edges to its start state from the new
\* start state and from where it stops, and from both to the new stop state.
LEMMA StarPasses ==
    ASSUME NEW m \in Pieces
    PROVE  LET u == Star(m)
               e == m.n
           IN  /\ u \in WithStates /\ u.n = e + 2
               /\ \A s, t \in NStates(u) : \A w, i, j :
                      Passes(u, w, i, s, j, t) <=>
                          \/ /\ s >= 1 /\ t >= 1 /\ s <= e /\ t <= e
                             /\ Passes(m, w, i, s - 1, j, t - 1)
                          \/ (s = 0 \/ s = e) /\ (t = 1 \/ t = e + 1) /\ j = i
<1> DEFINE star == ConcatHelper(Single1, m, NStart, TRUE)
           e == m.n
           pairs == StarEdges(NStop(star), star.n)
           u == WithEpsilons(Grown(star, 1), pairs)
<1>1. /\ m \in WithStates /\ e \in Nat /\ e > 1 /\ NStates(m) = 0 .. (e - 1) /\ NStart = 0
      /\ NoEntry(m)
  BY PieceFacts
<1>2. Star(m) = u
  BY DEF Star, Single1
<1>3. Single1 \in WithStates /\ Single1.n = 1
      /\ \A w, i, j : ~Passes(Single1, w, i, 0, j, 0)
  <2>1. Single1 \in WithStates /\ Single1.n = 1
    BY OneIsFan DEF Fans
  <2>2. Single1.eps = {} /\ Single1.edges[0][0] = {}
    BY DEF Single1
  <2> QED BY <2>1, <2>2 DEF Passes
<1>4. /\ star \in WithStates /\ star.n = 1 + e
      /\ \A s, t \in NStates(star) : \A w, i, j :
             Passes(star, w, i, s, j, t) <=>
                 \/ s < 1 /\ t < 1 /\ Passes(Single1, w, i, s, j, t)
                 \/ s = 0 /\ t = 1 /\ j = i
                 \/ s >= 1 /\ t >= 1 /\ Passes(m, w, i, s - 1, j, t - 1)
  <2> DEFINE z == Single1.n
  <2>1. /\ star \in WithStates /\ star.n = z + e
        /\ \A s, t \in NStates(star) : \A w, i, j :
               Passes(star, w, i, s, j, t) <=>
                   \/ s < z /\ t < z /\ Passes(Single1, w, i, s, j, t)
                   \/ s = 0 /\ t = z /\ j = i
                   \/ s >= z /\ t >= z /\ Passes(m, w, i, s - z, j, t - z)
    BY <1>1, <1>3, BesidePasses
  <2>2. z = 1
    BY <1>3
  <2> HIDE DEF z, star, e
  <2> QED BY <2>1, <2>2
<1>5. \A s, t \in NStates(star) :
          Joins(star, s, t) <=> \/ s < 1 /\ t < 1 /\ Joins(Single1, s, t)
                                \/ s = 0 /\ t = 1
                                \/ s >= 1 /\ t >= 1 /\ Joins(m, s - 1, t - 1)
  <2> DEFINE z == Single1.n
  <2>1. \A s, t \in NStates(star) :
            Joins(star, s, t) <=> \/ s < z /\ t < z /\ Joins(Single1, s, t)
                                  \/ s = 0 /\ t = z
                                  \/ s >= z /\ t >= z /\ Joins(m, s - z, t - z)
    BY <1>1, <1>3, BesideJoins
  <2>2. z = 1
    BY <1>3
  <2> HIDE DEF z, star, e
  <2> QED BY <2>1, <2>2
<1> HIDE DEF star, e
<1>6. NStates(star) = 0 .. e /\ NStop(star) = e
  <2>1. NStates(star) = 0 .. (star.n - 1) /\ NStop(star) = star.n - 1
    BY DEF NStates, NStop
  <2>2. star.n - 1 = e
    BY <1>1, <1>4
  <2> QED BY <2>1, <2>2
<1>7. \A s, t : <<s, t>> \in pairs <=> \/ s = e /\ t = 1
                                       \/ (s = 0 \/ s = e) /\ t = e + 1
  <2>1. star.n = e + 1
    BY <1>1, <1>4
  <2>2. pairs = {<<e, 1>>, <<0, e + 1>>, <<e, e + 1>>}
    BY <1>1, <1>6, <2>1 DEF StarEdges
  <2> HIDE DEF pairs
  <2> QED BY <2>2
<1>8. pairs \in SUBSET (NStates(star) \X (1 .. star.n))
  <2>1. star.n = e + 1 /\ 1 \in 1 .. star.n /\ e + 1 \in 1 .. star.n
        /\ 0 \in NStates(star) /\ e \in NStates(star)
    BY <1>1, <1>4, <1>6
  <2>2. pairs = {<<e, 1>>, <<0, e + 1>>, <<e, e + 1>>}
    BY <1>1, <1>6, <2>1 DEF StarEdges
  <2> HIDE DEF pairs
  <2> QED BY <2>1, <2>2
<1> HIDE DEF pairs
<1>9. \A s, t \in NStates(star) : <<s, t>> \in pairs => star.edges[s][t] = {}
  <2> SUFFICES ASSUME NEW s \in NStates(star), NEW t \in NStates(star), <<s, t>> \in pairs
               PROVE  star.edges[s][t] = {}
    OBVIOUS
  <2>1. s = e /\ t = 1
    BY <1>1, <1>6, <1>7
  <2>2. ~Joins(m, e - 1, 0)
    <3>1. e - 1 \in NStates(m)
      BY <1>1
    <3> QED BY <1>1, <3>1 DEF NoEntry
  <2>3. ~(s < 1) /\ s # 0 /\ s - 1 = e - 1 /\ t - 1 = 0
    BY <1>1, <2>1
  <2>4. ~Joins(star, s, t)
    BY <1>5, <2>2, <2>3
  <2> QED BY <2>4 DEF Joins
<1>10. /\ u \in WithStates /\ u.n = star.n + 1
       /\ \A s, t \in NStates(u) : \A w, i, j :
              Passes(u, w, i, s, j, t) <=>
                  \/ s < star.n /\ t < star.n /\ Passes(star, w, i, s, j, t)
                  \/ <<s, t>> \in pairs /\ j = i
  BY <1>4, <1>8, <1>9, CapPasses
<1> HIDE DEF u
<1>11. u.n = e + 2 /\ star.n = e + 1 /\ NStates(u) = 0 .. (e + 1)
  <2>1. NStates(u) = 0 .. (u.n - 1)
    BY DEF NStates
  <2>2. u.n = e + 2 /\ star.n = e + 1 /\ u.n - 1 = e + 1
    BY <1>1, <1>4, <1>10
  <2> QED BY <2>1, <2>2
<1>12. ASSUME NEW s \in NStates(u), NEW t \in NStates(u), NEW w, NEW i, NEW j
       PROVE  Passes(u, w, i, s, j, t) <=>
                  \/ /\ s >= 1 /\ t >= 1 /\ s <= e /\ t <= e
                     /\ Passes(m, w, i, s - 1, j, t - 1)
                  \/ (s = 0 \/ s = e) /\ (t = 1 \/ t = e + 1) /\ j = i
  <2>1. Passes(u, w, i, s, j, t) <=>
            \/ s < star.n /\ t < star.n /\ Passes(star, w, i, s, j, t)
            \/ <<s, t>> \in pairs /\ j = i
    BY <1>10
  <2>2. /\ s \in Int /\ t \in Int
        /\ s < star.n <=> s \in NStates(star)
        /\ t < star.n <=> t \in NStates(star)
        /\ s < star.n <=> s <= e
        /\ t < star.n <=> t <= e
        /\ s < 1 <=> s = 0
        /\ t < 1 <=> t = 0
    BY <1>1, <1>6, <1>11
  <2>3. s < star.n /\ t < star.n =>
            (Passes(star, w, i, s, j, t) <=>
                 \/ s = 0 /\ t = 1 /\ j = i
                 \/ s >= 1 /\ t >= 1 /\ Passes(m, w, i, s - 1, j, t - 1))
    BY <1>3, <1>4, <2>2
  <2>4. t = 1 => t <= e
    BY <1>1
  <2>5. s = 0 => s <= e
    BY <1>1
  <2> QED BY <1>7, <2>1, <2>2, <2>3, <2>4, <2>5
<1> QED BY <1>2, <1>10, <1>11, <1>12 DEF e

\* Repeating the empty word makes no other.
LEMMA StarOfEmpty == StarWords({<<>>}) = {<<>>}
<1>1. {<<>>} \in SUBSET Words /\ MaxLen \in Nat
  BY EmptyWord, BoundsAssumption
<1> DEFINE K == {k \in 0 .. MaxLen : RepeatWords({<<>>}, k) = {<<>>}}
<1>2. 0 \in K
  BY <1>1, RepeatStep
<1>3. ASSUME NEW k \in 0 .. (MaxLen - 1), k \in K PROVE k + 1 \in K
  <2>1. k \in Nat /\ k + 1 \in 0 .. MaxLen
    BY <1>1
  <2>2. RepeatWords({<<>>}, k + 1) = ConcatWords(RepeatWords({<<>>}, k), {<<>>})
    BY <1>1, <2>1, RepeatStep
  <2>3. ConcatWords({<<>>}, {<<>>}) = {<<>>}
    BY <1>1, ConcatEmpty
  <2> QED BY <1>3, <2>1, <2>2, <2>3
<1>4. 0 .. MaxLen \subseteq K
  <2> HIDE DEF K
  <2> QED BY <1>1, <1>2, <1>3, UpTo
<1>5. \A k \in 0 .. MaxLen : RepeatWords({<<>>}, k) = {<<>>}
  BY <1>4
<1>6. 0 \in 0 .. MaxLen
  BY <1>1
<1> QED BY <1>5, <1>6 DEF StarWords

\* What the star of a piece accepts is repetitions of what the piece does.
LEMMA StarReadsOnly ==
    ASSUME NEW m \in Pieces, NEW A \in SUBSET Words, Exact(m, A), NEW w \in Words,
           NEW i \in 0 .. Len(w), NEW j \in 0 .. Len(w),
           Way(Star(m), w, i, 0, j, m.n + 1)
    PROVE  Part(w, i, j) \in StarWords(A)
<1> DEFINE u == Star(m)
           e == m.n
           S == StarWords(A)
           L == 0 .. Len(w)
           In(h, s) == /\ i <= h
                       /\ s = 0 => h = i
                       /\ s = e + 1 => Part(w, i, h) \in S
                       /\ s # 0 /\ s # e + 1 =>
                              \E g \in L : /\ i <= g /\ g <= h /\ Part(w, i, g) \in S
                                           /\ Way(m, w, g, 0, h, s - 1)
           R == {x \in Places(u, w) : In(x[1], x[2])}
<1>1. /\ e \in Nat /\ e > 1 /\ NStates(m) = 0 .. (e - 1) /\ NStop(m) = e - 1 /\ Len(w) \in Nat
  BY PieceFacts, WordFacts
<1>2. /\ u.n = e + 2
      /\ \A s, t \in NStates(u) : \A v, h, k :
             Passes(u, v, h, s, k, t) <=>
                 \/ s >= 1 /\ t >= 1 /\ s <= e /\ t <= e /\ Passes(m, v, h, s - 1, k, t - 1)
                 \/ (s = 0 \/ s = e) /\ (t = 1 \/ t = e + 1) /\ k = h
  BY StarPasses
<1>3. /\ <<>> \in S /\ S \in SUBSET Words /\ ConcatWords(S, A) \subseteq S
  BY StarGrows
<1> HIDE DEF u, e, S
<1>4. NStates(u) = 0 .. (e + 1)
  <2>1. NStates(u) = 0 .. (u.n - 1)
    BY DEF NStates
  <2>2. u.n - 1 = e + 1
    BY <1>1, <1>2
  <2> QED BY <2>1, <2>2
<1>5. \A h \in L, s \in NStates(u) : <<h, s>> \in R <=> In(h, s)
  BY DEF Places
<1>6. R \in SUBSET Places(u, w)
  OBVIOUS
<1> HIDE DEF R
<1>7. Onward(u, w, R)
  <2> SUFFICES ASSUME NEW h \in L, NEW k \in L, NEW s \in NStates(u), NEW t \in NStates(u),
                      <<h, s>> \in R, Passes(u, w, h, s, k, t)
               PROVE  In(k, t)
    BY <1>5 DEF Onward
  <2>1. In(h, s)
    BY <1>5
  <2>2. CASE s >= 1 /\ t >= 1 /\ s <= e /\ t <= e /\ Passes(m, w, h, s - 1, k, t - 1)
    <3>1. /\ s # 0 /\ s # e + 1 /\ t # 0 /\ t # e + 1
          /\ s - 1 \in NStates(m) /\ t - 1 \in NStates(m)
      <4>1. s \in Int /\ t \in Int /\ e \in Int
        BY <1>1, <1>4
      <4>2. s >= 1 /\ t >= 1 /\ s <= e /\ t <= e
        BY <2>2
      <4>3. s # 0 /\ s # e + 1 /\ s - 1 \in 0 .. (e - 1)
        BY <4>1, <4>2
      <4>4. t # 0 /\ t # e + 1 /\ t - 1 \in 0 .. (e - 1)
        BY <4>1, <4>2
      <4> QED BY <1>1, <4>3, <4>4
    <3>2. PICK g \in L : /\ i <= g /\ g <= h /\ Part(w, i, g) \in S
                         /\ Way(m, w, g, 0, h, s - 1)
      BY <2>1, <3>1
    <3>3. h <= k
      <4>1. k = h \/ k = h + 1
        BY <2>2 DEF Passes
      <4> QED BY <1>1, <4>1
    <3>4. Way(m, w, g, 0, k, t - 1)
      BY <2>2, <3>1, <3>2, WayOn
    <3>5. i <= k /\ g <= k
      BY <1>1, <2>1, <3>2, <3>3
    <3> QED BY <3>1, <3>2, <3>4, <3>5
  <2>3. CASE (s = 0 \/ s = e) /\ (t = 1 \/ t = e + 1) /\ k = h
    <3>1. Part(w, i, h) \in S
      <4>1. CASE s = 0
        <5>1. h = i /\ i <= h
          BY <2>1, <4>1
        <5>2. Part(w, i, h) = <<>>
          BY <5>1, EmptyPart
        <5> QED BY <1>3, <5>2
      <4>2. CASE s = e
        <5>1. s # 0 /\ s # e + 1 /\ s - 1 = NStop(m)
          BY <1>1, <4>2
        <5>2. PICK g \in L : /\ i <= g /\ g <= h /\ Part(w, i, g) \in S
                             /\ Way(m, w, g, 0, h, s - 1)
          BY <2>1, <5>1
        <5>3. Reads(m, w, g, h)
          BY <5>1, <5>2 DEF Reads
        <5>4. Part(w, g, h) \in A
          BY <5>2, <5>3 DEF Exact
        <5>5. g \in i .. h /\ i <= h
          BY <1>1, <2>1, <5>2
        <5>6. Part(w, i, h) \in ConcatWords(S, A)
          BY <1>3, <5>2, <5>4, <5>5, ConcatParts
        <5> QED BY <1>3, <5>6
      <4> QED BY <2>3, <4>1, <4>2
    <3>2. i <= k /\ k <= k /\ Part(w, i, k) \in S /\ t # 0
      BY <1>1, <2>1, <2>3, <3>1
    <3>3. t # e + 1 => Way(m, w, k, 0, k, t - 1)
      <4> HAVE t # e + 1
      <4>1. t - 1 = 0
        BY <2>3
      <4> QED BY <4>1, WayHere
    <3> QED BY <3>2, <3>3
  <2> QED BY <1>2, <2>2, <2>3
<1>8. <<i, 0>> \in R
  <2>1. 0 \in NStates(u) /\ 0 # e + 1 /\ i <= i
    BY <1>1, <1>4
  <2> QED BY <1>5, <2>1
<1>9. Way(u, w, i, 0, j, e + 1)
  BY DEF u, e
<1>10. <<j, e + 1>> \in R
  BY <1>6, <1>7, <1>8, <1>9 DEF Way
<1>11. e + 1 \in NStates(u)
  BY <1>1, <1>4
<1>12. In(j, e + 1)
  BY <1>5, <1>10, <1>11
<1> QED BY <1>12 DEF S

\* And all of them.
LEMMA StarReadsAll ==
    ASSUME NEW m \in Pieces, NEW A \in SUBSET Words, Exact(m, A), NEW w \in Words,
           NEW i \in 0 .. Len(w), NEW j \in 0 .. Len(w), i <= j,
           Part(w, i, j) \in StarWords(A)
    PROVE  Way(Star(m), w, i, 0, j, m.n + 1)
<1> DEFINE u == Star(m)
           e == m.n
           L == 0 .. Len(w)
           K == {k \in 0 .. MaxLen :
                    \A h \in L : i <= h /\ Part(w, i, h) \in RepeatWords(A, k) =>
                        h = i \/ Way(u, w, i, 0, h, e)}
<1>1. /\ e \in Nat /\ e > 1 /\ NStates(m) = 0 .. (e - 1) /\ NStop(m) = e - 1 /\ Len(w) \in Nat
      /\ MaxLen \in Nat
  BY PieceFacts, WordFacts, BoundsAssumption
<1>2. /\ u.n = e + 2
      /\ \A s, t \in NStates(u) : \A v, h, k :
             Passes(u, v, h, s, k, t) <=>
                 \/ s >= 1 /\ t >= 1 /\ s <= e /\ t <= e /\ Passes(m, v, h, s - 1, k, t - 1)
                 \/ (s = 0 \/ s = e) /\ (t = 1 \/ t = e + 1) /\ k = h
  BY StarPasses
<1> HIDE DEF u, e
<1>3. NStates(u) = 0 .. (e + 1)
  <2>1. NStates(u) = 0 .. (u.n - 1)
    BY DEF NStates
  <2>2. u.n - 1 = e + 1
    BY <1>1, <1>2
  <2> QED BY <2>1, <2>2
<1>4. 0 \in NStates(u) /\ 1 \in NStates(u) /\ e \in NStates(u) /\ e + 1 \in NStates(u)
  BY <1>1, <1>3
<1>5. \A h \in L : /\ Way(u, w, h, 0, h, 1) /\ Way(u, w, h, e, h, 1)
                   /\ Way(u, w, h, 0, h, e + 1) /\ Way(u, w, h, e, h, e + 1)
  <2> SUFFICES ASSUME NEW h \in L
               PROVE  /\ Way(u, w, h, 0, h, 1) /\ Way(u, w, h, e, h, 1)
                      /\ Way(u, w, h, 0, h, e + 1) /\ Way(u, w, h, e, h, e + 1)
    OBVIOUS
  <2>1. /\ Passes(u, w, h, 0, h, 1) /\ Passes(u, w, h, e, h, 1)
        /\ Passes(u, w, h, 0, h, e + 1) /\ Passes(u, w, h, e, h, e + 1)
    BY <1>2, <1>4
  <2> QED BY <1>4, <2>1, WayOfOne
<1>6. 0 \in K
  <2>1. RepeatWords(A, 0) = {<<>>}
    BY RepeatStep
  <2>2. \A h \in L : i <= h /\ Part(w, i, h) = <<>> => h = i
    BY EmptyPart
  <2> QED BY <1>1, <2>1, <2>2
<1>7. ASSUME NEW k \in 0 .. (MaxLen - 1), k \in K PROVE k + 1 \in K
  <2>1. k \in Nat /\ k + 1 \in 0 .. MaxLen
    BY <1>1
  <2>2. RepeatWords(A, k + 1) = ConcatWords(RepeatWords(A, k), A)
        /\ RepeatWords(A, k) \in SUBSET Words
    BY <2>1, RepeatStep
  <2>3. ASSUME NEW h \in L, i <= h, Part(w, i, h) \in RepeatWords(A, k + 1)
        PROVE  Way(u, w, i, 0, h, e)
    <3>1. PICK g \in i .. h : Part(w, i, g) \in RepeatWords(A, k) /\ Part(w, g, h) \in A
      BY <2>2, <2>3, ConcatParts
    <3>2. g \in L /\ i <= g /\ g <= h
      BY <1>1
    <3>3. Way(u, w, i, 0, g, 1)
      <4>1. g = i \/ Way(u, w, i, 0, g, e)
        BY <1>7, <3>1, <3>2
      <4>2. CASE g = i
        BY <1>5, <3>2, <4>2
      <4>3. CASE Way(u, w, i, 0, g, e)
        BY <1>5, <3>2, <4>3, WaysMeet
      <4> QED BY <4>1, <4>2, <4>3
    <3>4. Way(m, w, g, 0, h, e - 1)
      <4>1. Reads(m, w, g, h)
        BY <3>1, <3>2 DEF Exact
      <4> QED BY <1>1, <4>1 DEF Reads
    <3>5. Way(u, w, g, 1, h, e)
      <4>1. \A s \in NStates(m) : 1 + s \in NStates(u)
        BY <1>1, <1>3
      <4>2. \A a, b \in 0 .. Len(w), s, t \in NStates(m) :
                Passes(m, w, a, s, b, t) => Passes(u, w, a, 1 + s, b, 1 + t)
        <5> SUFFICES ASSUME NEW a \in 0 .. Len(w), NEW b \in 0 .. Len(w),
                            NEW s \in NStates(m), NEW t \in NStates(m),
                            Passes(m, w, a, s, b, t)
                     PROVE  Passes(u, w, a, 1 + s, b, 1 + t)
          OBVIOUS
        <5>1. /\ 1 + s >= 1 /\ 1 + t >= 1 /\ 1 + s <= e /\ 1 + t <= e
              /\ (1 + s) - 1 = s /\ (1 + t) - 1 = t
          BY <1>1
        <5> QED BY <1>2, <4>1, <5>1
      <4>3. 0 \in NStates(m) /\ e - 1 \in NStates(m) /\ 1 \in Nat
        BY <1>1
      <4>4. Way(u, w, g, 1 + 0, h, 1 + (e - 1))
        BY <3>2, <3>4, <4>1, <4>2, <4>3, WayWithin
      <4>5. 1 + 0 = 1 /\ 1 + (e - 1) = e
        BY <1>1
      <4> QED BY <4>4, <4>5
    <3> QED BY <3>3, <3>5, WaysMeet
  <2> QED BY <2>1, <2>3
<1>8. PICK k \in 0 .. MaxLen : Part(w, i, j) \in RepeatWords(A, k)
  BY DEF StarWords
<1>9. k \in K
  <2> HIDE DEF K
  <2>1. 0 .. MaxLen \subseteq K
    BY <1>1, <1>6, <1>7, UpTo
  <2> QED BY <2>1
<1>10. j = i \/ Way(u, w, i, 0, j, e)
  BY <1>8, <1>9
<1>11. Way(u, w, i, 0, j, e + 1)
  <2>1. CASE j = i
    BY <1>5, <2>1
  <2>2. CASE Way(u, w, i, 0, j, e)
    BY <1>5, <2>2, WaysMeet
  <2> QED BY <1>10, <2>1, <2>2
<1> QED BY <1>11 DEF u, e

\* star.
LEMMA StarMeans ==
    ASSUME NEW m \in Fragments, NEW A, Means(m, A)
    PROVE  Means(Star(m), StarWords(A))
<1>1. /\ A \in SUBSET Words
      /\ m = NoStates => m.n = 0 /\ A = {<<>>}
      /\ m # NoStates => m \in Pieces /\ m.n # 0 /\ Exact(m, A)
  BY FragmentMeans
<1>2. StarWords(A) \in SUBSET Words
  BY <1>1, StarGrows
<1>3. Star(m).n # 0
  <2>1. Star(m) \in Pieces
    BY StarIsPiece
  <2>2. Star(m).n \in Nat /\ Star(m).n > 1
    BY <2>1, PieceFacts
  <2> QED BY <2>2
<1>4. CASE m = NoStates
  <2> DEFINE F == {0}
             pairs == {<<s, Single1.n>> : s \in F}
  <2>1. ConcatHelper(Single1, m, NStart, TRUE) = Single1
    BY <1>1, <1>4 DEF ConcatHelper
  <2>2. Single1.n = 1 /\ NStop(Single1) = 0 /\ NStates(Single1) = {0} /\ Single1 \in WithStates
    BY OneIsFan DEF Fans
  <2>3. StarEdges(NStop(Single1), Single1.n) = pairs
    BY <2>2 DEF StarEdges, NStart
  <2>4. Star(m) = WithEpsilons(Grown(Single1, 1), pairs)
    <3>1. Star(m) = WithEpsilons(Grown(ConcatHelper(Single1, m, NStart, TRUE), 1),
                                 StarEdges(NStop(ConcatHelper(Single1, m, NStart, TRUE)),
                                           ConcatHelper(Single1, m, NStart, TRUE).n))
      BY DEF Star, Single1
    <3> HIDE DEF pairs
    <3> QED BY <2>1, <2>3, <3>1
  <2>5. StarWords(A) = {<<>>}
    BY <1>1, <1>4, StarOfEmpty
  <2>6. ASSUME NEW w \in Words, NEW i \in 0 .. Len(w), NEW j \in 0 .. Len(w), i <= j
        PROVE  Reads(Star(m), w, i, j) <=> Part(w, i, j) \in {<<>>}
    <3>1. F \in SUBSET NStates(Single1)
      BY <2>2
    <3>2. Reads(Star(m), w, i, j) <=> \E s \in F : Way(Single1, w, i, 0, j, s)
      <4> HIDE DEF F
      <4> QED BY <2>2, <2>4, <3>1, CapReads
    <3>3. Way(Single1, w, i, 0, j, 0) <=> j = i
      BY OneReads
    <3>4. Part(w, i, j) = <<>> <=> i = j
      BY <2>6, EmptyPart
    <3> QED BY <3>2, <3>3, <3>4
  <2>7. Exact(Star(m), StarWords(A))
    BY <2>5, <2>6 DEF Exact
  <2> QED BY <1>2, <1>3, <2>7 DEF Means
<1>5. CASE m # NoStates
  <2>1. m \in Pieces /\ Exact(m, A)
    BY <1>1, <1>5
  <2>2. NStop(Star(m)) = m.n + 1
    <3>1. Star(m).n = m.n + 2
      BY <2>1, StarPasses
    <3>2. m.n \in Nat
      BY <2>1, PieceFacts
    <3> QED BY <3>1, <3>2 DEF NStop
  <2>3. ASSUME NEW w \in Words, NEW i \in 0 .. Len(w), NEW j \in 0 .. Len(w), i <= j
        PROVE  Reads(Star(m), w, i, j) <=> Part(w, i, j) \in StarWords(A)
    <3>1. Reads(Star(m), w, i, j) <=> Way(Star(m), w, i, 0, j, m.n + 1)
      BY <2>2 DEF Reads
    <3> QED BY <1>1, <2>1, <2>3, <3>1, StarReadsOnly, StarReadsAll
  <2>4. Exact(Star(m), StarWords(A))
    BY <2>3 DEF Exact
  <2> QED BY <1>2, <1>3, <2>4 DEF Means
<1> QED BY <1>4, <1>5

\* plus.
LEMMA PlusMeans ==
    ASSUME NEW m \in Fragments, NEW A, Means(m, A)
    PROVE  Means(Plus(m), ConcatWords(A, StarWords(A)))
<1>1. Star(m) \in Fragments
  BY StarIsPiece DEF Fragments
<1>2. Means(Star(m), StarWords(A))
  BY StarMeans
<1> QED BY <1>1, <1>2, ConcatMeans DEF Plus

\* question_mark.
LEMMA QuestionMeans ==
    ASSUME NEW m \in Fragments, NEW A, Means(m, A)
    PROVE  Means(QuestionMark(m), A \cup {<<>>})
<1> DEFINE nfas == <<Epsilon, m>>
           langs == <<{<<>>}, A>>
           U == UNION {langs[b] : b \in {c \in 1 .. Len(nfas) : c = 1 \/ nfas[c].n # 0}}
<1>1. nfas \in Seq(Fragments) /\ nfas # <<>> /\ Len(nfas) = 2
  BY EpsilonIsPiece DEF Fragments
<1>2. \A b \in 1 .. Len(nfas) : Means(nfas[b], langs[b])
  <2>1. \A b \in 1 .. Len(nfas) : b = 1 \/ b = 2
    BY <1>1
  <2>2. nfas[1] = Epsilon /\ langs[1] = {<<>>} /\ nfas[2] = m /\ langs[2] = A
    OBVIOUS
  <2>3. Means(nfas[1], langs[1]) /\ Means(nfas[2], langs[2])
    BY <2>2, EpsilonMeans
  <2> HIDE DEF nfas, langs
  <2> QED BY <2>1, <2>3
<1>3. Means(Alternation(nfas), U)
  <2> HIDE DEF nfas, langs
  <2> QED BY <1>1, <1>2, AlternationMeans
<1>4. U = A \cup {<<>>}
  <2>1. m.n = 0 => A = {<<>>}
    BY DEF Means
  <2>2. \A x : x \in U <=> \E b \in 1 .. 2 : (b = 1 \/ nfas[b].n # 0) /\ x \in langs[b]
    BY <1>1
  <2>3. \A x : x \in U <=> (x = <<>> \/ (m.n # 0 /\ x \in A))
    <3>1. /\ nfas[2] = m /\ langs[1] = {<<>>} /\ langs[2] = A
          /\ \A b \in 1 .. 2 : b = 1 \/ b = 2
      OBVIOUS
    <3> HIDE DEF U, nfas, langs
    <3> QED BY <2>2, <3>1
  <2> HIDE DEF U
  <2> QED BY <2>1, <2>3
<1> QED BY <1>3, <1>4 DEF QuestionMark

\* The recursive function of After.
LEMMA AfterRec ==
    ASSUME NEW m \in WithStates, NEW w \in Words
    PROVE  \E f :
               /\ After(m, w) = f[Len(w)] /\ f[0] = Closed(m, {NStart})
               /\ \A k \in 0 .. Len(w) : f[k] \in SUBSET NStates(m)
               /\ \A k \in 1 .. Len(w) : f[k] = Closed(m, Move(m, f[k - 1], w[k]))
<1> DEFINE n == Len(w)
           V == SUBSET NStates(m)
           b == Closed(m, {NStart})
           g == [k \in 1 .. n |-> [S \in V |-> Closed(m, Move(m, S, w[k]))]]
           Good(f) == f = [k \in 0 .. n |-> IF k = 0 THEN b
                                            ELSE Closed(m, Move(m, f[k - 1], w[k]))]
           F == CHOOSE f : Good(f)
<1>1. n \in Nat
  BY WordFacts
<1>2. After(m, w) = F[n]
  BY DEF After
<1>3. b \in V /\ \A S, c : Closed(m, Move(m, S, c)) \in V
  <2>1. m.n \in Nat /\ m.eps \subseteq NStates(m) \X NStates(m) /\ NStart \in NStates(m)
    BY NfaFacts
  <2>2. \A S, c : Move(m, S, c) \in V
    BY DEF Move
  <2> QED BY <2>1, <2>2, ClosedFacts
<1> HIDE DEF V, b, n
<1>4. g \in [1 .. n -> [V -> V]]
  BY <1>3
<1>5. PICK f \in [0 .. n -> V] : f[0] = b /\ \A k \in 1 .. n : f[k] = g[k][f[k - 1]]
  <2>1. Recursive(n, V, b, g)
    <3> HIDE DEF g
    <3> QED BY <1>1, <1>3, <1>4, Recursion
  <2> HIDE DEF g
  <2> QED BY <2>1 DEF Recursive
<1>6. \A k \in 1 .. n : f[k] = Closed(m, Move(m, f[k - 1], w[k]))
  <2> SUFFICES ASSUME NEW k \in 1 .. n PROVE f[k] = Closed(m, Move(m, f[k - 1], w[k]))
    OBVIOUS
  <2>1. f[k - 1] \in V
    BY <1>1, <1>5
  <2> QED BY <1>5, <2>1
<1>7. Good(f)
  <2>1. \A k \in 0 .. n : f[k] = IF k = 0 THEN b ELSE Closed(m, Move(m, f[k - 1], w[k]))
    BY <1>1, <1>5, <1>6
  <2> QED BY <1>5, <2>1
<1>8. Good(F)
  <2> HIDE DEF Good
  <2> QED BY <1>7
<1>9. \A k \in 0 .. n : F[k] = IF k = 0 THEN b ELSE Closed(m, Move(m, F[k - 1], w[k]))
  BY <1>8
<1>10. \A k \in 1 .. n : F[k] = Closed(m, Move(m, F[k - 1], w[k]))
  <2>1. \A k \in 1 .. n : k \in 0 .. n /\ k # 0
    BY <1>1
  <2> HIDE DEF F
  <2> QED BY <1>9, <2>1
<1>11. F[0] = b /\ \A k \in 0 .. n : F[k] \in V
  <2> HIDE DEF F
  <2> QED BY <1>1, <1>3, <1>9
<1> HIDE DEF F
<1> QED BY <1>2, <1>10, <1>11 DEF V, b, n

\* The sets of states After computes are those ways lead to.
LEMMA AfterIsWays ==
    ASSUME NEW m \in WithStates, NEW w \in Words, NEW t \in NStates(m)
    PROVE  t \in After(m, w) <=> Way(m, w, 0, 0, Len(w), t)
<1> DEFINE n == Len(w)
           N == NStates(m)
<1>1. n \in Nat
  BY WordFacts
<1>2. /\ m.n \in Nat /\ m.eps \subseteq N \X N /\ 0 \in N /\ NStart = 0
      /\ \A a, b : <<a, b>> \in m.eps => a \in N /\ b \in N
  BY NfaFacts DEF NStart
<1>3. PICK f :
          /\ After(m, w) = f[n] /\ f[0] = Closed(m, {NStart})
          /\ \A k \in 0 .. n : f[k] \in SUBSET N
          /\ \A k \in 1 .. n : f[k] = Closed(m, Move(m, f[k - 1], w[k]))
  BY AfterRec
<1>4. /\ 0 \in f[0] /\ EpsClosed(m, f[0])
      /\ \A T \in SUBSET N : 0 \in T /\ EpsClosed(m, T) => f[0] \subseteq T
  <2>1. {NStart} \in SUBSET N
    BY <1>2
  <2> QED BY <1>2, <1>3, <2>1, ClosedFacts
<1>5. ASSUME NEW k \in 1 .. n
      PROVE  LET S == Move(m, f[k - 1], w[k])
             IN  /\ S \subseteq f[k] /\ EpsClosed(m, f[k])
                 /\ \A T \in SUBSET N : S \subseteq T /\ EpsClosed(m, T) => f[k] \subseteq T
  <2> DEFINE S == Move(m, f[k - 1], w[k])
  <2>1. S \in SUBSET N
    BY DEF Move
  <2>2. f[k] = Closed(m, S)
    BY <1>3
  <2> HIDE DEF S
  <2>3. /\ S \subseteq f[k] /\ EpsClosed(m, f[k])
        /\ \A T \in SUBSET N : S \subseteq T /\ EpsClosed(m, T) => f[k] \subseteq T
    BY <1>2, <2>1, <2>2, ClosedFacts
  <2> QED BY <2>3 DEF S
<1>6. ASSUME Way(m, w, 0, 0, n, t) PROVE t \in f[n]
  <2> DEFINE R == {x \in Places(m, w) : x[2] \in f[x[1]]}
  <2>1. \A k \in 0 .. n, s \in N : <<k, s>> \in R <=> s \in f[k]
    BY DEF Places
  <2>2. R \in SUBSET Places(m, w)
    OBVIOUS
  <2> HIDE DEF R
  <2>3. Onward(m, w, R)
    <3> SUFFICES ASSUME NEW h \in 0 .. n, NEW k \in 0 .. n, NEW s \in N, NEW v \in N,
                        s \in f[h], Passes(m, w, h, s, k, v)
                 PROVE  v \in f[k]
      BY <2>1 DEF Onward
    <3>1. CASE k = h /\ <<s, v>> \in m.eps
      <4>1. EpsClosed(m, f[h])
        <5>1. h = 0 \/ h \in 1 .. n
          BY <1>1
        <5> QED BY <1>4, <1>5, <5>1
      <4> QED BY <3>1, <4>1 DEF EpsClosed
    <3>2. CASE k = h + 1 /\ w[k] \in m.edges[s][v]
      <4>1. k \in 1 .. n /\ k - 1 = h
        BY <1>1, <3>2
      <4>2. v \in Move(m, f[k - 1], w[k])
        BY <3>2, <4>1 DEF Move
      <4> QED BY <1>5, <4>1, <4>2
    <3> QED BY <3>1, <3>2 DEF Passes
  <2>4. <<0, 0>> \in R
    BY <1>1, <1>2, <1>4, <2>1
  <2>5. <<n, t>> \in R
    BY <1>6, <2>2, <2>3, <2>4 DEF Way
  <2> QED BY <1>1, <2>1, <2>5
<1> DEFINE T(k) == {s \in N : Way(m, w, 0, 0, k, s)}
           K == {k \in 0 .. n : f[k] \subseteq T(k)}
<1>7. ASSUME NEW k \in 0 .. n PROVE EpsClosed(m, T(k))
  <2> SUFFICES ASSUME NEW e \in m.eps, e[1] \in T(k) PROVE e[2] \in T(k)
    BY DEF EpsClosed
  <2>1. e = <<e[1], e[2]>> /\ e[1] \in N /\ e[2] \in N
    BY <1>2
  <2>2. Passes(m, w, k, e[1], k, e[2])
    BY <2>1 DEF Passes
  <2>3. Way(m, w, 0, 0, k, e[2])
    BY <2>1, <2>2, WayOn
  <2> QED BY <2>1, <2>3
<1>8. 0 .. n \subseteq K
  <2>1. 0 \in K
    <3>1. 0 \in 0 .. n
      BY <1>1
    <3>2. 0 \in T(0)
      BY <1>2, WayHere
    <3>3. T(0) \in SUBSET N
      OBVIOUS
    <3> QED BY <1>4, <1>7, <3>1, <3>2, <3>3
  <2>2. ASSUME NEW k \in 0 .. (n - 1), k \in K PROVE k + 1 \in K
    <3>1. k + 1 \in 0 .. n /\ k + 1 \in 1 .. n /\ (k + 1) - 1 = k /\ k \in 0 .. n
      BY <1>1
    <3>2. ASSUME NEW v \in Move(m, f[k], w[k + 1]) PROVE v \in T(k + 1)
      <4>1. PICK s \in f[k] : w[k + 1] \in m.edges[s][v] /\ v \in N
        BY DEF Move
      <4>2. s \in N /\ Way(m, w, 0, 0, k, s)
        BY <2>2, <4>1
      <4>3. Passes(m, w, k, s, k + 1, v)
        BY <4>1 DEF Passes
      <4>4. Way(m, w, 0, 0, k + 1, v)
        BY <3>1, <4>1, <4>2, <4>3, WayOn
      <4> QED BY <4>1, <4>4
    <3>3. T(k + 1) \in SUBSET N /\ EpsClosed(m, T(k + 1))
      BY <1>7, <3>1
    <3> HIDE DEF T
    <3> QED BY <1>5, <3>1, <3>2, <3>3
  <2> HIDE DEF K
  <2> QED BY <1>1, <2>1, <2>2, UpTo
<1>9. ASSUME t \in f[n] PROVE Way(m, w, 0, 0, n, t)
  BY <1>1, <1>8, <1>9
<1> QED BY <1>3, <1>6, <1>9

\* The language of a piece is what it means.
LEMMA LanguageIsMeant ==
    ASSUME NEW m \in Pieces, NEW A \in SUBSET Words, Exact(m, A)
    PROVE  LanguageOf(m, Words) = A
<1>1. m \in WithStates /\ m.n # 0 /\ NStop(m) \in NStates(m)
  <2>1. m \in WithStates /\ m.n \in Nat /\ m.n > 1
    BY PieceFacts
  <2> QED BY <2>1, NfaFacts
<1>2. ASSUME NEW w \in Words PROVE NStop(m) \in After(m, w) <=> w \in A
  <2>1. Part(w, 0, Len(w)) = w /\ Len(w) \in Nat
    BY WordFacts
  <2>2. 0 \in 0 .. Len(w) /\ Len(w) \in 0 .. Len(w) /\ 0 <= Len(w)
    BY <2>1
  <2>3. Reads(m, w, 0, Len(w)) <=> w \in A
    BY <2>1, <2>2 DEF Exact
  <2> QED BY <1>1, <2>3, AfterIsWays DEF Reads
<1> QED BY <1>1, <1>2 DEF LanguageOf

-----------------------------------------------------------------------------
(* Which of the builders' NFAs have states. *)

\* All but NoStates.
LEMMA OnlyNoStates ==
    ASSUME NEW m \in Fragments
    PROVE  /\ m.n = 0 <=> m = NoStates
           /\ m.n # 0 <=> m \in Pieces
<1>1. NoStates.n = 0
  BY DEF NoStates
<1>2. ASSUME m \in Pieces PROVE m.n # 0 /\ m # NoStates
  <2>1. m.n \in Nat /\ m.n > 1 /\ m # NoStates
    BY <1>2, PieceFacts
  <2> QED BY <2>1
<1> QED BY <1>1, <1>2 DEF Fragments

\* Two in a row if one of them has.
LEMMA RowHasStates ==
    ASSUME NEW l \in Fragments, NEW r \in Fragments, Concat(l, r).n = 0
    PROVE  l.n = 0 /\ r.n = 0
<1>1. CASE r.n = 0
  BY <1>1 DEF Concat, ConcatHelper
<1>2. CASE r.n # 0 /\ l.n = 0
  BY <1>2 DEF Concat, ConcatHelper
<1>3. CASE r.n # 0 /\ l.n # 0
  <2>1. Concat(l, r) \in Pieces
    BY <1>3, OnlyNoStates, RowIsPiece
  <2>2. Concat(l, r) \in Fragments
    BY <2>1 DEF Fragments
  <2> QED BY <2>1, <2>2, OnlyNoStates
<1> QED BY <1>1, <1>2, <1>3

\* A branch if one of its elements has.
LEMMA ManyHaveStates ==
    ASSUME NEW nfas \in Seq(Fragments), nfas # <<>>, ConcatMany(nfas).n = 0,
           NEW b \in 1 .. Len(nfas)
    PROVE  nfas[b].n = 0
<1> DEFINE n == Len(nfas)
           l == n - 1
<1>1. n \in Nat /\ n > 0 /\ \A i \in 1 .. n : nfas[i] \in Fragments
  OBVIOUS
<1>2. l \in Nat /\ n = l + 1
  BY <1>1
<1>3. PICK F : /\ ConcatMany(nfas) = F[n]
               /\ \A k \in 1 .. n : F[k] = IF k = 1 THEN nfas[1] ELSE Concat(F[k - 1], nfas[k])
  BY ManyRec
<1> HIDE DEF n, l
<1> DEFINE K == {k \in 0 .. l : /\ F[k + 1] \in Fragments
                                /\ F[k + 1].n = 0 => \A i \in 1 .. (k + 1) : nfas[i].n = 0}
<1>4. 0 \in K
  <2>1. 1 \in 1 .. n /\ 0 + 1 = 1 /\ 0 \in 0 .. l
    BY <1>1, <1>2
  <2>2. F[1] = nfas[1]
    BY <1>3, <2>1
  <2>3. \A i \in 1 .. 1 : i = 1
    OBVIOUS
  <2> QED BY <1>1, <2>1, <2>2, <2>3
<1>5. ASSUME NEW k \in 0 .. (l - 1), k \in K PROVE k + 1 \in K
  <2>1. (k + 1) + 1 \in 1 .. n /\ (k + 1) + 1 # 1 /\ ((k + 1) + 1) - 1 = k + 1
        /\ k + 1 \in 0 .. l
    BY <1>2
  <2>2. F[(k + 1) + 1] = Concat(F[k + 1], nfas[(k + 1) + 1])
    BY <1>3, <2>1
  <2>3. F[k + 1] \in Fragments /\ nfas[(k + 1) + 1] \in Fragments
    BY <1>1, <1>5, <2>1
  <2>4. F[(k + 1) + 1] \in Fragments
    BY <2>2, <2>3, RowIsFragment
  <2>5. F[(k + 1) + 1].n = 0 => F[k + 1].n = 0 /\ nfas[(k + 1) + 1].n = 0
    BY <2>2, <2>3, RowHasStates
  <2>6. \A i \in 1 .. ((k + 1) + 1) : i \in 1 .. (k + 1) \/ i = (k + 1) + 1
    OBVIOUS
  <2> QED BY <1>5, <2>1, <2>4, <2>5, <2>6
<1>6. l \in K
  <2> HIDE DEF K
  <2>1. 0 .. l \subseteq K
    BY <1>2, <1>4, <1>5, UpTo
  <2> QED BY <1>2, <2>1
<1>7. b \in 1 .. (l + 1)
  BY <1>2 DEF n
<1> QED BY <1>2, <1>3, <1>6, <1>7

\* Copies of one that has, unless there are none.
LEMMA CopiesHaveStates ==
    ASSUME NEW m \in Fragments, NEW n \in Nat, Copies(m, n).n = 0
    PROVE  n = 0 \/ m.n = 0
<1> SUFFICES ASSUME n # 0 PROVE m.n = 0
  OBVIOUS
<1>1. PICK F : /\ Copies(m, n) = F[n]
               /\ \A i \in 0 .. n : F[i] = IF i = 0 THEN NoStates ELSE Concat(F[i - 1], m)
  BY CopiesRec
<1> DEFINE K == {i \in 0 .. n : F[i] \in Fragments}
<1>2. 0 \in K
  <2>1. F[0] = NoStates
    BY <1>1
  <2> QED BY <2>1 DEF Fragments
<1>3. ASSUME NEW i \in 0 .. (n - 1), i \in K PROVE i + 1 \in K
  <2>1. i + 1 \in 0 .. n /\ i + 1 # 0 /\ (i + 1) - 1 = i
    OBVIOUS
  <2>2. F[i + 1] = Concat(F[i], m)
    BY <1>1, <2>1
  <2> QED BY <1>3, <2>1, <2>2, RowIsFragment
<1>4. 0 .. n \subseteq K
  <2> HIDE DEF K
  <2> QED BY <1>2, <1>3, UpTo
<1>5. F[n - 1] \in Fragments
  BY <1>4
<1>6. F[n] = Concat(F[n - 1], m)
  BY <1>1
<1> QED BY <1>1, <1>5, <1>6, RowHasStates

\* No copies are the NFA without states.
LEMMA NoCopies ==
    ASSUME NEW m \in Fragments
    PROVE  Copies(m, 0) = NoStates
BY CopiesRec

\* And everything with a star, a plus or a question mark.
LEMMA QuantifiedHaveStates ==
    ASSUME NEW m \in Fragments
    PROVE  Star(m).n # 0 /\ Plus(m).n # 0 /\ QuestionMark(m).n # 0
<1>1. Star(m) \in Fragments /\ Star(m) \in Pieces /\ Epsilon \in Fragments
  BY StarIsPiece, EpsilonIsPiece DEF Fragments
<1>2. Star(m).n # 0
  BY <1>1, OnlyNoStates
<1>3. Plus(m).n # 0
  BY <1>1, <1>2, RowHasStates DEF Plus
<1>4. QuestionMark(m).n # 0
  <2>1. <<Epsilon, m>> \in Seq(Fragments) /\ <<Epsilon, m>> # <<>> /\ Len(<<Epsilon, m>>) # 1
    BY <1>1
  <2>2. QuestionMark(m) \in Pieces
    BY <2>1, AlternationIsPiece DEF QuestionMark
  <2>3. QuestionMark(m) \in Fragments
    BY <2>2 DEF Fragments
  <2> QED BY <2>2, <2>3, OnlyNoStates
<1> QED BY <1>2, <1>3, <1>4

-----------------------------------------------------------------------------
(* Cycles of epsilon edges.  An NFA has none if its states can be ranked so *)
(* that ranks fall along its epsilon edges; the ranks of what a builder     *)
(* makes are put together from those of what it is made of.                 *)

\* Ranks fall along epsilon edges.
Falls(m, r) == \A s, t \in NStates(m) : <<s, t>> \in m.eps => r[t] < r[s]
Acyclic(m) == \E r \in [NStates(m) -> Nat] : Falls(m, r)

\* Reading nothing is passing over an epsilon edge.
LEMMA PassesNothing ==
    ASSUME NEW m, NEW s, NEW t
    PROVE  Passes(m, <<>>, 0, s, 0, t) <=> <<s, t>> \in m.eps
BY DEF Passes

\* NFAs without epsilon edges, among them the one without states.
LEMMA NoEpsAcyclic ==
    ASSUME NEW m, m.eps = {}
    PROVE  Acyclic(m)
<1> DEFINE r == [s \in NStates(m) |-> 0]
<1>1. r \in [NStates(m) -> Nat]
  OBVIOUS
<1>2. Falls(m, r)
  BY DEF Falls
<1> QED BY <1>1, <1>2 DEF Acyclic

\* What has no cycle is made of parts that have none.
LEMMA PartAcyclic ==
    ASSUME NEW m \in WithStates, NEW u \in WithStates, NEW z \in Nat, z + m.n <= u.n,
           \A s, t \in NStates(m) : <<s, t>> \in m.eps => <<z + s, z + t>> \in u.eps,
           Acyclic(u)
    PROVE  Acyclic(m)
<1>1. PICK q \in [NStates(u) -> Nat] : Falls(u, q)
  BY DEF Acyclic
<1>2. /\ m.n \in Nat /\ NStates(m) = 0 .. (m.n - 1)
      /\ u.n \in Nat /\ NStates(u) = 0 .. (u.n - 1)
  BY NfaFacts
<1>3. \A s \in NStates(m) : z + s \in NStates(u)
  BY <1>2
<1> DEFINE r == [s \in NStates(m) |-> q[z + s]]
<1>4. r \in [NStates(m) -> Nat]
  BY <1>1, <1>3
<1>5. Falls(m, r)
  <2> SUFFICES ASSUME NEW s \in NStates(m), NEW t \in NStates(m), <<s, t>> \in m.eps
               PROVE  r[t] < r[s]
    BY DEF Falls
  <2>1. q[z + t] < q[z + s]
    BY <1>1, <1>3 DEF Falls
  <2> QED BY <2>1
<1> QED BY <1>4, <1>5 DEF Acyclic

\* Two in a row: a cycle does not pass the state where they meet.
LEMMA RowAcyclic ==
    ASSUME NEW left \in Fragments, NEW right \in Fragments
    PROVE  Acyclic(Concat(left, right)) <=> Acyclic(left) /\ Acyclic(right)
<1> DEFINE u == Concat(left, right)
           z == left.n - 1
<1>1. CASE right.n = 0
  <2>1. u = left
    BY <1>1 DEF Concat, ConcatHelper
  <2>2. Acyclic(right)
    BY <1>1, OnlyNoStates, NoEpsAcyclic DEF NoStates
  <2> QED BY <2>1, <2>2
<1>2. CASE left.n = 0 /\ right.n # 0
  <2>1. u = right
    BY <1>2 DEF Concat, ConcatHelper
  <2>2. Acyclic(left)
    BY <1>2, OnlyNoStates, NoEpsAcyclic DEF NoStates
  <2> QED BY <2>1, <2>2
<1>3. CASE left.n # 0 /\ right.n # 0
  <2>1. /\ left \in WithStates /\ left.n \in Nat /\ left.n > 1 /\ NStates(left) = 0 .. z
        /\ right \in WithStates /\ right.n \in Nat /\ right.n > 1
        /\ NStates(right) = 0 .. (right.n - 1) /\ NoExit(left) /\ NoEntry(right)
    BY <1>3, OnlyNoStates, PieceFacts
  <2>2. /\ u \in WithStates /\ u.n = z + right.n
        /\ \A s, t \in NStates(u) :
               <<s, t>> \in u.eps <=>
                   \/ s <= z /\ t <= z /\ <<s, t>> \in left.eps
                   \/ s >= z /\ t >= z /\ <<s - z, t - z>> \in right.eps
    BY <2>1, RowPasses, PassesNothing
  <2>3. z \in Nat /\ NStates(u) = 0 .. (u.n - 1)
    <3>1. z \in Nat
      BY <2>1
    <3> HIDE DEF u, z
    <3> QED BY <2>2, <3>1, NfaFacts
  <2> HIDE DEF u, z
  <2>4. ASSUME Acyclic(u) PROVE Acyclic(left)
    <3>1. ASSUME NEW s \in NStates(left), NEW t \in NStates(left), <<s, t>> \in left.eps
          PROVE  <<0 + s, 0 + t>> \in u.eps
      <4>1. s \in NStates(u) /\ t \in NStates(u) /\ s <= z /\ t <= z
        BY <2>1, <2>2, <2>3
      <4>2. 0 + s = s /\ 0 + t = t
        BY <2>1, <2>3
      <4> QED BY <2>2, <3>1, <4>1, <4>2
    <3>2. 0 + left.n <= u.n
      BY <2>1, <2>2 DEF z
    <3> QED BY <2>1, <2>2, <2>4, <3>1, <3>2, PartAcyclic
  <2>5. ASSUME Acyclic(u) PROVE Acyclic(right)
    <3>1. ASSUME NEW s \in NStates(right), NEW t \in NStates(right), <<s, t>> \in right.eps
          PROVE  <<z + s, z + t>> \in u.eps
      <4>1. z + s \in NStates(u) /\ z + t \in NStates(u)
        BY <2>1, <2>2, <2>3
      <4>2. (z + s) - z = s /\ (z + t) - z = t /\ z + s >= z /\ z + t >= z
        BY <2>1, <2>3
      <4> QED BY <2>2, <3>1, <4>1, <4>2
    <3>2. z + right.n <= u.n
      BY <2>1, <2>2, <2>3
    <3> QED BY <2>1, <2>2, <2>3, <2>5, <3>1, <3>2, PartAcyclic
  <2>6. ASSUME Acyclic(left), Acyclic(right) PROVE Acyclic(u)
    <3>1. PICK p \in [NStates(left) -> Nat] : Falls(left, p)
      BY <2>6 DEF Acyclic
    <3>2. PICK q \in [NStates(right) -> Nat] : Falls(right, q)
      BY <2>6 DEF Acyclic
    <3>3. 0 \in NStates(right) /\ q[0] \in Nat /\ z \in NStates(left) /\ p[z] \in Nat
      BY <2>1, <2>3, <3>1, <3>2
    <3> DEFINE r == [s \in NStates(u) |-> IF s <= z THEN p[s] + q[0] ELSE q[s - z]]
    <3>4. \A s \in NStates(u) : IF s <= z THEN s \in NStates(left) /\ p[s] \in Nat
                                          ELSE s - z \in NStates(right) /\ q[s - z] \in Nat
      BY <2>1, <2>2, <2>3, <3>1, <3>2
    <3>5. r \in [NStates(u) -> Nat]
      BY <2>3, <3>3, <3>4
    <3>6. ASSUME NEW s \in NStates(u), NEW t \in NStates(u), <<s, t>> \in u.eps
          PROVE  r[t] < r[s]
      <4>1. CASE s <= z /\ t <= z /\ <<s, t>> \in left.eps
        <5>1. p[t] < p[s] /\ p[t] \in Nat /\ p[s] \in Nat
          BY <3>1, <3>4, <4>1 DEF Falls
        <5> QED BY <3>3, <4>1, <5>1
      <4>2. CASE s >= z /\ t >= z /\ <<s - z, t - z>> \in right.eps
        <5>1. s - z \in NStates(right) /\ t - z \in NStates(right)
          BY <2>1, <4>2, NfaFacts
        <5>2. q[t - z] < q[s - z] /\ q[t - z] \in Nat /\ q[s - z] \in Nat
          BY <3>2, <4>2, <5>1 DEF Falls
        <5>3. t # z
          <6>1. t = z => t - z = 0
            BY <2>3
          <6> QED BY <2>1, <4>2, <5>1, <6>1 DEF NoEntry, Joins, NStart
        <5>4. t > z /\ r[t] = q[t - z]
          BY <2>3, <4>2, <5>3
        <5>5. CASE s = z
          <6>1. r[s] = p[z] + q[0] /\ s - z = 0
            BY <2>3, <5>5
          <6> QED BY <3>3, <5>2, <5>4, <6>1
        <5>6. CASE s > z
          BY <2>3, <5>2, <5>4, <5>6
        <5> QED BY <2>3, <4>2, <5>5, <5>6
      <4> QED BY <2>2, <3>6, <4>1, <4>2
    <3>7. Falls(u, r)
      BY <3>6 DEF Falls
    <3> QED BY <3>5, <3>7 DEF Acyclic
  <2> QED BY <2>4, <2>5, <2>6 DEF u
<1> QED BY <1>1, <1>2, <1>3

\* Side by side: no epsilon edge leads back from the branch hung on.
LEMMA HungAcyclic ==
    ASSUME NEW left \in Fans, NEW right \in Fragments
    PROVE  Acyclic(ConcatHelper(left, right, NStart, TRUE)) <=> Acyclic(left) /\ Acyclic(right)
<1> DEFINE u == ConcatHelper(left, right, NStart, TRUE)
           z == left.n
<1>1. CASE right.n = 0
  <2>1. u = left
    BY <1>1 DEF ConcatHelper
  <2>2. Acyclic(right)
    BY <1>1, OnlyNoStates, NoEpsAcyclic DEF NoStates
  <2> QED BY <2>1, <2>2
<1>2. CASE right.n # 0
  <2>1. /\ left \in WithStates /\ z \in Nat /\ z > 0 /\ NStates(left) = 0 .. (z - 1)
        /\ right \in WithStates /\ right.n \in Nat /\ right.n > 1
        /\ NStates(right) = 0 .. (right.n - 1)
    <3>1. left \in WithStates /\ right \in Pieces
      BY <1>2, OnlyNoStates DEF Fans
    <3>2. z \in Nat /\ z > 0 /\ NStates(left) = 0 .. (z - 1)
      BY <3>1, NfaFacts
    <3> QED BY <3>1, <3>2, PieceFacts
  <2>2. /\ u \in WithStates /\ u.n = z + right.n
        /\ \A s, t \in NStates(u) :
               <<s, t>> \in u.eps <=>
                   \/ s < z /\ t < z /\ <<s, t>> \in left.eps
                   \/ s = 0 /\ t = z
                   \/ s >= z /\ t >= z /\ <<s - z, t - z>> \in right.eps
    <3>1. /\ u \in WithStates /\ u.n = z + right.n
          /\ \A s, t \in NStates(u) : \A w, i, j :
                 Passes(u, w, i, s, j, t) <=>
                     \/ s < z /\ t < z /\ Passes(left, w, i, s, j, t)
                     \/ s = 0 /\ t = z /\ j = i
                     \/ s >= z /\ t >= z /\ Passes(right, w, i, s - z, j, t - z)
      BY <2>1, BesidePasses
    <3> HIDE DEF u, z
    <3>2. \A s, t \in NStates(u) :
              Passes(u, <<>>, 0, s, 0, t) <=>
                  \/ s < z /\ t < z /\ Passes(left, <<>>, 0, s, 0, t)
                  \/ s = 0 /\ t = z
                  \/ s >= z /\ t >= z /\ Passes(right, <<>>, 0, s - z, 0, t - z)
      BY <3>1
    <3> QED BY <3>1, <3>2, PassesNothing
  <2>3. NStates(u) = 0 .. (u.n - 1)
    BY <2>1, <2>2, NfaFacts
  <2> HIDE DEF u, z
  <2>4. ASSUME Acyclic(u) PROVE Acyclic(left)
    <3>1. ASSUME NEW s \in NStates(left), NEW t \in NStates(left), <<s, t>> \in left.eps
          PROVE  <<0 + s, 0 + t>> \in u.eps
      <4>1. s \in NStates(u) /\ t \in NStates(u) /\ s < z /\ t < z
        BY <2>1, <2>2, <2>3
      <4>2. 0 + s = s /\ 0 + t = t
        BY <2>1, <2>3
      <4> QED BY <2>2, <3>1, <4>1, <4>2
    <3>2. 0 + left.n <= u.n
      BY <2>1, <2>2 DEF z
    <3> QED BY <2>1, <2>2, <2>4, <3>1, <3>2, PartAcyclic
  <2>5. ASSUME Acyclic(u) PROVE Acyclic(right)
    <3>1. ASSUME NEW s \in NStates(right), NEW t \in NStates(right), <<s, t>> \in right.eps
          PROVE  <<z + s, z + t>> \in u.eps
      <4>1. z + s \in NStates(u) /\ z + t \in NStates(u)
        BY <2>1, <2>2, <2>3
      <4>2. (z + s) - z = s /\ (z + t) - z = t /\ z + s >= z /\ z + t >= z
        BY <2>1
      <4> QED BY <2>2, <3>1, <4>1, <4>2
    <3>2. z + right.n <= u.n
      BY <2>1, <2>2
    <3> QED BY <2>1, <2>2, <2>5, <3>1, <3>2, PartAcyclic
  <2>6. ASSUME Acyclic(left), Acyclic(right) PROVE Acyclic(u)
    <3>1. PICK p \in [NStates(left) -> Nat] : Falls(left, p)
      BY <2>6 DEF Acyclic
    <3>2. PICK q \in [NStates(right) -> Nat] : Falls(right, q)
      BY <2>6 DEF Acyclic
    <3>3. 0 \in NStates(right) /\ q[0] \in Nat /\ 0 \in NStates(left) /\ p[0] \in Nat
      BY <2>1, <3>1, <3>2
    <3> DEFINE r == [s \in NStates(u) |-> IF s < z THEN p[s] + q[0] + 1 ELSE q[s - z]]
    <3>4. \A s \in NStates(u) : IF s < z THEN s \in NStates(left) /\ p[s] \in Nat
                                         ELSE s - z \in NStates(right) /\ q[s - z] \in Nat
      BY <2>1, <2>2, <2>3, <3>1, <3>2
    <3>5. r \in [NStates(u) -> Nat]
      BY <2>3, <3>3, <3>4
    <3>6. ASSUME NEW s \in NStates(u), NEW t \in NStates(u), <<s, t>> \in u.eps
          PROVE  r[t] < r[s]
      <4>1. CASE s < z /\ t < z /\ <<s, t>> \in left.eps
        <5>1. p[t] < p[s] /\ p[t] \in Nat /\ p[s] \in Nat
          BY <3>1, <3>4, <4>1 DEF Falls
        <5> QED BY <3>3, <4>1, <5>1
      <4>2. CASE s = 0 /\ t = z
        <5>1. r[t] = q[0] /\ r[s] = p[0] + q[0] + 1
          BY <2>1, <4>2
        <5> QED BY <3>3, <5>1
      <4>3. CASE s >= z /\ t >= z /\ <<s - z, t - z>> \in right.eps
        <5>1. s - z \in NStates(right) /\ t - z \in NStates(right)
          BY <2>1, <4>3, NfaFacts
        <5>2. q[t - z] < q[s - z]
          BY <3>2, <4>3, <5>1 DEF Falls
        <5>3. ~(s < z) /\ ~(t < z)
          BY <2>1, <2>3, <4>3
        <5> QED BY <5>2, <5>3
      <4> QED BY <2>2, <3>6, <4>1, <4>2, <4>3
    <3>7. Falls(u, r)
      BY <3>6 DEF Falls
    <3> QED BY <3>5, <3>7 DEF Acyclic
  <2> QED BY <2>4, <2>5, <2>6 DEF u
<1> QED BY <1>1, <1>2

\* A new state at the end, without a way back.
LEMMA CapAcyclic ==
    ASSUME NEW m \in WithStates, NEW F \in SUBSET NStates(m)
    PROVE  Acyclic(WithEpsilons(Grown(m, 1), {<<s, m.n>> : s \in F})) <=> Acyclic(m)
<1> DEFINE pairs == {<<s, m.n>> : s \in F}
           u == WithEpsilons(Grown(m, 1), pairs)
           n == m.n
<1>1. n \in Nat /\ n > 0 /\ NStates(m) = 0 .. (n - 1)
  BY NfaFacts
<1>2. pairs \in SUBSET (NStates(m) \X (1 .. m.n))
  <2>1. m.n \in 1 .. m.n
    BY <1>1
  <2> QED BY <2>1
<1>3. \A s, t \in NStates(m) : <<s, t>> \in pairs => m.edges[s][t] = {}
  <2>1. m.n \notin NStates(m)
    BY <1>1
  <2> QED BY <2>1
<1>4. \A s, t : <<s, t>> \in pairs <=> s \in F /\ t = n
  OBVIOUS
<1> HIDE DEF pairs
<1>5. /\ u \in WithStates /\ u.n = n + 1
      /\ \A s, t \in NStates(u) :
             <<s, t>> \in u.eps <=>
                 \/ s < n /\ t < n /\ <<s, t>> \in m.eps
                 \/ s \in F /\ t = n
  <2>1. /\ u \in WithStates /\ u.n = n + 1
        /\ \A s, t \in NStates(u) : \A w, i, j :
               Passes(u, w, i, s, j, t) <=>
                   \/ s < n /\ t < n /\ Passes(m, w, i, s, j, t)
                   \/ <<s, t>> \in pairs /\ j = i
    BY <1>2, <1>3, CapPasses
  <2> HIDE DEF u, n
  <2>2. \A s, t \in NStates(u) :
            Passes(u, <<>>, 0, s, 0, t) <=>
                \/ s < n /\ t < n /\ Passes(m, <<>>, 0, s, 0, t)
                \/ <<s, t>> \in pairs
    BY <2>1
  <2> QED BY <1>4, <2>1, <2>2, PassesNothing
<1>6. NStates(u) = 0 .. n
  BY <1>1, <1>5, NfaFacts
<1> HIDE DEF u
<1>7. ASSUME Acyclic(u) PROVE Acyclic(m)
  <2>1. ASSUME NEW s \in NStates(m), NEW t \in NStates(m), <<s, t>> \in m.eps
        PROVE  <<0 + s, 0 + t>> \in u.eps
    <3>1. s \in NStates(u) /\ t \in NStates(u) /\ s < n /\ t < n
      BY <1>1, <1>6
    <3>2. 0 + s = s /\ 0 + t = t
      BY <1>1
    <3> QED BY <1>5, <2>1, <3>1, <3>2
  <2>2. 0 + m.n <= u.n
    BY <1>1, <1>5
  <2> QED BY <1>5, <1>7, <2>1, <2>2, PartAcyclic
<1>8. ASSUME Acyclic(m) PROVE Acyclic(u)
  <2>1. PICK p \in [NStates(m) -> Nat] : Falls(m, p)
    BY <1>8 DEF Acyclic
  <2> DEFINE r == [s \in NStates(u) |-> IF s < n THEN p[s] + 1 ELSE 0]
  <2>2. \A s \in NStates(u) : s < n => s \in NStates(m) /\ p[s] \in Nat
    BY <1>1, <1>6, <2>1
  <2>3. r \in [NStates(u) -> Nat]
    BY <2>2
  <2>4. ASSUME NEW s \in NStates(u), NEW t \in NStates(u), <<s, t>> \in u.eps
        PROVE  r[t] < r[s]
    <3>1. CASE s < n /\ t < n /\ <<s, t>> \in m.eps
      <4>1. p[t] < p[s] /\ p[t] \in Nat /\ p[s] \in Nat
        BY <2>1, <2>2, <3>1 DEF Falls
      <4> QED BY <3>1, <4>1
    <3>2. CASE s \in F /\ t = n
      <4>1. s < n /\ ~(t < n)
        BY <1>1, <3>2
      <4> QED BY <2>2, <4>1
    <3> QED BY <1>5, <2>4, <3>1, <3>2
  <2>5. Falls(u, r)
    BY <2>4 DEF Falls
  <2> QED BY <2>3, <2>5 DEF Acyclic
<1> QED BY <1>7, <1>8 DEF u, pairs

\* Branches side by side.
LEMMA AlternationAcyclic ==
    ASSUME NEW nfas \in Seq(Fragments), nfas # <<>>
    PROVE  Acyclic(Alternation(nfas)) <=> \A b \in 1 .. Len(nfas) : Acyclic(nfas[b])
<1> DEFINE n == Len(nfas)
<1>1. n \in Nat /\ n > 0 /\ \A b \in 1 .. n : nfas[b] \in Fragments
  OBVIOUS
<1>2. CASE n = 1
  <2>1. Alternation(nfas) = nfas[1]
    BY <1>2 DEF Alternation
  <2>2. 1 .. n = {1}
    BY <1>2
  <2> QED BY <2>1, <2>2
<1>3. CASE n # 1
  <2>1. PICK f : /\ HangsOn(f, nfas)
                 /\ LET all == f[n]
                    IN  Alternation(nfas) =
                            WithEpsilons(Grown(all, 1), {<<s, all.n>> : s \in Finals(f, n)})
    BY <1>3, AlternationRec
  <2>2. \A k \in 0 .. n : f[k] \in Fans /\ Finals(f, k) \subseteq NStates(f[k])
    BY <2>1, BranchesFan
  <2> DEFINE K == {k \in 0 .. n : Acyclic(f[k]) <=> \A b \in 1 .. k : Acyclic(nfas[b])}
  <2> HIDE DEF n
  <2>3. 0 \in K
    <3>1. f[0] = Single1
      BY <2>1 DEF HangsOn
    <3>2. Acyclic(f[0])
      BY <3>1, NoEpsAcyclic DEF Single1
    <3> QED BY <1>1, <3>2
  <2>4. ASSUME NEW k \in 0 .. (n - 1), k \in K PROVE k + 1 \in K
    <3>1. k + 1 \in 1 .. n /\ (k + 1) - 1 = k /\ k + 1 \in 0 .. n /\ k \in 0 .. n
      BY <1>1
    <3>2. f[k + 1] = ConcatHelper(f[k], nfas[k + 1], NStart, TRUE)
      BY <2>1, <3>1 DEF HangsOn, n
    <3>3. Acyclic(f[k + 1]) <=> Acyclic(f[k]) /\ Acyclic(nfas[k + 1])
      BY <1>1, <2>2, <3>1, <3>2, HungAcyclic
    <3>4. 1 .. (k + 1) = (1 .. k) \cup {k + 1}
      BY <1>1
    <3>5. Acyclic(f[k]) <=> \A b \in 1 .. k : Acyclic(nfas[b])
      BY <2>4
    <3> QED BY <3>1, <3>3, <3>4, <3>5
  <2>5. 0 .. n \subseteq K
    <3> HIDE DEF K
    <3> QED BY <1>1, <2>3, <2>4, UpTo
  <2>6. n \in 0 .. n
    BY <1>1
  <2>7. Acyclic(f[n]) <=> \A b \in 1 .. n : Acyclic(nfas[b])
    BY <2>5, <2>6
  <2>8. Acyclic(Alternation(nfas)) <=> Acyclic(f[n])
    <3> DEFINE m == f[n]
               F == Finals(f, n)
    <3>1. m \in WithStates /\ F \in SUBSET NStates(m)
      BY <2>2, <2>6 DEF Fans
    <3>2. Alternation(nfas) = WithEpsilons(Grown(m, 1), {<<s, m.n>> : s \in F})
      BY <2>1
    <3> HIDE DEF F, m
    <3>3. Acyclic(WithEpsilons(Grown(m, 1), {<<s, m.n>> : s \in F})) <=> Acyclic(m)
      BY <3>1, CapAcyclic
    <3>4. Acyclic(Alternation(nfas)) <=> Acyclic(m)
      BY <3>2, <3>3
    <3> QED BY <3>4 DEF m
  <2> QED BY <2>7, <2>8 DEF n
<1> QED BY <1>2, <1>3

\* As many in a row as there are.
LEMMA ManyAcyclic ==
    ASSUME NEW nfas \in Seq(Fragments), nfas # <<>>
    PROVE  Acyclic(ConcatMany(nfas)) <=> \A b \in 1 .. Len(nfas) : Acyclic(nfas[b])
<1> DEFINE n == Len(nfas)
           l == n - 1
<1>1. n \in Nat /\ n > 0 /\ \A i \in 1 .. n : nfas[i] \in Fragments
  OBVIOUS
<1>2. l \in Nat /\ n = l + 1
  BY <1>1
<1>3. PICK F : /\ ConcatMany(nfas) = F[n]
               /\ \A k \in 1 .. n : F[k] = IF k = 1 THEN nfas[1] ELSE Concat(F[k - 1], nfas[k])
  BY ManyRec
<1> HIDE DEF n, l
<1> DEFINE Good(k) == /\ F[k] \in Fragments
                      /\ Acyclic(F[k]) <=> \A b \in 1 .. k : Acyclic(nfas[b])
           K == {k \in 0 .. l : Good(k + 1)}
<1>4. 0 \in K
  <2>1. 0 + 1 = 1 /\ 1 .. 1 = {1} /\ 1 \in 1 .. n
    BY <1>1
  <2>2. F[1] = nfas[1]
    BY <1>3, <2>1
  <2>3. Good(1)
    BY <1>1, <2>1, <2>2
  <2> HIDE DEF Good
  <2> QED BY <1>2, <2>1, <2>3
<1>5. ASSUME NEW k \in 0 .. (l - 1), k \in K PROVE k + 1 \in K
  <2> DEFINE j == k + 1
  <2>1. j \in Nat /\ j + 1 \in 1 .. n /\ j + 1 # 1 /\ (j + 1) - 1 = j /\ j \in 0 .. l
    BY <1>2
  <2>2. F[j + 1] = Concat(F[j], nfas[j + 1]) /\ nfas[j + 1] \in Fragments
    BY <1>1, <1>3, <2>1
  <2>3. Good(j)
    BY <1>5
  <2> HIDE DEF j
  <2>4. F[j + 1] \in Fragments
    BY <2>2, <2>3, RowIsFragment
  <2>5. Acyclic(F[j + 1]) <=> Acyclic(F[j]) /\ Acyclic(nfas[j + 1])
    BY <2>2, <2>3, RowAcyclic
  <2>6. 1 .. (j + 1) = (1 .. j) \cup {j + 1}
    BY <2>1
  <2>7. Good(j + 1)
    BY <2>3, <2>4, <2>5, <2>6
  <2> HIDE DEF Good
  <2> QED BY <2>1, <2>7 DEF j
<1>6. 0 .. l \subseteq K
  <2> HIDE DEF K
  <2> QED BY <1>2, <1>4, <1>5, UpTo
<1>7. Good(n)
  <2>1. l \in 0 .. l
    BY <1>2
  <2> HIDE DEF Good
  <2> QED BY <1>2, <1>6, <2>1
<1> QED BY <1>3, <1>7 DEF n

\* Copies in a row.
LEMMA CopiesAcyclic ==
    ASSUME NEW m \in Fragments, NEW n \in Nat
    PROVE  Acyclic(Copies(m, n)) <=> n = 0 \/ Acyclic(m)
<1>1. PICK F : /\ Copies(m, n) = F[n]
               /\ \A i \in 0 .. n : F[i] = IF i = 0 THEN NoStates ELSE Concat(F[i - 1], m)
  BY CopiesRec
<1> DEFINE Good(i) == F[i] \in Fragments /\ (Acyclic(F[i]) <=> i = 0 \/ Acyclic(m))
           K == {i \in 0 .. n : Good(i)}
<1>2. 0 \in K
  <2>1. F[0] = NoStates
    BY <1>1
  <2>2. Acyclic(F[0])
    BY <2>1, NoEpsAcyclic DEF NoStates
  <2>3. F[0] \in Fragments
    BY <2>1 DEF Fragments
  <2> QED BY <2>2, <2>3
<1>3. ASSUME NEW i \in 0 .. (n - 1), i \in K PROVE i + 1 \in K
  <2>1. i + 1 \in 0 .. n /\ i + 1 # 0 /\ (i + 1) - 1 = i
    OBVIOUS
  <2>2. F[i + 1] = Concat(F[i], m)
    BY <1>1, <2>1
  <2>3. F[i] \in Fragments /\ (Acyclic(F[i]) <=> i = 0 \/ Acyclic(m))
    BY <1>3
  <2>4. F[i + 1] \in Fragments /\ (Acyclic(F[i + 1]) <=> Acyclic(F[i]) /\ Acyclic(m))
    BY <2>2, <2>3, RowIsFragment, RowAcyclic
  <2> QED BY <2>1, <2>3, <2>4
<1>4. 0 .. n \subseteq K
  <2> HIDE DEF K
  <2> QED BY <1>2, <1>3, UpTo
<1> QED BY <1>1, <1>4

\* A star on a piece makes a cycle of any way through it that reads nothing.
LEMMA StarOfPiece ==
    ASSUME NEW m \in Pieces
    PROVE  Acyclic(Star(m)) <=> Acyclic(m) /\ ~Reads(m, <<>>, 0, 0)
<1> DEFINE u == Star(m)
           e == m.n
           w == <<>>
           N == NStates(m)
<1>1. /\ m \in WithStates /\ e \in Nat /\ e > 1 /\ N = 0 .. (e - 1) /\ NStop(m) = e - 1
      /\ 0 \in N /\ NStop(m) \in N
  BY PieceFacts, NfaFacts
<1>2. /\ u \in WithStates /\ u.n = e + 2
      /\ \A s, t \in NStates(u) :
             <<s, t>> \in u.eps <=>
                 \/ s >= 1 /\ t >= 1 /\ s <= e /\ t <= e /\ <<s - 1, t - 1>> \in m.eps
                 \/ (s = 0 \/ s = e) /\ (t = 1 \/ t = e + 1)
  <2>1. /\ u \in WithStates /\ u.n = e + 2
        /\ \A s, t \in NStates(u) : \A v, i, j :
               Passes(u, v, i, s, j, t) <=>
                   \/ /\ s >= 1 /\ t >= 1 /\ s <= e /\ t <= e
                      /\ Passes(m, v, i, s - 1, j, t - 1)
                   \/ (s = 0 \/ s = e) /\ (t = 1 \/ t = e + 1) /\ j = i
    BY StarPasses
  <2> HIDE DEF u, e
  <2>2. \A s, t \in NStates(u) :
            Passes(u, <<>>, 0, s, 0, t) <=>
                \/ /\ s >= 1 /\ t >= 1 /\ s <= e /\ t <= e
                   /\ Passes(m, <<>>, 0, s - 1, 0, t - 1)
                \/ (s = 0 \/ s = e) /\ (t = 1 \/ t = e + 1)
    BY <2>1
  <2> QED BY <2>1, <2>2, PassesNothing
<1>3. NStates(u) = 0 .. (e + 1)
  <2>1. (e + 2) - 1 = e + 1
    BY <1>1
  <2> QED BY <1>2, <2>1, NfaFacts
<1>4. Len(w) = 0 /\ 0 .. 0 = {0} /\ Places(m, w) = {0} \X N
  BY DEF Places
<1> HIDE DEF u, e, w, N
<1>5. ASSUME Acyclic(u) PROVE Acyclic(m)
  <2>1. ASSUME NEW s \in NStates(m), NEW t \in NStates(m), <<s, t>> \in m.eps
        PROVE  <<1 + s, 1 + t>> \in u.eps
    <3>1. /\ 1 + s \in NStates(u) /\ 1 + t \in NStates(u)
          /\ 1 + s >= 1 /\ 1 + t >= 1 /\ 1 + s <= e /\ 1 + t <= e
          /\ (1 + s) - 1 = s /\ (1 + t) - 1 = t
      BY <1>1, <1>3 DEF N
    <3> QED BY <1>2, <2>1, <3>1
  <2>2. 1 + m.n <= u.n
    BY <1>1, <1>2 DEF e
  <2> QED BY <1>1, <1>2, <1>5, <2>1, <2>2, PartAcyclic
<1>6. ASSUME Acyclic(u), Reads(m, w, 0, 0) PROVE FALSE
  <2>1. PICK r \in [NStates(u) -> Nat] : Falls(u, r)
    BY <1>6 DEF Acyclic
  <2>2. 1 \in NStates(u) /\ e \in NStates(u) /\ <<e, 1>> \in u.eps
    <3>1. 1 \in NStates(u) /\ e \in NStates(u)
      BY <1>1, <1>3
    <3> QED BY <1>2, <3>1
  <2>3. r[1] < r[e] /\ r[1] \in Nat /\ r[e] \in Nat
    BY <2>1, <2>2 DEF Falls
  <2> DEFINE R == {x \in {0} \X N : r[x[2] + 1] <= r[1]}
  <2>4. <<0, 0>> \in R
    BY <1>1, <2>3
  <2>5. Onward(m, w, R)
    <3> SUFFICES ASSUME NEW i \in 0 .. Len(w), NEW j \in 0 .. Len(w),
                        NEW s \in NStates(m), NEW t \in NStates(m),
                        <<i, s>> \in R, Passes(m, w, i, s, j, t)
                 PROVE  <<j, t>> \in R
      BY DEF Onward
    <3>1. i = 0 /\ j = 0
      BY <1>4
    <3>2. <<s, t>> \in m.eps
      BY <3>1, PassesNothing DEF w
    <3>3. /\ s + 1 \in NStates(u) /\ t + 1 \in NStates(u)
          /\ s + 1 >= 1 /\ t + 1 >= 1 /\ s + 1 <= e /\ t + 1 <= e
          /\ (s + 1) - 1 = s /\ (t + 1) - 1 = t
      <4>1. s \in 0 .. (e - 1) /\ t \in 0 .. (e - 1)
        BY <1>1 DEF N
      <4> HIDE DEF R
      <4> QED BY <1>1, <1>3, <4>1
    <3>4. <<s + 1, t + 1>> \in u.eps
      BY <1>2, <3>2, <3>3
    <3>5. r[t + 1] < r[s + 1] /\ r[t + 1] \in Nat /\ r[s + 1] \in Nat
      BY <2>1, <3>3, <3>4 DEF Falls
    <3>6. r[s + 1] <= r[1]
      OBVIOUS
    <3>7. r[t + 1] <= r[1]
      BY <2>3, <3>5, <3>6
    <3> QED BY <3>1, <3>7 DEF N
  <2>6. R \in SUBSET Places(m, w)
    BY <1>4
  <2>7. <<0, NStop(m)>> \in R
    <3> HIDE DEF R
    <3> QED BY <1>6, <2>4, <2>5, <2>6 DEF Reads, Way
  <2>8. NStop(m) + 1 = e
    BY <1>1
  <2> QED BY <2>3, <2>7, <2>8
<1>7. ASSUME Acyclic(m), ~Reads(m, w, 0, 0) PROVE Acyclic(u)
  <2>1. PICK p \in [N -> Nat] : Falls(m, p)
    BY <1>7 DEF Acyclic, N
  \* What a way that reads nothing leads to stays below what it does not.
  <2>2. PICK R \in SUBSET Places(m, w) :
            <<0, 0>> \in R /\ Onward(m, w, R) /\ <<0, NStop(m)>> \notin R
    BY <1>7 DEF Reads, Way
  <2> DEFINE b == p[0] + 1
             q == [s \in N |-> IF <<0, s>> \in R THEN p[s] ELSE p[s] + b]
             r == [s \in NStates(u) |-> IF s = 0 THEN b + 1
                                        ELSE IF s = e + 1 THEN 0 ELSE q[s - 1] + 1]
  <2>3. b \in Nat /\ b > 0 /\ \A s \in N : p[s] \in Nat
    BY <1>1, <2>1
  <2>4. /\ q \in [N -> Nat] /\ q[0] = p[0]
        /\ q[NStop(m)] = p[NStop(m)] + b /\ p[NStop(m)] \in Nat /\ p[0] \in Nat
    <3> HIDE DEF b
    <3> QED BY <1>1, <2>2, <2>3
  <2>5. ASSUME NEW s \in N, NEW t \in N, <<s, t>> \in m.eps PROVE q[t] < q[s]
    <3>1. p[t] < p[s] /\ p[t] \in Nat /\ p[s] \in Nat
      BY <2>1, <2>3, <2>5 DEF Falls, N
    <3>2. <<0, s>> \in R => <<0, t>> \in R
      <4>1. Passes(m, w, 0, s, 0, t)
        BY <2>5, PassesNothing DEF w
      <4>2. 0 \in 0 .. Len(w)
        BY <1>4
      <4> QED BY <2>2, <4>1, <4>2 DEF Onward, N
    <3>3. q[s] = IF <<0, s>> \in R THEN p[s] ELSE p[s] + b
      OBVIOUS
    <3>4. q[t] = IF <<0, t>> \in R THEN p[t] ELSE p[t] + b
      OBVIOUS
    <3> HIDE DEF q, b
    <3> QED BY <2>3, <3>1, <3>2, <3>3, <3>4
  <2>6. \A s \in NStates(u) : s # 0 /\ s # e + 1 => s - 1 \in N
    BY <1>1, <1>3
  <2>7. \A s \in N : q[s] \in Nat
    <3> HIDE DEF q
    <3> QED BY <2>4
  <2>8. r \in [NStates(u) -> Nat]
    <3> HIDE DEF q, b
    <3> QED BY <2>3, <2>6, <2>7
  <2>9. b = p[0] + 1
    OBVIOUS
  <2>10. \A s \in NStates(u) :
             r[s] = IF s = 0 THEN b + 1 ELSE IF s = e + 1 THEN 0 ELSE q[s - 1] + 1
    <3> HIDE DEF q, b
    <3> QED OBVIOUS
  <2> HIDE DEF b, q, r
  <2>11. ASSUME NEW s \in NStates(u), NEW t \in NStates(u), <<s, t>> \in u.eps
         PROVE  r[t] < r[s]
    <3>1. CASE s >= 1 /\ t >= 1 /\ s <= e /\ t <= e /\ <<s - 1, t - 1>> \in m.eps
      <4>1. /\ s - 1 \in N /\ t - 1 \in N
            /\ s # 0 /\ t # 0 /\ s # e + 1 /\ t # e + 1
        BY <1>1, <1>3, <3>1
      <4>2. q[t - 1] < q[s - 1] /\ q[t - 1] \in Nat /\ q[s - 1] \in Nat
        BY <2>5, <2>7, <3>1, <4>1
      <4>3. r[s] = q[s - 1] + 1 /\ r[t] = q[t - 1] + 1
        BY <2>10, <4>1
      <4> QED BY <4>2, <4>3
    <3>2. CASE (s = 0 \/ s = e) /\ (t = 1 \/ t = e + 1)
      <4>1. r[s] > b
        <5>1. CASE s = 0
          BY <2>3, <2>10, <5>1
        <5>2. CASE s = e
          <6>1. e # 0 /\ e # e + 1 /\ e - 1 = NStop(m)
            BY <1>1
          <6>2. r[e] = q[NStop(m)] + 1
            BY <2>10, <5>2, <6>1
          <6> QED BY <2>3, <2>4, <5>2, <6>2
        <5> QED BY <3>2, <5>1, <5>2
      <4>2. r[t] <= b
        <5>1. CASE t = 1
          <6>1. 1 # 0 /\ 1 # e + 1 /\ 1 - 1 = 0
            BY <1>1
          <6>2. r[1] = q[0] + 1
            BY <2>10, <5>1, <6>1
          <6> QED BY <2>3, <2>4, <2>9, <5>1, <6>2
        <5>2. CASE t = e + 1
          <6>1. e + 1 # 0
            BY <1>1
          <6>2. r[t] = 0
            BY <2>10, <5>2, <6>1
          <6> QED BY <2>3, <6>2
        <5> QED BY <3>2, <5>1, <5>2
      <4>3. r[s] \in Nat /\ r[t] \in Nat
        BY <2>8
      <4> QED BY <2>3, <4>1, <4>2, <4>3
    <3> QED BY <1>2, <2>11, <3>1, <3>2
  <2>12. Falls(u, r)
    BY <2>11 DEF Falls
  <2> QED BY <2>8, <2>12 DEF Acyclic
<1> QED BY <1>5, <1>6, <1>7 DEF u, w

\* A star makes a cycle of what means the empty word.
LEMMA StarAcyclic ==
    ASSUME NEW m \in Fragments, NEW A, Means(m, A)
    PROVE  Acyclic(Star(m)) <=> Acyclic(m) /\ ~(<<>> \in A /\ m.n # 0)
<1>1. /\ m = NoStates => m.n = 0
      /\ m # NoStates => m \in Pieces /\ m.n # 0 /\ Exact(m, A)
  BY FragmentMeans
<1>2. CASE m = NoStates
  <2>1. Acyclic(m)
    BY <1>2, NoEpsAcyclic DEF NoStates
  <2>2. ConcatHelper(Single1, m, NStart, TRUE) = Single1
    BY <1>1, <1>2 DEF ConcatHelper
  <2>3. Single1.n = 1 /\ NStop(Single1) = 0 /\ NStates(Single1) = {0} /\ Single1 \in WithStates
    BY OneIsFan DEF Fans
  <2>4. StarEdges(NStop(Single1), Single1.n) = {<<s, Single1.n>> : s \in {0}}
    BY <2>3 DEF StarEdges, NStart
  <2>5. Star(m) = WithEpsilons(Grown(Single1, 1), {<<s, Single1.n>> : s \in {0}})
    <3>1. Star(m) = WithEpsilons(Grown(ConcatHelper(Single1, m, NStart, TRUE), 1),
                                 StarEdges(NStop(ConcatHelper(Single1, m, NStart, TRUE)),
                                           ConcatHelper(Single1, m, NStart, TRUE).n))
      BY DEF Star, Single1
    <3> QED BY <2>2, <2>4, <3>1
  <2>6. Acyclic(Single1)
    BY NoEpsAcyclic DEF Single1
  <2>7. Acyclic(Star(m))
    <3>1. {0} \in SUBSET NStates(Single1)
      BY <2>3
    <3>2. Acyclic(WithEpsilons(Grown(Single1, 1), {<<s, Single1.n>> : s \in {0}}))
      BY <2>3, <2>6, <3>1, CapAcyclic
    <3> QED BY <2>5, <3>2
  <2> QED BY <1>1, <1>2, <2>1, <2>7
<1>3. CASE m # NoStates
  <2>1. m \in Pieces /\ m.n # 0 /\ Exact(m, A)
    BY <1>1, <1>3
  <2>2. <<>> \in Words /\ 0 \in 0 .. Len(<<>>)
    BY EmptyWord
  <2>3. Reads(m, <<>>, 0, 0) <=> Part(<<>>, 0, 0) \in A
    BY <2>1, <2>2 DEF Exact
  <2>4. Part(<<>>, 0, 0) = <<>>
    BY <2>2, EmptyPart
  <2> QED BY <2>1, <2>3, <2>4, StarOfPiece
<1> QED BY <1>2, <1>3

\* So does a plus.
LEMMA PlusAcyclic ==
    ASSUME NEW m \in Fragments, NEW A, Means(m, A)
    PROVE  Acyclic(Plus(m)) <=> Acyclic(m) /\ ~(<<>> \in A /\ m.n # 0)
<1>1. Star(m) \in Fragments
  BY StarIsPiece DEF Fragments
<1> QED BY <1>1, StarAcyclic, RowAcyclic DEF Plus

\* A question mark makes none.
LEMMA QuestionAcyclic ==
    ASSUME NEW m \in Fragments
    PROVE  Acyclic(QuestionMark(m)) <=> Acyclic(m)
<1> DEFINE nfas == <<Epsilon, m>>
<1>1. nfas \in Seq(Fragments) /\ nfas # <<>> /\ Len(nfas) = 2
      /\ nfas[1] = Epsilon /\ nfas[2] = m
  BY EpsilonIsPiece DEF Fragments
<1>2. Acyclic(Epsilon)
  <2> DEFINE r == [s \in NStates(Epsilon) |-> 1 - s]
  <2>1. Epsilon.n = 2 /\ Epsilon.eps \subseteq {<<0, 1>>}
    BY DEF Epsilon, WithEpsilons, TwoStates
  <2>2. NStates(Epsilon) = 0 .. 1
    BY <2>1 DEF NStates
  <2>3. r \in [NStates(Epsilon) -> Nat]
    BY <2>2
  <2>4. Falls(Epsilon, r)
    <3> SUFFICES ASSUME NEW s \in NStates(Epsilon), NEW t \in NStates(Epsilon),
                        <<s, t>> \in Epsilon.eps
                 PROVE  r[t] < r[s]
      BY DEF Falls
    <3>1. s = 0 /\ t = 1
      BY <2>1
    <3> QED BY <2>2, <3>1
  <2> QED BY <2>3, <2>4 DEF Acyclic
<1> HIDE DEF nfas
<1>3. Acyclic(Alternation(nfas)) <=> Acyclic(nfas[1]) /\ Acyclic(nfas[2])
  <2>1. 1 .. Len(nfas) = {1, 2}
    BY <1>1
  <2> QED BY <1>1, <2>1, AlternationAcyclic
<1> QED BY <1>1, <1>2, <1>3 DEF QuestionMark, nfas

\* Where epsilon edges lead from a state.
Following(m, s) == {e[2] : e \in {d \in m.eps : d[1] = s}}

\* A cycle is a state that epsilon edges lead back to: the number of states that
\* they lead to is a rank.
LEMMA CyclesAre ==
    ASSUME NEW m \in Fragments
    PROVE  ~Acyclic(m) <=> \E s \in NStates(m) : s \in Closed(m, Following(m, s))
<1> DEFINE N == NStates(m)
           C(s) == Closed(m, Following(m, s))
<1>1. m.n \in Nat /\ m.eps \subseteq N \X N
  <2>1. CASE m = NoStates
    BY <2>1 DEF NoStates
  <2>2. CASE m \in Pieces
    <3>1. m \in WithStates
      BY <2>2, PieceFacts
    <3> QED BY <3>1, NfaFacts
  <2> QED BY <2>1, <2>2 DEF Fragments
<1>2. ASSUME NEW s \in N
      PROVE  /\ Following(m, s) \in SUBSET N
             /\ \A t : t \in Following(m, s) <=> <<s, t>> \in m.eps
  <2>1. \A d \in m.eps : d = <<d[1], d[2]>> /\ d[2] \in N
    BY <1>1
  <2> QED BY <2>1 DEF Following
<1>3. ASSUME NEW s \in N
      PROVE  /\ Following(m, s) \subseteq C(s) /\ C(s) \in SUBSET N
             /\ EpsClosed(m, C(s))
             /\ \A T \in SUBSET N : Following(m, s) \subseteq T /\ EpsClosed(m, T) => C(s) \subseteq T
  BY <1>1, <1>2, ClosedFacts
<1>4. ASSUME Acyclic(m), NEW s \in N, s \in C(s) PROVE FALSE
  <2>1. PICK r \in [N -> Nat] : Falls(m, r)
    BY <1>4 DEF Acyclic
  <2> DEFINE T == {t \in N : r[t] < r[s]}
  <2>2. EpsClosed(m, T)
    <3> SUFFICES ASSUME NEW e \in m.eps, e[1] \in T PROVE e[2] \in T
      BY DEF EpsClosed
    <3>1. e = <<e[1], e[2]>> /\ e[1] \in N /\ e[2] \in N
      BY <1>1
    <3>2. r[e[2]] < r[e[1]]
      BY <2>1, <3>1 DEF Falls
    <3>3. r[e[1]] < r[s] /\ r[e[1]] \in Nat /\ r[e[2]] \in Nat /\ r[s] \in Nat
      BY <2>1, <3>1
    <3>4. r[e[2]] < r[s]
      BY <3>2, <3>3
    <3> QED BY <3>1, <3>4
  <2>3. Following(m, s) \subseteq T
    BY <1>2, <2>1 DEF Falls
  <2>4. s \in T
    <3>1. T \in SUBSET N
      OBVIOUS
    <3> HIDE DEF T, C
    <3> QED BY <1>3, <1>4, <2>2, <2>3, <3>1
  <2> QED BY <2>1, <2>4
<1>5. ASSUME \A s \in N : s \notin C(s) PROVE Acyclic(m)
  <2> DEFINE r == [s \in N |-> Cardinality(C(s))]
  <2>1. IsFiniteSet(N)
    BY <1>1, FS_Interval DEF NStates
  <2>2. ASSUME NEW s \in N PROVE IsFiniteSet(C(s)) /\ Cardinality(C(s)) \in Nat
    <3>1. C(s) \subseteq N
      BY <1>3
    <3> HIDE DEF C, N
    <3> QED BY <2>1, <3>1, FS_Subset, FS_CardinalityType
  <2>3. r \in [N -> Nat]
    <3> HIDE DEF C
    <3> QED BY <2>2
  <2>4. ASSUME NEW s \in N, NEW t \in N, <<s, t>> \in m.eps PROVE r[t] < r[s]
    <3>1. t \in C(s)
      BY <1>2, <1>3, <2>4
    <3>2. Following(m, t) \subseteq C(s)
      <4> SUFFICES ASSUME NEW v \in Following(m, t) PROVE v \in C(s)
        OBVIOUS
      <4>1. <<t, v>> \in m.eps
        BY <1>2
      <4>2. EpsClosed(m, C(s))
        BY <1>3
      <4> HIDE DEF C
      <4> QED BY <3>1, <4>1, <4>2 DEF EpsClosed
    <3>3. C(t) \subseteq C(s)
      <4> HIDE DEF C
      <4> QED BY <1>3, <3>2
    <3>4. C(t) # C(s)
      BY <1>5, <3>1
    <3>5. Cardinality(C(t)) < Cardinality(C(s))
      <4> HIDE DEF C
      <4> QED BY <2>2, <3>3, <3>4, FS_Subset
    <3> QED BY <3>5
  <2>5. Falls(m, r)
    <3> HIDE DEF r
    <3> QED BY <2>4 DEF Falls
  <2> QED BY <2>3, <2>5 DEF Acyclic
<1> QED BY <1>4, <1>5

-----------------------------------------------------------------------------
(* The parser. *)

\* A semantic value: its NFA is a fragment and, unless a branch was lost, means
\* what the value does and has a cycle of epsilon edges if the value says so.  It
\* is live if every atom in it has characters.
IsValue(f) ==
    /\ f = [nfa   |-> f.nfa, lang |-> f.lang, loops |-> f.loops, lost |-> f.lost,
            atoms |-> f.atoms]
    /\ f.nfa \in Fragments
    /\ f.lang \in SUBSET Words /\ f.atoms \in SUBSET SUBSET Char
    /\ \A E \in Alphabets : f.atoms \subseteq E => f.nfa \in LiveFragments(E)
    /\ f.nfa.n = 0 \/ ~f.lost => Means(f.nfa, f.lang)
    /\ ~f.lost => (f.loops <=> ~Acyclic(f.nfa))

FramesOf(V) == [alternation : Seq(V), expr : Seq(V)]

\* What is on the parse stack, and the waiting atom and the result if there are
\* any, are values of V.
HoldsOnly(V) ==
    /\ \A f \in V : IsValue(f)
    /\ frames \in Seq(FramesOf(V))
    /\ atom \in V \cup {NoAtom}
    /\ result \in V \cup {NoAtom}
    /\ stage = "parsed" => result \in V
    /\ stage = "parsing" => frames # <<>>

\* The inductive invariant.
StackInv == \E V : HoldsOnly(V)

\* The first and last parts of a sequence that is not empty.
LEMMA EndsOf ==
    ASSUME NEW X, NEW s \in Seq(X), s # <<>>
    PROVE  Last(s) \in X /\ Front(s) \in Seq(X) /\ Len(Front(s)) = Len(s) - 1
           /\ \A x \in X : [s EXCEPT ![Len(s)] = x] \in Seq(X) /\ [s EXCEPT ![Len(s)] = x] # <<>>
<1>1. Len(s) \in Nat /\ Len(s) > 0 /\ s \in [1 .. Len(s) -> X]
  OBVIOUS
<1>2. Last(s) \in X
  BY <1>1 DEF Last
<1>3. Front(s) \in Seq(X) /\ Len(Front(s)) = Len(s) - 1
  BY <1>1 DEF Front
<1>4. ASSUME NEW x \in X
      PROVE  [s EXCEPT ![Len(s)] = x] \in Seq(X) /\ [s EXCEPT ![Len(s)] = x] # <<>>
  BY <1>1
<1> QED BY <1>2, <1>3, <1>4

\* Values of V are values of a larger set.
LEMMA MoreValues ==
    ASSUME NEW V, NEW W, V \subseteq W
    PROVE  Seq(FramesOf(V)) \subseteq Seq(FramesOf(W))
<1>1. FramesOf(V) \subseteq FramesOf(W)
  BY DEF FramesOf
<1> QED BY <1>1

\* The NFAs of a sequence of values.
LEMMA NfasOfValues ==
    ASSUME NEW V, \A f \in V : IsValue(f), NEW parts \in Seq(V), parts # <<>>
    PROVE  /\ NfasOf(parts) \in Seq(Fragments) /\ NfasOf(parts) # <<>>
           /\ Len(NfasOf(parts)) = Len(parts)
           /\ \A i \in 1 .. Len(parts) : NfasOf(parts)[i] = parts[i].nfa
<1>1. DOMAIN parts = 1 .. Len(parts) /\ Len(parts) \in Nat /\ Len(parts) > 0
  OBVIOUS
<1>2. \A i \in 1 .. Len(parts) : parts[i].nfa \in Fragments
  BY DEF IsValue
<1>3. NfasOf(parts) = [i \in 1 .. Len(parts) |-> parts[i].nfa]
  BY <1>1 DEF NfasOf
<1>4. NfasOf(parts) \in [1 .. Len(parts) -> Fragments]
  BY <1>2, <1>3
<1>5. NfasOf(parts) \in Seq(Fragments) /\ Len(NfasOf(parts)) = Len(parts)
  BY <1>1, <1>4
<1>6. \A i \in 1 .. Len(parts) : NfasOf(parts)[i] = parts[i].nfa
  BY <1>3
<1> QED BY <1>1, <1>5, <1>6

\* They are live if the atoms in the values have characters.
LEMMA LiveOfValues ==
    ASSUME NEW V, \A f \in V : IsValue(f), NEW parts \in Seq(V), parts # <<>>
    PROVE  /\ AtomsOf(parts) \in SUBSET SUBSET Char
           /\ \A E \in Alphabets :
                  AtomsOf(parts) \subseteq E => NfasOf(parts) \in Seq(LiveFragments(E))
<1>1. DOMAIN parts = 1 .. Len(parts) /\ Len(parts) \in Nat
      /\ \A i \in 1 .. Len(parts) : parts[i] \in V
  OBVIOUS
<1>2. AtomsOf(parts) \in SUBSET SUBSET Char
  BY <1>1 DEF AtomsOf, IsValue
<1>3. ASSUME NEW E \in Alphabets, AtomsOf(parts) \subseteq E
      PROVE  NfasOf(parts) \in Seq(LiveFragments(E))
  <2>1. ASSUME NEW i \in 1 .. Len(parts) PROVE parts[i].nfa \in LiveFragments(E)
    <3>1. parts[i].atoms \subseteq E
      BY <1>1, <1>3 DEF AtomsOf
    <3> QED BY <1>1, <3>1 DEF IsValue
  <2>2. NfasOf(parts) = [i \in 1 .. Len(parts) |-> parts[i].nfa]
    BY <1>1 DEF NfasOf
  <2>3. NfasOf(parts) \in [1 .. Len(parts) -> LiveFragments(E)]
    BY <2>1, <2>2
  <2> QED BY <1>1, <2>3
<1> QED BY <1>2, <1>3

\* A value put together from its parts.
LEMMA MadeValue ==
    ASSUME NEW x \in Fragments, NEW l \in SUBSET Words, NEW o, NEW d,
           NEW a \in SUBSET SUBSET Char,
           \A E \in Alphabets : a \subseteq E => x \in LiveFragments(E),
           x.n = 0 \/ ~d => Means(x, l),
           ~d => (o <=> ~Acyclic(x))
    PROVE  IsValue([nfa |-> x, lang |-> l, loops |-> o, lost |-> d, atoms |-> a])
BY DEF IsValue

\* What the semantic actions make are values.
LEMMA BranchIsValue ==
    ASSUME NEW V, \A f \in V : IsValue(f), NEW parts \in Seq(V), parts # <<>>
    PROVE  IsValue(Branch(parts))
<1> DEFINE nfas == NfasOf(parts)
           m == ConcatMany(nfas)
           A == AllWords(parts)
<1>1. nfas \in Seq(Fragments) /\ nfas # <<>> /\ Len(nfas) = Len(parts)
      /\ \A i \in 1 .. Len(parts) : nfas[i] = parts[i].nfa
  BY NfasOfValues
<1> HIDE DEF nfas
<1>2. m \in Fragments
  BY <1>1, ManyIsFragment
<1>3. A \in SUBSET Words
  <2>1. \A v \in V : v.lang \in SUBSET Words
    BY DEF IsValue
  <2> QED BY <2>1, AllAreWords
<1>4. ASSUME m.n = 0 \/ ~Lost(parts) PROVE Means(m, A)
  <2> DEFINE W == {v \in V : v.nfa \in Fragments /\ Means(v.nfa, v.lang)}
  <2>1. ASSUME NEW i \in 1 .. Len(parts) PROVE parts[i] \in W
    <3>1. parts[i] \in V /\ i \in DOMAIN parts
      OBVIOUS
    <3>2. m.n = 0 => parts[i].nfa.n = 0
      BY <1>1, ManyHaveStates
    <3>3. ~Lost(parts) => ~parts[i].lost
      BY <3>1 DEF Lost
    <3>4. parts[i].nfa \in Fragments /\ Means(parts[i].nfa, parts[i].lang)
      BY <1>4, <3>1, <3>2, <3>3 DEF IsValue
    <3> QED BY <3>1, <3>4
  <2>2. parts \in Seq(W)
    <3> HIDE DEF W
    <3> QED BY <2>1
  <2>3. \A v \in W : v.nfa \in Fragments /\ Means(v.nfa, v.lang)
    OBVIOUS
  <2> HIDE DEF W
  <2> QED BY <1>1, <2>2, <2>3, ManyMeans
<1>5. ASSUME ~Lost(parts) PROVE Loops(parts) <=> ~Acyclic(m)
  <2>1. \A i \in 1 .. Len(parts) : parts[i].loops <=> ~Acyclic(nfas[i])
    <3> SUFFICES ASSUME NEW i \in 1 .. Len(parts)
                 PROVE  parts[i].loops <=> ~Acyclic(nfas[i])
      OBVIOUS
    <3>1. parts[i] \in V /\ i \in DOMAIN parts
      OBVIOUS
    <3>2. ~parts[i].lost
      BY <1>5, <3>1 DEF Lost
    <3> QED BY <1>1, <3>1, <3>2 DEF IsValue
  <2>2. DOMAIN parts = 1 .. Len(parts)
    OBVIOUS
  <2>3. Acyclic(m) <=> \A b \in 1 .. Len(parts) : Acyclic(nfas[b])
    BY <1>1, ManyAcyclic
  <2> QED BY <2>1, <2>2, <2>3 DEF Loops
<1>6. /\ AtomsOf(parts) \in SUBSET SUBSET Char
      /\ \A E \in Alphabets : AtomsOf(parts) \subseteq E => m \in LiveFragments(E)
  BY <1>1, LiveOfValues, ManyLive DEF nfas
<1> HIDE DEF A, m
<1>7. Branch(parts) = [nfa   |-> m, lang |-> A, loops |-> Loops(parts), lost |-> Lost(parts),
                       atoms |-> AtomsOf(parts)]
  BY DEF Branch, m, A, nfas
<1> QED BY <1>2, <1>3, <1>4, <1>5, <1>6, <1>7, MadeValue

\* Branches put side by side.
LEMMA AlternativesAreValue ==
    ASSUME NEW V, \A f \in V : IsValue(f), NEW parts \in Seq(V), parts # <<>>
    PROVE  IsValue(Alternatives(parts))
<1> DEFINE nfas == NfasOf(parts)
           n == Len(parts)
           m == Alternation(nfas)
           A == UNION {parts[i].lang : i \in DOMAIN parts}
           Clear == Lost(parts) \/ \E i \in DOMAIN parts : i > 1 /\ parts[i].nfa.n = 0
<1>1. nfas \in Seq(Fragments) /\ nfas # <<>> /\ Len(nfas) = n
      /\ \A i \in 1 .. n : nfas[i] = parts[i].nfa
  BY NfasOfValues
<1> HIDE DEF nfas
<1>2. m \in Fragments
  BY <1>1, AlternationIsFragment
<1>3. \A i \in 1 .. n : parts[i] \in V
  OBVIOUS
<1>4. DOMAIN parts = 1 .. n /\ n \in Nat /\ n > 0
  OBVIOUS
<1>5. A \in SUBSET Words
  BY <1>3, <1>4 DEF IsValue
<1>6. ASSUME m.n = 0 PROVE Means(m, A)
  <2>1. n = 1
    BY <1>1, <1>2, <1>6, AlternationIsPiece, OnlyNoStates
  <2>2. m = parts[1].nfa
    BY <1>1, <2>1 DEF Alternation
  <2>3. A = parts[1].lang
    <3>1. \A i \in DOMAIN parts : i = 1
      BY <1>4, <2>1
    <3>2. 1 \in DOMAIN parts
      BY <1>4
    <3> QED BY <3>1, <3>2
  <2>4. 1 \in 1 .. n
    BY <1>4
  <2> QED BY <1>3, <1>6, <2>2, <2>3, <2>4 DEF IsValue
<1>7. ASSUME ~Clear PROVE Means(m, A)
  <2> DEFINE langs == [i \in 1 .. n |-> parts[i].lang]
             U == UNION {langs[b] : b \in {c \in 1 .. Len(nfas) : c = 1 \/ nfas[c].n # 0}}
  <2>1. \A i \in 1 .. n : ~parts[i].lost
    BY <1>4, <1>7 DEF Lost
  <2>2. \A i \in 1 .. n : i > 1 => nfas[i].n # 0
    BY <1>1, <1>4, <1>7
  <2>3. \A b \in 1 .. Len(nfas) : Means(nfas[b], langs[b])
    BY <1>1, <1>3, <2>1 DEF IsValue
  <2>4. Means(m, U)
    <3> HIDE DEF langs
    <3> QED BY <1>1, <2>3, AlternationMeans
  <2>5. U = A
    <3>1. \A c \in 1 .. n : c = 1 \/ nfas[c].n # 0
      BY <1>4, <2>2
    <3>2. {c \in 1 .. Len(nfas) : c = 1 \/ nfas[c].n # 0} = 1 .. n
      BY <1>1, <3>1
    <3>3. U = UNION {langs[b] : b \in 1 .. n}
      BY <3>2
    <3> HIDE DEF U
    <3> QED BY <1>4, <3>3
  <2> QED BY <2>4, <2>5
<1>8. ASSUME ~Clear PROVE Loops(parts) <=> ~Acyclic(m)
  <2>1. \A i \in 1 .. n : parts[i].loops <=> ~Acyclic(nfas[i])
    <3> SUFFICES ASSUME NEW i \in 1 .. n PROVE parts[i].loops <=> ~Acyclic(nfas[i])
      OBVIOUS
    <3>1. parts[i] \in V /\ ~parts[i].lost
      BY <1>3, <1>4, <1>8 DEF Lost
    <3> QED BY <1>1, <3>1 DEF IsValue
  <2>2. Acyclic(m) <=> \A b \in 1 .. n : Acyclic(nfas[b])
    BY <1>1, AlternationAcyclic
  <2> QED BY <1>4, <2>1, <2>2 DEF Loops
<1>9. /\ AtomsOf(parts) \in SUBSET SUBSET Char
      /\ \A E \in Alphabets : AtomsOf(parts) \subseteq E => m \in LiveFragments(E)
  BY <1>1, LiveOfValues, AlternationLives DEF nfas
<1> HIDE DEF A, m
<1>10. Alternatives(parts) = [nfa   |-> m, lang |-> A, loops |-> Loops(parts), lost |-> Clear,
                             atoms |-> AtomsOf(parts)]
  BY DEF Alternatives, m, A, nfas
<1> HIDE DEF Clear
<1> QED BY <1>2, <1>5, <1>6, <1>7, <1>8, <1>9, <1>10, MadeValue

\* A single atom.
LEMMA SingleIsValue ==
    ASSUME NEW C \in Atoms
    PROVE  IsValue(Single(C))
<1> DEFINE m == CharacterClass(C)
           A == {<<c>> : c \in C} \cap Words
<1>1. m \in Fragments
  BY AtomIsPiece DEF Fragments
<1>2. Means(m, A) /\ A \in SUBSET Words
  BY AtomMeans
<1>3. Single(C) = [nfa |-> m, lang |-> A, loops |-> FALSE, lost |-> FALSE, atoms |-> {C}]
  BY DEF Single
<1>4. Acyclic(m)
  BY NoEpsAcyclic DEF CharacterClass, TwoStates
<1>5. {C} \in SUBSET SUBSET Char
  BY AtomsAssumption
<1>6. \A E \in Alphabets : {C} \subseteq E => m \in LiveFragments(E)
  BY AtomLives DEF LiveFragments
<1> HIDE DEF m, A
<1> QED BY <1>1, <1>2, <1>3, <1>4, <1>5, <1>6, MadeValue

\* An atom with its quantifier.
LEMMA QuantifiedAreValues ==
    ASSUME NEW f, IsValue(f), NEW g \in Quantified(f)
    PROVE  IsValue(g)
<1> DEFINE m == f.nfa
           A == f.lang
<1>1. /\ f = [nfa   |-> f.nfa, lang |-> f.lang, loops |-> f.loops, lost |-> f.lost,
              atoms |-> f.atoms]
      /\ m \in Fragments /\ A \in SUBSET Words /\ f.atoms \in SUBSET SUBSET Char
      /\ \A E \in Alphabets : f.atoms \subseteq E => m \in LiveFragments(E)
      /\ m.n = 0 \/ ~f.lost => Means(m, A)
      /\ ~f.lost => (f.loops <=> ~Acyclic(m))
  BY DEF IsValue
<1>2. ASSUME NEW x \in Fragments, NEW l \in SUBSET Words, NEW o,
             x.n # 0, Means(m, A) => Means(x, l), ~f.lost => (o <=> ~Acyclic(x)),
             \A E \in Alphabets : m \in LiveFragments(E) => x \in LiveFragments(E)
      PROVE  IsValue([nfa   |-> x, lang |-> l, loops |-> o, lost |-> f.lost,
                      atoms |-> f.atoms])
  BY <1>1, <1>2, MadeValue
<1>3. /\ Star(m) \in Fragments /\ Plus(m) \in Fragments /\ QuestionMark(m) \in Fragments
      /\ Star(m).n # 0 /\ Plus(m).n # 0 /\ QuestionMark(m).n # 0
      /\ \A E \in Alphabets :
             m \in LiveFragments(E) => /\ Star(m) \in LiveFragments(E)
                                      /\ Plus(m) \in LiveFragments(E)
                                      /\ QuestionMark(m) \in LiveFragments(E)
  BY <1>1, QuantifiedAreFragments, QuantifiedHaveStates, QuantifiedLive
<1>4. ASSUME NEW x, NEW l, NEW o
      PROVE  /\ [f EXCEPT !.nfa = x, !.lang = l, !.loops = o]
                    = [nfa |-> x, lang |-> l, loops |-> o, lost |-> f.lost, atoms |-> f.atoms]
             /\ [f EXCEPT !.nfa = x, !.lang = l]
                    = [nfa   |-> x, lang |-> l, loops |-> f.loops, lost |-> f.lost,
                       atoms |-> f.atoms]
  <2> DEFINE S == [nfa   : {f.nfa, x}, lang : {f.lang, l}, loops : {f.loops, o}, lost : {f.lost},
                   atoms : {f.atoms}]
             h == [f EXCEPT !.nfa = x, !.lang = l, !.loops = o]
             k == [f EXCEPT !.nfa = x, !.lang = l]
  <2>1. f \in S
    BY <1>1
  <2>2. h \in S /\ h.nfa = x /\ h.lang = l /\ h.loops = o /\ h.lost = f.lost /\ h.atoms = f.atoms
    BY <2>1
  <2>3. k \in S /\ k.nfa = x /\ k.lang = l /\ k.loops = f.loops /\ k.lost = f.lost
               /\ k.atoms = f.atoms
    BY <2>1
  <2> HIDE DEF h, k
  <2>4. h = [nfa |-> x, lang |-> l, loops |-> o, lost |-> f.lost, atoms |-> f.atoms]
    BY <2>2
  <2>5. k = [nfa |-> x, lang |-> l, loops |-> f.loops, lost |-> f.lost, atoms |-> f.atoms]
    BY <2>3
  <2> QED BY <2>4, <2>5 DEF h, k
<1>5. CASE g = Starred(f)
  <2>1. StarWords(A) \in SUBSET Words
    BY <1>1, StarGrows
  <2>2. Means(m, A) => Means(Star(m), StarWords(A))
    BY <1>1, StarMeans
  <2>3. g = [nfa |-> Star(m), lang |-> StarWords(A), loops |-> LoopsIfStarred(f),
             lost |-> f.lost, atoms |-> f.atoms]
    BY <1>4, <1>5 DEF Starred
  <2>4. ~f.lost => (LoopsIfStarred(f) <=> ~Acyclic(Star(m)))
    BY <1>1, StarAcyclic DEF LoopsIfStarred
  <2> HIDE DEF m, A
  <2> QED BY <1>2, <1>3, <2>1, <2>2, <2>3, <2>4
<1>6. CASE g = Repeated(f)
  <2>1. ConcatWords(A, StarWords(A)) \in SUBSET Words
    BY DEF ConcatWords
  <2>2. Means(m, A) => Means(Plus(m), ConcatWords(A, StarWords(A)))
    BY <1>1, PlusMeans
  <2>3. g = [nfa |-> Plus(m), lang |-> ConcatWords(A, StarWords(A)),
             loops |-> LoopsIfStarred(f), lost |-> f.lost, atoms |-> f.atoms]
    BY <1>4, <1>6 DEF Repeated
  <2>4. ~f.lost => (LoopsIfStarred(f) <=> ~Acyclic(Plus(m)))
    BY <1>1, PlusAcyclic DEF LoopsIfStarred
  <2> HIDE DEF m, A
  <2> QED BY <1>2, <1>3, <2>1, <2>2, <2>3, <2>4
<1>7. CASE g = Optional(f)
  <2>1. A \cup {<<>>} \in SUBSET Words
    BY <1>1, EmptyWord
  <2>2. Means(m, A) => Means(QuestionMark(m), A \cup {<<>>})
    BY <1>1, QuestionMeans
  <2>3. g = [nfa |-> QuestionMark(m), lang |-> A \cup {<<>>}, loops |-> f.loops,
             lost |-> f.lost, atoms |-> f.atoms]
    BY <1>4, <1>7 DEF Optional
  <2>4. ~f.lost => (f.loops <=> ~Acyclic(QuestionMark(m)))
    BY <1>1, QuestionAcyclic
  <2> HIDE DEF m, A
  <2> QED BY <1>2, <1>3, <2>1, <2>2, <2>3, <2>4
<1>8. ASSUME NEW n \in Counts, g = Counted(f, n) PROVE IsValue(g)
  <2>1. n \in Nat
    BY CountsAssumption
  <2> DEFINE x == Copies(m, n)
             l == RepeatWords(A, n)
  <2>2. x \in Fragments /\ l \in SUBSET Words
    BY <1>1, <2>1, CopiesAreFragment, RepeatStep
  <2> DEFINE a == IF n > 0 THEN f.atoms ELSE {}
  <2>3. g = [nfa   |-> x, lang |-> l, loops |-> f.loops /\ n > 0, lost |-> f.lost /\ n > 0,
             atoms |-> a]
    BY <1>8, <2>1, CountedIsCopies DEF Counted
  <2>4. ASSUME x.n = 0 \/ ~(f.lost /\ n > 0) PROVE Means(x, l)
    <3>1. CASE n = 0
      <4>1. x = NoStates /\ l = {<<>>}
        BY <1>1, <3>1, NoCopies, RepeatStep
      <4> HIDE DEF x, l
      <4> QED BY <2>2, <4>1 DEF Means, NoStates
    <3>2. CASE n > 0
      <4>1. m.n = 0 \/ ~f.lost
        BY <1>1, <2>1, <2>4, <3>2, CopiesHaveStates
      <4> QED BY <1>1, <2>1, <4>1, CopiesMean
    <3> QED BY <2>1, <3>1, <3>2
  <2>5. ASSUME ~(f.lost /\ n > 0) PROVE f.loops /\ n > 0 <=> ~Acyclic(x)
    <3>1. Acyclic(x) <=> n = 0 \/ Acyclic(m)
      BY <1>1, <2>1, CopiesAcyclic
    <3>2. CASE n = 0
      BY <3>1, <3>2
    <3>3. CASE n > 0
      BY <1>1, <2>5, <3>1, <3>3
    <3> QED BY <2>1, <3>2, <3>3
  <2>6. a \in SUBSET SUBSET Char
    BY <1>1
  <2>7. ASSUME NEW E \in Alphabets, a \subseteq E PROVE x \in LiveFragments(E)
    <3>1. CASE n = 0
      <4>1. x = NoStates
        BY <1>1, <3>1, NoCopies
      <4> QED BY <4>1 DEF LiveFragments
    <3>2. CASE n > 0
      BY <1>1, <2>1, <2>7, <3>2, CopiesLive
    <3> QED BY <2>1, <3>1, <3>2
  <2> HIDE DEF x, l, a
  <2> QED BY <2>2, <2>3, <2>4, <2>5, <2>6, <2>7, MadeValue
<1> QED BY <1>5, <1>6, <1>7, <1>8 DEF Quantified

\* The waiting atom settles as an element of the top branch.
LEMMA SettledHolds ==
    ASSUME NEW V, HoldsOnly(V), stage = "parsing"
    PROVE  /\ Settled \in Seq(FramesOf(V)) /\ Settled # <<>>
           /\ Top \in FramesOf(V)
           /\ \A x \in FramesOf(V) :
                  WithTop(x) \in Seq(FramesOf(V)) /\ WithTop(x) # <<>>
           /\ \A g \in V :
                  [Top EXCEPT !.expr = Append(@, g)] \in FramesOf(V)
<1>1. frames \in Seq(FramesOf(V)) /\ frames # <<>> /\ (WaitingAtom => atom \in V)
  BY DEF HoldsOnly, WaitingAtom
<1>2. Top \in FramesOf(V)
  BY <1>1, EndsOf DEF Top
<1>3. ASSUME NEW x \in FramesOf(V)
      PROVE  WithTop(x) \in Seq(FramesOf(V)) /\ WithTop(x) # <<>>
  BY <1>1, EndsOf DEF WithTop
<1>4. ASSUME NEW g \in V PROVE [Top EXCEPT !.expr = Append(@, g)] \in FramesOf(V)
  <2> HIDE DEF Top
  <2>1. Append(Top.expr, g) \in Seq(V)
    BY <1>2 DEF FramesOf
  <2> QED BY <1>2, <2>1 DEF FramesOf
<1>5. Settled \in Seq(FramesOf(V)) /\ Settled # <<>>
  BY <1>1, <1>3, <1>4 DEF Settled
<1> QED BY <1>2, <1>3, <1>4, <1>5

\* The branch in progress, reduced, makes a value more.
LEMMA ReducedHolds ==
    ASSUME NEW V, HoldsOnly(V), stage = "parsing", BranchComplete
    PROVE  \E W : /\ V \subseteq W /\ \A f \in W : IsValue(f)
                  /\ ReducedTop \in FramesOf(W)
                  /\ ReducedTop.alternation \in Seq(W) /\ ReducedTop.alternation # <<>>
<1> DEFINE f == Last(Settled)
           b == Branch(f.expr)
           W == V \cup {b}
<1>1. f \in FramesOf(V)
  <2>1. Settled \in Seq(FramesOf(V)) /\ Settled # <<>>
    BY SettledHolds
  <2> QED BY <2>1, EndsOf
<1>2. f.expr \in Seq(V) /\ f.expr # <<>> /\ f.alternation \in Seq(V)
  BY <1>1 DEF BranchComplete, FramesOf
<1>3. ReducedTop = [alternation |-> Append(f.alternation, b), expr |-> <<>>]
  BY DEF ReducedTop
<1> HIDE DEF f
<1>4. \A v \in V : IsValue(v)
  BY DEF HoldsOnly
<1>5. IsValue(b)
  BY <1>2, <1>4, BranchIsValue
<1> HIDE DEF b
<1>6. Append(f.alternation, b) \in Seq(W) /\ Append(f.alternation, b) # <<>>
  <2>1. f.alternation \in Seq(W) /\ b \in W
    BY <1>2
  <2> HIDE DEF W
  <2> QED BY <2>1
<1>7. ReducedTop \in FramesOf(W)
  <2>1. <<>> \in Seq(W)
    OBVIOUS
  <2> HIDE DEF W
  <2> QED BY <1>3, <1>6, <2>1 DEF FramesOf
<1> QED BY <1>3, <1>4, <1>5, <1>6, <1>7

\* The stack starts with one empty frame.
LEMMA ParserInit == Init => StackInv
<1> SUFFICES ASSUME Init PROVE HoldsOnly({})
  BY DEF StackInv
<1>1. Frame \in FramesOf({})
  BY DEF Frame, FramesOf
<1>2. <<Frame>> \in Seq(FramesOf({})) /\ <<Frame>> # <<>>
  BY <1>1
<1> QED BY <1>2 DEF Init, HoldsOnly

\* An atom waits, the one before it settles.
LEMMA CharacterKeeps == StackInv /\ Character => StackInv'
<1> SUFFICES ASSUME StackInv, Character PROVE StackInv'
  OBVIOUS
<1>1. PICK V : HoldsOnly(V)
  BY DEF StackInv
<1>2. PICK C \in Atoms : atom' = Single(C)
  BY DEF Character
<1>3. frames' = Settled /\ stage = "parsing" /\ stage' = stage /\ result' = result
  BY DEF Character, Read
<1> DEFINE W == V \cup {Single(C)}
<1>4. frames' \in Seq(FramesOf(V)) /\ frames' # <<>>
  BY <1>1, <1>3, SettledHolds
<1>5. frames' \in Seq(FramesOf(W))
  BY <1>4, MoreValues
<1>6. \A f \in W : IsValue(f)
  BY <1>1, SingleIsValue DEF HoldsOnly
<1>7. HoldsOnly(W)'
  BY <1>1, <1>2, <1>3, <1>4, <1>5, <1>6 DEF HoldsOnly
<1> QED BY <1>7 DEF StackInv

\* A group opens a frame.
LEMMA OpenGroupKeeps == StackInv /\ OpenGroup => StackInv'
<1> SUFFICES ASSUME StackInv, OpenGroup PROVE StackInv'
  OBVIOUS
<1>1. PICK V : HoldsOnly(V)
  BY DEF StackInv
<1>2. /\ frames' = Append(Settled, Frame) /\ atom' = NoAtom
      /\ stage = "parsing" /\ stage' = stage /\ result' = result
  BY DEF OpenGroup, Read
<1>3. Settled \in Seq(FramesOf(V))
  BY <1>1, <1>2, SettledHolds
<1>4. Frame \in FramesOf(V)
  BY DEF Frame, FramesOf
<1>5. frames' \in Seq(FramesOf(V)) /\ frames' # <<>>
  BY <1>2, <1>3, <1>4
<1>6. HoldsOnly(V)'
  BY <1>1, <1>2, <1>5 DEF HoldsOnly
<1> QED BY <1>6 DEF StackInv

\* A quantifier makes an element of the waiting atom.
LEMMA QuantifierKeeps == StackInv /\ Quantifier => StackInv'
<1> SUFFICES ASSUME StackInv, Quantifier PROVE StackInv'
  OBVIOUS
<1>1. PICK V : HoldsOnly(V)
  BY DEF StackInv
<1>2. PICK f \in Quantified(atom) : frames' = WithTop([Top EXCEPT !.expr = Append(@, f)])
  BY DEF Quantifier
<1>3. atom' = NoAtom /\ stage = "parsing" /\ stage' = stage /\ result' = result
  BY DEF Quantifier, Read
<1> DEFINE W == V \cup {f}
<1>4. IsValue(f)
  <2>1. WaitingAtom
    BY DEF Quantifier
  <2>2. IsValue(atom)
    BY <1>1, <2>1 DEF HoldsOnly, WaitingAtom
  <2> QED BY <2>2, QuantifiedAreValues
<1>5. HoldsOnly(W)
  <2>1. frames \in Seq(FramesOf(W))
    BY <1>1, MoreValues DEF HoldsOnly
  <2> QED BY <1>1, <1>4, <2>1 DEF HoldsOnly
<1>6. frames' \in Seq(FramesOf(W)) /\ frames' # <<>>
  <2>1. f \in W
    OBVIOUS
  <2> HIDE DEF W
  <2> QED BY <1>2, <1>3, <1>5, <2>1, SettledHolds
<1>7. HoldsOnly(W)'
  BY <1>3, <1>5, <1>6 DEF HoldsOnly
<1> QED BY <1>7 DEF StackInv

\* A branch is reduced.
LEMMA PipeKeeps == StackInv /\ Pipe => StackInv'
<1> SUFFICES ASSUME StackInv, Pipe PROVE StackInv'
  OBVIOUS
<1>1. PICK V : HoldsOnly(V)
  BY DEF StackInv
<1>2. /\ frames' = WithTop(ReducedTop) /\ atom' = NoAtom /\ BranchComplete
      /\ stage = "parsing" /\ stage' = stage /\ result' = result
  BY DEF Pipe, Read
<1>3. PICK W : V \subseteq W /\ (\A f \in W : IsValue(f)) /\ ReducedTop \in FramesOf(W)
  BY <1>1, <1>2, ReducedHolds
<1>4. HoldsOnly(W)
  <2>1. frames \in Seq(FramesOf(W))
    BY <1>1, <1>3, MoreValues DEF HoldsOnly
  <2> QED BY <1>1, <1>3, <2>1 DEF HoldsOnly
<1>5. frames' \in Seq(FramesOf(W)) /\ frames' # <<>>
  BY <1>2, <1>3, <1>4, SettledHolds
<1>6. HoldsOnly(W)'
  BY <1>2, <1>4, <1>5 DEF HoldsOnly
<1> QED BY <1>6 DEF StackInv

\* A group becomes the waiting atom.
LEMMA CloseGroupKeeps == StackInv /\ CloseGroup => StackInv'
<1> SUFFICES ASSUME StackInv, CloseGroup PROVE StackInv'
  OBVIOUS
<1>1. PICK V : HoldsOnly(V)
  BY DEF StackInv
<1>2. /\ atom' = Alternatives(ReducedTop.alternation) /\ frames' = Front(frames)
      /\ BranchComplete /\ Len(frames) > 1
      /\ stage = "parsing" /\ stage' = stage /\ result' = result
  BY DEF CloseGroup, Read
<1>3. PICK U : /\ V \subseteq U /\ \A f \in U : IsValue(f)
               /\ ReducedTop.alternation \in Seq(U) /\ ReducedTop.alternation # <<>>
  BY <1>1, <1>2, ReducedHolds
<1>4. PICK a : a = atom' /\ IsValue(a)
  BY <1>2, <1>3, AlternativesAreValue
<1> DEFINE W == U \cup {a}
<1>5. frames \in Seq(FramesOf(W)) /\ frames # <<>>
  BY <1>1, <1>2, <1>3, MoreValues DEF HoldsOnly
<1>6. frames' \in Seq(FramesOf(W)) /\ frames' # <<>>
  <2>1. frames' \in Seq(FramesOf(W)) /\ Len(frames') = Len(frames) - 1
    <3> HIDE DEF W
    <3> QED BY <1>2, <1>5, EndsOf
  <2> QED BY <1>2, <1>5, <2>1
<1>7. HoldsOnly(W)'
  BY <1>1, <1>2, <1>3, <1>4, <1>6 DEF HoldsOnly
<1> QED BY <1>7 DEF StackInv

\* The whole pattern becomes the result.
LEMMA EndOfPatternKeeps == StackInv /\ EndOfPattern => StackInv'
<1> SUFFICES ASSUME StackInv, EndOfPattern PROVE StackInv'
  OBVIOUS
<1>1. PICK V : HoldsOnly(V)
  BY DEF StackInv
<1>2. /\ result' = Alternatives(ReducedTop.alternation) /\ frames' = <<>>
      /\ BranchComplete /\ atom' = NoAtom /\ stage = "parsing" /\ stage' = "parsed"
  BY DEF EndOfPattern
<1>3. PICK U : /\ V \subseteq U /\ \A f \in U : IsValue(f)
               /\ ReducedTop.alternation \in Seq(U) /\ ReducedTop.alternation # <<>>
  BY <1>1, <1>2, ReducedHolds
<1>4. PICK r : r = result' /\ IsValue(r)
  BY <1>2, <1>3, AlternativesAreValue
<1> DEFINE W == {r}
<1>5. HoldsOnly(W)'
  <2>1. <<>> \in Seq(FramesOf(W))
    OBVIOUS
  <2> QED BY <1>2, <1>4, <2>1 DEF HoldsOnly
<1> QED BY <1>5 DEF StackInv

\* An error drops the stack.
LEMMA SyntaxErrorKeeps == StackInv /\ SyntaxError => StackInv'
<1> SUFFICES ASSUME StackInv, SyntaxError PROVE StackInv'
  OBVIOUS
<1>1. PICK V : HoldsOnly(V)
  BY DEF StackInv
<1>2. frames' = <<>> /\ atom' = NoAtom /\ stage' = "error" /\ result' = result
  BY DEF SyntaxError
<1>3. <<>> \in Seq(FramesOf(V))
  OBVIOUS
<1>4. HoldsOnly(V)'
  BY <1>1, <1>2, <1>3 DEF HoldsOnly
<1> QED BY <1>4 DEF StackInv

\* Every step keeps the invariant.
LEMMA ParserNext == StackInv /\ [Next]_vars => StackInv'
<1> SUFFICES ASSUME StackInv, [Next]_vars PROVE StackInv'
  OBVIOUS
<1>1. CASE UNCHANGED vars
  BY <1>1 DEF vars, StackInv, HoldsOnly
<1>2. CASE Ended
  BY <1>2 DEF Ended, vars, StackInv, HoldsOnly
<1> QED BY <1>1, <1>2, CharacterKeeps, OpenGroupKeeps, QuantifierKeeps, PipeKeeps,
           CloseGroupKeeps, EndOfPatternKeeps, SyntaxErrorKeeps DEF Next

\* It holds in every state.
LEMMA StackHolds == Spec => []StackInv
BY ParserInit, ParserNext, PTL DEF Spec

\* A fragment is on the stack wherever an NFA is.
LEMMA BuiltAreFragments ==
    ASSUME StackInv
    PROVE  Built \subseteq Fragments
<1>1. PICK V : HoldsOnly(V)
  BY DEF StackInv
<1>2. ASSUME NEW i \in DOMAIN frames, NEW j \in DOMAIN frames[i].expr
      PROVE  frames[i].expr[j].nfa \in Fragments
  <2>1. frames[i] \in FramesOf(V)
    BY <1>1 DEF HoldsOnly
  <2>2. frames[i].expr \in Seq(V)
    BY <2>1 DEF FramesOf
  <2>3. frames[i].expr[j] \in V
    BY <2>2
  <2> QED BY <1>1, <2>3 DEF HoldsOnly, IsValue
<1>3. ASSUME NEW i \in DOMAIN frames, NEW j \in DOMAIN frames[i].alternation
      PROVE  frames[i].alternation[j].nfa \in Fragments
  <2>1. frames[i] \in FramesOf(V)
    BY <1>1 DEF HoldsOnly
  <2>2. frames[i].alternation \in Seq(V)
    BY <2>1 DEF FramesOf
  <2>3. frames[i].alternation[j] \in V
    BY <2>2
  <2> QED BY <1>1, <2>3 DEF HoldsOnly, IsValue
<1>4. atom.nfa \in Fragments /\ result.nfa \in Fragments
  <2>1. NoAtom.nfa \in Fragments
    BY DEF NoAtom, Fragments
  <2>2. atom \in V \cup {NoAtom} /\ result \in V \cup {NoAtom} /\ \A v \in V : v.nfa \in Fragments
    BY <1>1 DEF HoldsOnly, IsValue
  <2> QED BY <2>1, <2>2
<1>5. Stacked \subseteq Fragments
  BY <1>2, <1>3 DEF Stacked
<1> QED BY <1>4, <1>5 DEF Built

\* The newest value is one.
LEMMA NewestIsValue ==
    ASSUME StackInv, NEW f \in Newest
    PROVE  IsValue(f)
<1>1. PICK V : HoldsOnly(V)
  BY DEF StackInv
<1>2. /\ WaitingAtom => atom \in V
      /\ stage = "parsed" => result \in V
      /\ frames \in Seq(FramesOf(V))
  BY <1>1 DEF HoldsOnly, WaitingAtom
<1>3. ASSUME frames # <<>>
      PROVE  /\ Top.expr # <<>> => Last(Top.expr) \in V
             /\ Top.alternation # <<>> => Last(Top.alternation) \in V
  <2>1. Top \in FramesOf(V)
    BY <1>2, <1>3, EndsOf DEF Top
  <2>2. Top.expr \in Seq(V) /\ Top.alternation \in Seq(V)
    BY <2>1 DEF FramesOf
  <2> QED BY <2>2, EndsOf
<1>4. f \in V
  BY <1>2, <1>3 DEF Newest
<1> QED BY <1>1, <1>4 DEF HoldsOnly

-----------------------------------------------------------------------------
(* The theorems. *)

\* The NFAs of the invariant have Thompson's shape.
LEMMA StackShape == StackInv => ShapeKept
BY BuiltAreFragments, FragmentShape DEF ShapeKept

\* Whatever pattern is read, every NFA on the parse stack has Thompson's shape.
THEOREM ShapeAlwaysKept == Spec => []ShapeKept
BY StackShape, StackHolds, PTL

\* They have no dead end, if every atom has characters.
LEMMA StackNoDeadEnd == StackInv => NoDeadEnd
<1> SUFFICES ASSUME StackInv, NEW f \in Newest, f.nfa.n # 0, {} \notin f.atoms
             PROVE  NoDeadEndIn(f.nfa)
  BY DEF NoDeadEnd, NoDeadEndIn
<1> DEFINE E == (SUBSET Char) \ {{}}
<1>1. E \in Alphabets
  BY DEF Alphabets
<1>2. f.atoms \subseteq E
  BY NewestIsValue DEF IsValue
<1> HIDE DEF E
<1>3. f.nfa \in LiveFragments(E) /\ f.nfa # NoStates
  BY <1>1, <1>2, NewestIsValue DEF IsValue, NoStates
<1> QED BY <1>1, <1>3, LiveHasNoDeadEnd DEF LiveFragments

\* Every state of an NFA made of a pattern lies on a way from the start state to
\* the stop state, unless there is an atom of no characters in the pattern, as a
\* class with a reversed range is.
THEOREM NoDeadEndMade == Spec => []NoDeadEnd
BY StackNoDeadEnd, StackHolds, PTL

\* They mean what the values do.
LEMMA StackLanguage == StackInv => LanguageExact
<1> SUFFICES ASSUME StackInv, NEW f \in Newest
             PROVE  IF f.nfa.n = 0 THEN f.lang = {<<>>}
                    ELSE ~f.lost => LanguageOf(f.nfa, Words) = f.lang
  BY DEF LanguageExact
<1>1. f.nfa \in Fragments /\ (f.nfa.n = 0 \/ ~f.lost => Means(f.nfa, f.lang))
  BY NewestIsValue DEF IsValue
<1>2. CASE f.nfa.n = 0
  BY <1>1, <1>2 DEF Means
<1>3. CASE f.nfa.n # 0 /\ ~f.lost
  <2>1. f.nfa \in Pieces
    BY <1>1, <1>3, OnlyNoStates
  <2>2. f.lang \in SUBSET Words /\ Exact(f.nfa, f.lang)
    BY <1>1, <1>3 DEF Means
  <2>3. LanguageOf(f.nfa, Words) = f.lang
    BY <2>1, <2>2, LanguageIsMeant
  <2> QED BY <1>3, <2>3
<1> QED BY <1>2, <1>3

\* The NFA a value carries accepts the words that the part of the pattern it was
\* built from means and no others, whatever the pattern; the value of a pattern
\* in which a branch was lost is excepted.
THEOREM LanguageAlwaysExact == Spec => []LanguageExact
BY StackLanguage, StackHolds, PTL

\* And their cycles are those that `loops' tells of.
LEMMA StackCycles == StackInv => CycleOnlyFromStar
<1> SUFFICES ASSUME StackInv, NEW f \in Newest, ~f.lost
             PROVE  f.loops <=>
                        \E s \in NStates(f.nfa) :
                            s \in Closed(f.nfa, {e[2] : e \in {d \in f.nfa.eps : d[1] = s}})
  BY DEF CycleOnlyFromStar
<1>1. f.nfa \in Fragments /\ (f.loops <=> ~Acyclic(f.nfa))
  BY NewestIsValue DEF IsValue
<1>2. ~Acyclic(f.nfa) <=>
          \E s \in NStates(f.nfa) : s \in Closed(f.nfa, Following(f.nfa, s))
  BY <1>1, CyclesAre
<1> QED BY <1>1, <1>2 DEF Following

\* Whatever the pattern, epsilon edges form a cycle exactly if a star or a plus was
\* put on something that accepts the empty word, unless a branch was lost: all other
\* patterns give NFAs on which epsilonClosure meets no state again for ever.
THEOREM CyclesOnlyFromStars == Spec => []CycleOnlyFromStar
BY StackCycles, StackHolds, PTL

\* The NFA of a value leads to its stop state over listed characters, if there is
\* one in each of its atoms.
LEMMA ListedIsTrim ==
    ASSUME NEW f, IsValue(f), f.nfa.n # 0, AtomsListed(f)
    PROVE  Trim(f.nfa)
<1> DEFINE m == f.nfa
           E == {C \in SUBSET Char : C \ Skipped # {}}
<1>1. E \in Alphabets
  BY DEF Alphabets
<1>2. f.atoms \subseteq E
  BY DEF IsValue, AtomsListed
<1>3. \A C \in E : C \ Skipped # {}
  OBVIOUS
<1> HIDE DEF E
<1>4. m \in LivePieces(E)
  <2>1. m \in LiveFragments(E)
    BY <1>1, <1>2 DEF IsValue
  <2>2. m # NoStates
    BY DEF NoStates
  <2> QED BY <2>1, <2>2 DEF LiveFragments
<1> HIDE DEF m
<1>5. Labelled(E, m) /\ LeadsTo(m, {NStop(m)})
  BY <1>4 DEF LivePieces
<1>6. ASSUME NEW R \in SUBSET NStates(m), NStop(m) \in R,
             \A s \in NStates(m), t \in R :
                 <<s, t>> \in m.eps \/ m.edges[s][t] \ Skipped # {} => s \in R
      PROVE  R = NStates(m)
  <2>1. \A s, t \in NStates(m) : m.edges[s][t] # {} => m.edges[s][t] \ Skipped # {}
    BY <1>3, <1>5 DEF Labelled
  <2>2. BackwardClosed(m, R)
    BY <1>6, <2>1 DEF BackwardClosed, Joins
  <2> QED BY <1>5, <1>6, <2>2 DEF LeadsTo
<1>7. Trim(m)
  BY <1>6 DEF Trim
<1> QED BY <1>7 DEF m

\* If there is a character languageChars enumerates in every atom of a pattern, its
\* NFA is what NoDeadLeafMade (SubsetConstructionProofs) asks for: the DFA made of
\* it has no dead leaf.
THEOREM PatternsAreTrim ==
    Spec => [](\A f \in Newest : f.nfa.n # 0 /\ AtomsListed(f) => Trim(f.nfa))
<1>1. StackInv => \A f \in Newest : f.nfa.n # 0 /\ AtomsListed(f) => Trim(f.nfa)
  BY NewestIsValue, ListedIsTrim
<1> QED BY <1>1, StackHolds, PTL

-----------------------------------------------------------------------------
(* The components' theorems, as the pipeline uses them. *)

\* The deterministic automata.
AllMachines ==
    {m \in UNION {[n      : {k},
                   edges  : [0 .. (k - 1) -> [0 .. (k - 1) -> SUBSET Char]],
                   accept : SUBSET (0 .. (k - 1))] : k \in Nat \ {0}} :
        \A s, t, u \in 0 .. (m.n - 1) : t # u => m.edges[s][t] \cap m.edges[s][u] = {}}

\* The theorems about the subset construction, of any NFA, and about a call, of a
\* function made from any automaton.
Determinizing == INSTANCE SubsetConstructionProofs WITH Nfas <- WithStates, Subjects <- Words
Calling == INSTANCE MatcherProofs WITH Machines <- AllMachines, result <- verdict

\* What SubsetConstruction assumes.
LEMMA NfasAssumed ==
    /\ \A m \in WithStates : Determinizing!IsNfa(m)
    /\ \A w \in Words : w \in Seq(Char)
<1>1. ASSUME NEW m \in WithStates PROVE Determinizing!IsNfa(m)
  <2>1. IsNfa(m)
    BY AreGraphs, GraphIsNfa
  <2> QED BY <2>1 DEF IsNfa, NStates, Determinizing!IsNfa, Determinizing!NStates
<1>2. ASSUME NEW w \in Words PROVE w \in Seq(Char)
  BY BoundsAssumption DEF Words
<1> QED BY <1>1, <1>2

\* What Matcher assumes.
LEMMA MachinesAssumed ==
    /\ \A m \in AllMachines : Calling!WellFormed(m) /\ Calling!Deterministic(m)
    /\ Subjects \subseteq Seq(Char)
    /\ SizeMod \in Nat /\ \A w \in Subjects : Len(w) < SizeMod
<1>1. ASSUME NEW m \in AllMachines PROVE Calling!WellFormed(m) /\ Calling!Deterministic(m)
  <2>1. PICK k \in Nat \ {0} :
            m \in [n      : {k},
                   edges  : [0 .. (k - 1) -> [0 .. (k - 1) -> SUBSET Char]],
                   accept : SUBSET (0 .. (k - 1))]
    BY DEF AllMachines
  <2>2. m.n = k /\ Calling!States(m) = 0 .. (k - 1)
    BY <2>1 DEF Calling!States
  <2>3. Calling!WellFormed(m)
    BY <2>1, <2>2 DEF Calling!WellFormed
  <2>4. Calling!Deterministic(m)
    BY <2>2 DEF Calling!Deterministic, AllMachines
  <2> QED BY <2>3, <2>4
<1>2. ASSUME NEW w \in Subjects PROVE w \in Seq(Char) /\ Len(w) < SizeMod
  <2>1. w \in Words /\ SizeMod \in Nat /\ MaxLen < SizeMod /\ MaxLen \in Nat
    BY SubjectsAssumption, SizeAssumption, BoundsAssumption
  <2> QED BY <2>1, WordFacts
<1> QED BY <1>1, <1>2, SizeAssumption

\* A construction that begins has its invariant.
LEMMA ConstructionInit == Determinizing!Init' => Determinizing!IInv'
<1>1. Determinizing!Init => Determinizing!IInv
  BY NfasAssumed, Determinizing!InitInv
<1> QED BY <1>1, PTL

\* Every step of a construction keeps it.
LEMMA ConstructionStep ==
    Determinizing!IInv /\ [Determinizing!Next]_Determinizing!vars => Determinizing!IInv'
BY NfasAssumed, Determinizing!StepInv

\* A call that begins has its invariant.
LEMMA CallInit == Calling!Init' => Calling!IInv'
<1>1. Calling!Init => Calling!IInv
  BY MachinesAssumed, Calling!InitIInv
<1> QED BY <1>1, PTL

\* Every step of a call keeps it.
LEMMA CallStep == Calling!IInv /\ [Calling!Next]_Calling!vars => Calling!IInv'
BY MachinesAssumed, Calling!StepIInv

-----------------------------------------------------------------------------
(* The pipeline's steps are steps of the components whose theorems are cited. *)

\* The parser's side, the construction and its proofs mean the same by a closure.
LEMMA SameClosure ==
    /\ \A m, S : Construction!EpsilonClosure(m, S) = Determinizing!EpsilonClosure(m, S)
    /\ \A m, S : EpsilonClosure(m, S) = Determinizing!EpsilonClosure(m, S)
BY DEF Construction!EpsilonClosure, Determinizing!EpsilonClosure, EpsilonClosure,
    Construction!EpsClosed, Determinizing!EpsClosed, EpsClosed,
    Construction!NStates, Determinizing!NStates, NStates

\* They mean the same by a move.
LEMMA SameMove ==
    /\ \A m, S, c : Construction!StepSet(m, S, c) = Determinizing!StepSet(m, S, c)
    /\ \A m, S, c : Construction!Move(m, S, c) = Determinizing!Move(m, S, c)
    /\ \A m : Construction!LanguageChars(m) = Determinizing!LanguageChars(m)
    /\ \A m : Construction!NStop(m) = Determinizing!NStop(m)
BY SameClosure DEF Construction!StepSet, Determinizing!StepSet, 
    Construction!Move, Determinizing!Move, Construction!NStates, Determinizing!NStates,
    Construction!LanguageChars, Determinizing!LanguageChars, Construction!NStop, Determinizing!NStop

\* A step of the construction in the pipeline is one the proofs speak of.
LEMMA SameConstruction == Construction!Next => Determinizing!Next
<1>1. Construction!Pop => Determinizing!Pop
  BY SameMove DEF Construction!Pop, Determinizing!Pop, Construction!Rest, Determinizing!Rest
<1>2. Construction!FinishState => Determinizing!FinishState
  BY DEF Construction!FinishState, Determinizing!FinishState
<1>3. Construction!Finish => Determinizing!Finish
  BY DEF Construction!Finish, Determinizing!Finish
<1>4. Construction!Finished => Determinizing!Finished
  BY DEF Construction!Finished, Determinizing!Finished, Construction!vars, Determinizing!vars
<1>5. ASSUME NEW c PROVE Construction!SkipChar(c) => Determinizing!SkipChar(c)
  BY SameMove DEF Construction!SkipChar, Determinizing!SkipChar
<1>6. ASSUME NEW c PROVE Construction!ExistingState(c) => Determinizing!ExistingState(c)
  BY SameMove DEF Construction!ExistingState, Determinizing!ExistingState, Construction!AddEdge,
      Determinizing!AddEdge, Construction!Discovered, Determinizing!Discovered
<1>7. ASSUME NEW c PROVE Construction!NewState(c) => Determinizing!NewState(c)
  BY SameMove DEF Construction!NewState, Determinizing!NewState, Construction!AddEdge,
      Determinizing!AddEdge, Construction!Discovered, Determinizing!Discovered,
      Construction!WithState, Determinizing!WithState,
      Construction!NextNumber, Determinizing!NextNumber,
      Construction!AcceptOf, Determinizing!AcceptOf
<1>8. Construction!ProcessChar => Determinizing!ProcessChar
  BY <1>5, <1>6, <1>7 DEF Construction!ProcessChar, Determinizing!ProcessChar
<1> QED BY <1>1, <1>2, <1>3, <1>4, <1>8 DEF Construction!Next, Determinizing!Next

\* The pipeline's call and its proofs mean the same by an edge, a leaf and an
\* accept state,
LEMMA SameBlocks ==
    /\ \A m, s, c : Function!Successors(m, s, c) = Calling!Successors(m, s, c)
    /\ \A m, s : Function!IsAcceptState(m, s) <=> Calling!IsAcceptState(m, s)
    /\ \A m, s : Function!IsLeaf(m, s) <=> Calling!IsLeaf(m, s)
    /\ Function!StartState = Calling!StartState
BY DEF Function!Successors, Calling!Successors, Function!IsAcceptState, Calling!IsAcceptState,
    Function!IsLeaf, Calling!IsLeaf, Function!States, Calling!States, Function!StartState,
    Calling!StartState

\* by what the variables say,
LEMMA SameState ==
    /\ Function!Pending <=> Calling!Pending
    /\ Function!AtEnd <=> Calling!AtEnd
    /\ Function!Cursor = Calling!Cursor
    /\ Function!Accepting <=> Calling!Accepting
    /\ Function!Stuck <=> Calling!Stuck
    /\ Function!Consumed = Calling!Consumed
    /\ Function!call = Calling!call
    /\ Function!vars = Calling!vars
    /\ \A x : Function!Inc(x) = Calling!Inc(x)
BY SameBlocks DEF Function!Pending, Calling!Pending, Function!AtEnd, Calling!AtEnd,
    Function!Cursor, Calling!Cursor, Function!Accepting, Calling!Accepting,
    Function!Stuck, Calling!Stuck, Function!Consumed, Calling!Consumed,
    Function!call, Calling!call, Function!vars, Calling!vars, Function!Inc, Calling!Inc

\* and by a return.
LEMMA SameReturns ==
    /\ Function!ReturnAccept <=> Calling!ReturnAccept
    /\ Function!ReturnReject <=> Calling!ReturnReject
    /\ Function!CountGoTo <=> Calling!CountGoTo
    /\ Function!NewStart = Calling!NewStart
BY SameState DEF Function!ReturnAccept, Calling!ReturnAccept, Function!ReturnReject,
    Calling!ReturnReject, Function!CountGoTo, Calling!CountGoTo, Function!NewStart, Calling!NewStart,
    Function!Stored, Calling!Stored, Function!call, Calling!call

\* A step of the call in the pipeline is one the proofs speak of.
LEMMA SameCall == Function!Next => Calling!Next
<1>1. Function!AcceptAtEnd => Calling!AcceptAtEnd
  BY SameState, SameReturns DEF Function!AcceptAtEnd, Calling!AcceptAtEnd
<1>2. Function!RejectAtEnd => Calling!RejectAtEnd
  BY SameState, SameReturns DEF Function!RejectAtEnd, Calling!RejectAtEnd
<1>3. Function!TakeEdge => Calling!TakeEdge
  BY SameBlocks, SameState, SameReturns DEF Function!TakeEdge, Calling!TakeEdge,
     Function!call, Calling!call
<1>4. Function!RejectStuck => Calling!RejectStuck
  BY SameState, SameReturns DEF Function!RejectStuck, Calling!RejectStuck
<1>5. Function!AcceptStuck => Calling!AcceptStuck
  BY SameState, SameReturns DEF Function!AcceptStuck, Calling!AcceptStuck
<1>6. Function!Restart => Calling!Restart
  BY SameBlocks, SameState, SameReturns DEF Function!Restart, Calling!Restart,
     Function!call, Calling!call
<1>7. Function!Returned => Calling!Returned
  BY SameState DEF Function!Returned, Calling!Returned, Function!vars, Calling!vars,
     Function!call, Calling!call
<1> QED BY <1>1, <1>2, <1>3, <1>4, <1>5, <1>6, <1>7 DEF Function!Next, Calling!Next

-----------------------------------------------------------------------------
(* What a finished construction has made of a pattern. *)

\* TLC computes the closure Nfa defines.
LEMMA ClosedIsClosure ==
    ASSUME NEW m \in WithStates, NEW S \in SUBSET NStates(m)
    PROVE  Determinizing!EpsilonClosure(m, S) = Closed(m, S)
<1>1. m.n \in Nat /\ m.eps \subseteq NStates(m) \X NStates(m)
  BY NfaFacts
<1>2. /\ S \subseteq Closed(m, S) /\ Closed(m, S) \in SUBSET NStates(m)
      /\ EpsClosed(m, Closed(m, S))
      /\ \A T \in SUBSET NStates(m) : S \subseteq T /\ EpsClosed(m, T) => Closed(m, S) \subseteq T
  BY <1>1, ClosedFacts
<1>3. EpsilonClosure(m, S) = Closed(m, S)
  BY <1>2 DEF EpsilonClosure
<1> QED BY <1>3, SameClosure

\* An NFA accepts a word if the word leads to its stop state, as LanguageOf says.
LEMMA AcceptsAfter ==
    ASSUME NEW m \in WithStates, NEW w \in Words
    PROVE  Determinizing!NAccepts(m, w) <=> NStop(m) \in After(m, w)
<1> DEFINE n == Len(w)
           N == NStates(m)
           Leads(k, q) == Determinizing!NReaches(m, w, k, q)
           step(s, c) == Determinizing!EpsilonClosure(m, Determinizing!MoveFrom(m, s, c))
<1>1. n \in Nat
  BY WordFacts
<1>2. /\ NStop(m) \in N /\ 0 \in N /\ NStart = 0 /\ Determinizing!NStart = 0
      /\ Determinizing!NStates(m) = N /\ Determinizing!NStop(m) = NStop(m)
      /\ Determinizing!IsNfa(m)
  BY NfasAssumed, NfaFacts DEF NStart, Determinizing!NStart, Determinizing!NStates, NStates,
     Determinizing!NStop, NStop
<1>3. PICK f :
          /\ After(m, w) = f[n] /\ f[0] = Closed(m, {NStart})
          /\ \A k \in 0 .. n : f[k] \in SUBSET N
          /\ \A k \in 1 .. n : f[k] = Closed(m, Move(m, f[k - 1], w[k]))
  BY AfterRec
<1> DEFINE K == {k \in 0 .. n : \A q \in N : q \in f[k] <=> Leads(k, q)}
<1>4. 0 \in K
  <2>1. f[0] = Determinizing!EpsilonClosure(m, {Determinizing!NStart})
    BY <1>2, <1>3, ClosedIsClosure
  <2>2. ASSUME NEW q \in f[0] PROVE Leads(0, q)
    BY NfasAssumed, <2>1, <2>2, Determinizing!NReachesStart
  <2>3. ASSUME NEW q, Leads(0, q) PROVE q \in f[0]
    BY <2>1, <2>3 DEF Determinizing!NReaches, Determinizing!IsNRunTo
  <2> QED BY <1>1, <2>2, <2>3
<1>5. ASSUME NEW k \in 0 .. (n - 1), k \in K PROVE k + 1 \in K
  <2>1. k \in Nat /\ k + 1 \in 1 .. n /\ k \in 0 .. n /\ (k + 1) - 1 = k
    BY <1>1
  <2>2. f[k] \in SUBSET N /\ \A q \in N : q \in f[k] <=> Leads(k, q)
    BY <1>3, <1>5, <2>1
  <2>3. f[k + 1] = Determinizing!StepSet(m, f[k], w[k + 1])
    <3>1. Move(m, f[k], w[k + 1]) \in SUBSET N
      BY DEF Move
    <3>2. Move(m, f[k], w[k + 1]) = Determinizing!Move(m, f[k], w[k + 1])
      BY DEF Move, Determinizing!Move, NStates, Determinizing!NStates
    <3>3. f[k + 1] = Closed(m, Move(m, f[k], w[k + 1]))
      BY <1>3, <2>1
    <3> QED BY <3>1, <3>2, <3>3, ClosedIsClosure DEF Determinizing!StepSet
  <2>4. ASSUME NEW q \in N, q \in f[k + 1] PROVE Leads(k + 1, q)
    <3>1. PICK s \in f[k] : q \in step(s, w[k + 1])
      BY NfasAssumed, <1>2, <2>3, <2>4, Determinizing!StepSetFrom
    <3>2. Leads(k, s)
      BY <2>2, <3>1
    <3> QED BY NfasAssumed, <2>1, <3>1, <3>2, Determinizing!NReachesNext
  <2>5. ASSUME NEW q \in N, Leads(k + 1, q) PROVE q \in f[k + 1]
    <3>1. PICK s \in N : Leads(k, s) /\ q \in step(s, w[k + 1])
      BY NfasAssumed, <1>2, <2>1, <2>5, Determinizing!NReachesLast
    <3>2. s \in f[k]
      BY <2>2, <3>1
    <3>3. step(s, w[k + 1]) \subseteq Determinizing!StepSet(m, f[k], w[k + 1])
      BY NfasAssumed, <3>2, Determinizing!StepSetContains
    <3> QED BY <2>3, <3>1, <3>3
  <2> HIDE DEF Leads
  <2> QED BY <2>1, <2>4, <2>5
<1>6. n \in K
  <2> HIDE DEF K
  <2>1. 0 .. n \subseteq K
    BY <1>1, <1>4, <1>5, UpTo
  <2> QED BY <1>1, <2>1
<1>7. Determinizing!NAccepts(m, w) <=> Leads(n, NStop(m))
  BY NfasAssumed, <1>2, Determinizing!NAcceptsReaches
<1> HIDE DEF Leads
<1> QED BY <1>2, <1>3, <1>6, <1>7

\* d accepts what f means, but for words with characters that are not listed, and
\* has no dead leaf if there is a listed one in every atom.
Speaks(d, f) ==
    /\ d \in AllMachines
    /\ ~f.lost =>
           \A w \in Words :
               Listed(w) => (Calling!Accepts(d, w, 0, Len(w)) <=> w \in f.lang)
    /\ AtomsListed(f) => Calling!NoDeadLeaf(d)

\* An automaton means the same to the construction and to a call.
LEMMA SameLanguages ==
    /\ \A m, w, i, j : Determinizing!Machine!Accepts(m, w, i, j) <=> Calling!Accepts(m, w, i, j)
    /\ \A m : Determinizing!Machine!NoDeadLeaf(m) <=> Calling!NoDeadLeaf(m)
    /\ \A m : Determinizing!Machine!WellFormed(m) <=> Calling!WellFormed(m)
    /\ \A m : Determinizing!Machine!Deterministic(m) <=> Calling!Deterministic(m)
BY DEF Determinizing!Machine!Accepts, Determinizing!Machine!Runs, Determinizing!Machine!IsRun,
    Determinizing!Machine!States, Determinizing!Machine!StartState,
    Determinizing!Machine!NoDeadLeaf, Determinizing!Machine!DeadLeaf, Determinizing!Machine!IsLeaf,
    Determinizing!Machine!IsAcceptState, Determinizing!Machine!WellFormed,
    Determinizing!Machine!Deterministic,
    Calling!Accepts, Calling!Runs, Calling!IsRun, Calling!States, Calling!StartState,
    Calling!NoDeadLeaf, Calling!DeadLeaf, Calling!IsLeaf, Calling!IsAcceptState,
    Calling!WellFormed, Calling!Deterministic

\* The automaton of a finished construction accepts what the pattern means.
LEMMA FinishedSpeaks ==
    ASSUME Determinizing!IInv, done, NEW f, IsValue(f), f.nfa.n # 0, nfa = f.nfa
    PROVE  Speaks(Construction!Dfa, f)
<1> DEFINE d == Construction!Dfa
<1>1. d = Determinizing!Dfa /\ d = [n |-> count, edges |-> edges, accept |-> acceptStates]
  BY DEF Construction!Dfa, Determinizing!Dfa
<1>2. nfa \in Pieces /\ nfa \in WithStates
  <2>1. nfa \in Pieces
    BY OnlyNoStates DEF IsValue
  <2> QED BY <2>1, PieceFacts
<1>3. Determinizing!LanguagePreserved /\ Determinizing!LiveNfaLiveDfa /\ Determinizing!DfaUsable
  BY NfasAssumed, Determinizing!LanguageInv, Determinizing!LiveInv, Determinizing!UsableInv
<1> HIDE DEF d
<1>4. d \in AllMachines
  <2>1. Calling!WellFormed(d) /\ Calling!Deterministic(d)
    BY <1>1, <1>3, SameLanguages DEF Determinizing!DfaUsable
  <2> DEFINE k == count
  <2>2. /\ k \in Nat \ {0} /\ edges \in [0 .. (k - 1) -> [0 .. (k - 1) -> SUBSET Char]]
        /\ acceptStates \in SUBSET (0 .. (k - 1)) /\ d.n = k
    BY <1>1, <2>1 DEF Calling!WellFormed, Calling!States
  <2> HIDE DEF k
  <2>3. d \in [n      : {k},
               edges  : [0 .. (k - 1) -> [0 .. (k - 1) -> SUBSET Char]],
               accept : SUBSET (0 .. (k - 1))]
    BY <1>1, <2>2 DEF k
  <2>4. \A s, t, u \in 0 .. (d.n - 1) : t # u => d.edges[s][t] \cap d.edges[s][u] = {}
    BY <2>1 DEF Calling!Deterministic, Calling!States
  <2>5. d \in UNION {[n      : {j},
                      edges  : [0 .. (j - 1) -> [0 .. (j - 1) -> SUBSET Char]],
                      accept : SUBSET (0 .. (j - 1))] : j \in Nat \ {0}}
    BY <2>2, <2>3
  <2> QED BY <2>4, <2>5 DEF AllMachines
<1>5. ASSUME ~f.lost, NEW w \in Words, Listed(w)
      PROVE  Calling!Accepts(d, w, 0, Len(w)) <=> w \in f.lang
  <2>1. Means(nfa, f.lang) /\ nfa.n # 0
    BY <1>5 DEF IsValue
  <2>2. f.lang \in SUBSET Words /\ Exact(nfa, f.lang)
    BY <2>1 DEF Means
  <2>3. LanguageOf(nfa, Words) = f.lang
    BY <1>2, <2>2, LanguageIsMeant
  <2>4. w \in f.lang <=> NStop(nfa) \in After(nfa, w)
    BY <2>1, <2>3 DEF LanguageOf
  <2>5. Calling!Accepts(d, w, 0, Len(w)) <=> Determinizing!NAccepts(nfa, w)
    BY <1>1, <1>3, <1>5, SameLanguages DEF Determinizing!LanguagePreserved, Listed
  <2> QED BY <1>2, <2>4, <2>5, AcceptsAfter
<1>6. ASSUME AtomsListed(f) PROVE Calling!NoDeadLeaf(d)
  <2>1. Trim(nfa)
    BY <1>6, ListedIsTrim
  <2>2. Determinizing!Trim(nfa)
    BY <2>1 DEF Trim, Determinizing!Trim, NStates, Determinizing!NStates, NStop, Determinizing!NStop
  <2> QED BY <1>1, <1>3, <2>2, SameLanguages DEF Determinizing!LiveNfaLiveDfa
<1> QED BY <1>4, <1>5, <1>6 DEF Speaks, d

\* A run over a part of a word is one over the part by itself.
LEMMA RunOfPart ==
    ASSUME NEW d, NEW w \in Words, NEW i \in 0 .. Len(w), NEW j \in 0 .. Len(w), i <= j
    PROVE  Calling!Accepts(d, w, i, j) <=> Calling!Accepts(d, Part(w, i, j), 0, j - i)
<1> DEFINE v == Part(w, i, j)
           l == j - i
           S == Calling!States(d)
<1>1. /\ Len(w) \in Nat /\ i \in Nat /\ j \in Nat /\ l \in Nat
      /\ Len(v) = l /\ \A k \in 1 .. l : v[k] = w[i + k]
  BY WordFacts
<1> HIDE DEF v
<1>2. ASSUME Calling!Accepts(d, w, i, j) PROVE Calling!Accepts(d, v, 0, l)
  <2>1. PICK p \in [i .. j -> S] : Calling!IsRun(d, w, i, j, p) /\ p[j] \in d.accept
    BY <1>2 DEF Calling!Accepts, Calling!Runs
  <2> DEFINE q == [k \in 0 .. l |-> p[i + k]]
  <2>2. \A k \in 0 .. l : i + k \in i .. j /\ q[k] = p[i + k]
    BY <1>1
  <2>3. q \in [0 .. l -> S] /\ q[0] = p[i] /\ q[l] = p[j]
    BY <1>1, <2>1, <2>2
  <2> HIDE DEF q
  <2>4. ASSUME NEW k \in 0 .. (l - 1) PROVE v[k + 1] \in d.edges[q[k]][q[k + 1]]
    <3>1. /\ i + k \in i .. (j - 1) /\ i + (k + 1) = (i + k) + 1 /\ k \in 0 .. l /\ k + 1 \in 0 .. l
          /\ k + 1 \in 1 .. l
      BY <1>1
    <3>2. v[k + 1] = w[(i + k) + 1] /\ q[k] = p[i + k] /\ q[k + 1] = p[(i + k) + 1]
      BY <1>1, <2>2, <3>1
    <3>3. w[(i + k) + 1] \in d.edges[p[i + k]][p[(i + k) + 1]]
      BY <2>1, <3>1 DEF Calling!IsRun
    <3> QED BY <3>2, <3>3
  <2>5. Calling!IsRun(d, v, 0, l, q)
    BY <2>1, <2>3, <2>4 DEF Calling!IsRun
  <2> QED BY <2>1, <2>3, <2>5 DEF Calling!Accepts, Calling!Runs
<1>3. ASSUME Calling!Accepts(d, v, 0, l) PROVE Calling!Accepts(d, w, i, j)
  <2>1. PICK p \in [0 .. l -> S] : Calling!IsRun(d, v, 0, l, p) /\ p[l] \in d.accept
    BY <1>3 DEF Calling!Accepts, Calling!Runs
  <2> DEFINE q == [k \in i .. j |-> p[k - i]]
  <2>2. \A k \in i .. j : k - i \in 0 .. l /\ q[k] = p[k - i]
    BY <1>1
  <2>3. q \in [i .. j -> S] /\ q[i] = p[0] /\ q[j] = p[l]
    <3>1. i \in i .. j /\ j \in i .. j /\ i - i = 0 /\ j - i = l
      BY <1>1
    <3> QED BY <2>1, <2>2, <3>1
  <2> HIDE DEF q
  <2>4. ASSUME NEW k \in i .. (j - 1) PROVE w[k + 1] \in d.edges[q[k]][q[k + 1]]
    <3>1. /\ k - i \in 0 .. (l - 1) /\ (k + 1) - i = (k - i) + 1 /\ k \in i .. j /\ k + 1 \in i .. j
          /\ (k - i) + 1 \in 1 .. l /\ i + ((k - i) + 1) = k + 1
      BY <1>1
    <3>2. v[(k - i) + 1] = w[k + 1] /\ q[k] = p[k - i] /\ q[k + 1] = p[(k - i) + 1]
      BY <1>1, <2>2, <3>1
    <3>3. v[(k - i) + 1] \in d.edges[p[k - i]][p[(k - i) + 1]]
      BY <2>1, <3>1 DEF Calling!IsRun
    <3> QED BY <3>2, <3>3
  <2>5. Calling!IsRun(d, w, i, j, q)
    BY <2>1, <2>3, <2>4 DEF Calling!IsRun
  <2> QED BY <2>1, <2>3, <2>5 DEF Calling!Accepts, Calling!Runs
<1> QED BY <1>2, <1>3 DEF v

-----------------------------------------------------------------------------
(* The pipeline. *)

\* The variables of the function before it is called.
NotCalled ==
    /\ state = 0 /\ counter = 0 /\ start_pos = 0 /\ end_pos = 0 /\ verdict = "pending"
    /\ outStart = Function!Untouched /\ outEnd = Function!Untouched

\* A search that has accepted has reported the positions it had, and the end lies
\* in the subject.
SpanReported ==
    /\ kind = "search" => wants = {"start", "end"}
    /\ kind = "search" /\ verdict = "accept" =>
           /\ outStart = start_pos /\ outEnd = end_pos
           /\ Calling!NoDeadLeaf(dfa) => end_pos <= Len(subject)

\* The inductive invariant: each component's, while it is at work, and what it
\* hands to the next.
PipelineInv ==
    /\ StackInv
    /\ stage \in {"determinize", "call"} => IsValue(pattern) /\ pattern.nfa.n # 0
    /\ stage = "determinize" => nfa = pattern.nfa /\ Determinizing!IInv
    /\ stage # "call" => NotCalled
    /\ stage = "call" =>
           /\ Speaks(dfa, pattern) /\ subject \in Subjects
           /\ Calling!IInv /\ SpanReported

\* It holds when the pipeline begins.
LEMMA PipelineStart == PipelineInit => PipelineInv
<1> SUFFICES ASSUME PipelineInit PROVE PipelineInv
  OBVIOUS
<1>1. StackInv
  BY ParserInit DEF PipelineInit
<1>2. stage = "parsing"
  BY DEF PipelineInit, Init
<1>3. NotCalled
  BY DEF PipelineInit, NotCalled
<1> QED BY <1>1, <1>2, <1>3 DEF PipelineInv

\* The parser keeps it.
LEMMA ParseKeeps == PipelineInv /\ Parse => PipelineInv'
<1> SUFFICES ASSUME PipelineInv, Parse PROVE PipelineInv'
  OBVIOUS
<1>1. StackInv'
  BY ParserNext DEF PipelineInv, Parse
<1>2. /\ stage \in {"parsing", "parsed", "error"}
      /\ stage' \in {"parsing", "parsed", "error"}
  BY DEF Parse, Next, Character, OpenGroup, Quantifier, Pipe, CloseGroup, EndOfPattern,
         SyntaxError, Ended, Read, vars
<1>3. NotCalled'
  BY <1>2 DEF PipelineInv, NotCalled, Parse, call
<1> QED BY <1>1, <1>2, <1>3 DEF PipelineInv

\* The construction begins with the NFA of a pattern.
LEMMA DeterminizeKeeps == PipelineInv /\ Determinize => PipelineInv'
<1> SUFFICES ASSUME PipelineInv, Determinize PROVE PipelineInv'
  OBVIOUS
<1>1. /\ stage = "parsed" /\ result.nfa.n > 0
      /\ stage' = "determinize" /\ pattern' = result /\ result' = NoAtom /\ nfa' = result.nfa
      /\ UNCHANGED <<frames, atom, tokens, call>>
  BY DEF Determinize
<1>2. PICK V : HoldsOnly(V)
  BY DEF PipelineInv, StackInv
<1>3. IsValue(result)
  BY <1>1, <1>2 DEF HoldsOnly
<1>4. StackInv'
  <2>1. HoldsOnly(V)'
    BY <1>1, <1>2 DEF HoldsOnly
  <2> QED BY <2>1 DEF StackInv
<1>5. result.nfa.n # 0 /\ IsValue(pattern)' /\ pattern'.nfa = result.nfa
  <2>1. result.nfa.n # 0
    BY <1>1
  <2> QED BY <1>1, <1>3, <2>1 DEF IsValue
<1>6. result.nfa \in WithStates
  <2>1. result.nfa \in Pieces
    BY <1>3, <1>5, OnlyNoStates DEF IsValue
  <2> QED BY <2>1, PieceFacts
<1>7. Determinizing!Init'
  <2>1. Construction!First(result.nfa) = Determinizing!First(result.nfa)
    BY SameClosure DEF Construction!First, Determinizing!First, Construction!NStart,
       Determinizing!NStart
  <2>2. NStop(result.nfa) = Determinizing!NStop(result.nfa)
    BY DEF NStop, Determinizing!NStop
  <2>3. acceptStates' = Determinizing!AcceptOf(Determinizing!First(nfa), 0)'
    BY <1>1, <2>1, <2>2 DEF Determinize, Determinizing!AcceptOf
  <2>4. translations' = [S \in {Determinizing!First(nfa')} |-> 0]
    BY <1>1, <2>1 DEF Determinize
  <2>5. queue' = <<Determinizing!First(nfa')>>
    BY <1>1, <2>1 DEF Determinize
  <2>6. /\ current' = {} /\ todo' = {} /\ count' = 1 /\ done' = FALSE
        /\ edges' = [s \in {0} |-> [t \in {0} |-> {}]]
    BY DEF Determinize
  <2> QED BY <1>1, <1>6, <2>3, <2>4, <2>5, <2>6 DEF Determinizing!Init
<1>8. Determinizing!IInv'
  BY <1>7, ConstructionInit
<1>9. NotCalled'
  BY <1>1 DEF PipelineInv, NotCalled, call
<1> QED BY <1>1, <1>4, <1>5, <1>8, <1>9 DEF PipelineInv

\* It goes on by its own invariant.
LEMMA ConstructKeeps == PipelineInv /\ Construct => PipelineInv'
<1> SUFFICES ASSUME PipelineInv, Construct PROVE PipelineInv'
  OBVIOUS
<1>1. /\ stage = "determinize" /\ stage' = stage /\ Construction!Next
      /\ UNCHANGED <<frames, atom, result, pattern, call>>
  BY DEF Construct, parser
<1>2. Determinizing!Next
  BY <1>1, SameConstruction
<1>3. Determinizing!IInv'
  BY <1>1, <1>2, ConstructionStep DEF PipelineInv
<1>4. nfa' = nfa
  BY <1>2 DEF Determinizing!Next, Determinizing!Pop, Determinizing!ProcessChar,
     Determinizing!SkipChar, Determinizing!ExistingState, Determinizing!NewState,
     Determinizing!FinishState, Determinizing!Finish, Determinizing!Finished, Determinizing!vars
<1>5. StackInv'
  BY <1>1 DEF PipelineInv, StackInv, HoldsOnly
<1>6. NotCalled'
  BY <1>1 DEF PipelineInv, NotCalled, call
<1> QED BY <1>1, <1>3, <1>4, <1>5, <1>6 DEF PipelineInv, IsValue

\* The function called is that of the automaton constructed.
LEMMA CallKeeps == PipelineInv /\ Call => PipelineInv'
<1> SUFFICES ASSUME PipelineInv, Call PROVE PipelineInv'
  OBVIOUS
<1>1. /\ stage = "determinize" /\ done /\ stage' = "call"
      /\ dfa' = Construction!Dfa
      /\ kind' \in Function!Kinds /\ subject' \in Subjects
      /\ wants' = IF kind' = "search" THEN {"start", "end"} ELSE {}
      /\ UNCHANGED <<frames, atom, result, pattern, state, counter, start_pos, end_pos, verdict,
                     outStart, outEnd>>
  BY DEF Call, parser
<1>2. StackInv'
  BY <1>1 DEF PipelineInv, StackInv, HoldsOnly
<1>3. IsValue(pattern) /\ pattern.nfa.n # 0 /\ nfa = pattern.nfa /\ Determinizing!IInv /\ NotCalled
  BY <1>1 DEF PipelineInv
<1>4. Speaks(dfa', pattern')
  BY <1>1, <1>3, FinishedSpeaks
<1>5. Calling!Init'
  <2>1. Function!Kinds = Calling!Kinds /\ Function!Untouched = Calling!Untouched
    BY DEF Function!Kinds, Calling!Kinds, Function!Untouched, Calling!Untouched,
       Function!Contract!Untouched, Calling!Contract!Untouched
  <2>2. dfa' \in AllMachines
    BY <1>4 DEF Speaks
  <2> QED BY <1>1, <1>3, <2>1, <2>2 DEF Calling!Init, NotCalled, Calling!StartState
<1>6. Calling!IInv'
  BY <1>5, CallInit
<1>7. SpanReported'
  BY <1>1, <1>3 DEF SpanReported, NotCalled
<1>8. IsValue(pattern)' /\ (pattern.nfa.n # 0)'
  BY <1>1, <1>3 DEF IsValue
<1> QED BY <1>1, <1>2, <1>4, <1>6, <1>7, <1>8 DEF PipelineInv

\* The call goes on by its own invariant, and reports the positions it has.
LEMMA RunKeeps == PipelineInv /\ Run => PipelineInv'
<1> SUFFICES ASSUME PipelineInv, Run PROVE PipelineInv'
  OBVIOUS
<1>1. /\ stage = "call" /\ stage' = stage /\ Function!Next
      /\ UNCHANGED <<frames, atom, result, pattern>>
  BY DEF Run, parser
<1>2. Calling!Next
  BY <1>1, SameCall
<1>3. StackInv'
  BY <1>1 DEF PipelineInv, StackInv, HoldsOnly
<1>4. /\ IsValue(pattern) /\ pattern.nfa.n # 0 /\ Speaks(dfa, pattern) /\ subject \in Subjects
      /\ Calling!IInv /\ SpanReported
  BY <1>1 DEF PipelineInv
<1>5. Calling!IInv'
  BY <1>2, <1>4, CallStep
<1>6. UNCHANGED <<dfa, kind, subject, wants>>
  BY <1>2 DEF Calling!Next, Calling!AcceptAtEnd, Calling!RejectAtEnd, Calling!TakeEdge,
     Calling!RejectStuck, Calling!AcceptStuck, Calling!Restart, Calling!Returned,
     Calling!ReturnAccept, Calling!ReturnReject, Calling!vars, Calling!call
<1>7. SpanReported'
  <2>1. CASE Calling!AcceptAtEnd \/ Calling!AcceptStuck
    <3>1. Calling!Pending /\ Calling!ReturnAccept
      BY <2>1 DEF Calling!AcceptAtEnd, Calling!AcceptStuck
    <3>2. kind = "search" => /\ outStart' = start_pos /\ outEnd' = end_pos
                             /\ start_pos' = start_pos /\ end_pos' = end_pos
      BY <1>4, <3>1 DEF SpanReported, Calling!ReturnAccept, Calling!Stored
    <3>3. kind = "search" /\ Calling!NoDeadLeaf(dfa) => end_pos <= Len(subject)
      <4>1. kind = "search" /\ Calling!NoDeadLeaf(dfa) => end_pos = counter
        BY <1>4, <3>1 DEF Calling!IInv, Calling!EndPosInStep
      <4>2. counter \in 0 .. Len(subject) /\ Len(subject) \in Nat
        BY <1>4 DEF Calling!IInv, Calling!TypeOK
      <4> QED BY <4>1, <4>2
    <3> QED BY <1>4, <1>6, <3>2, <3>3 DEF SpanReported
  <2>2. CASE Calling!RejectAtEnd \/ Calling!RejectStuck
    <3>1. verdict' = "reject"
      BY <2>2 DEF Calling!RejectAtEnd, Calling!RejectStuck, Calling!ReturnReject
    <3> QED BY <1>4, <1>6, <3>1 DEF SpanReported
  <2>3. CASE Calling!TakeEdge \/ Calling!Restart
    <3>1. verdict' = "pending"
      BY <2>3 DEF Calling!TakeEdge, Calling!Restart, Calling!Pending
    <3> QED BY <1>4, <1>6, <3>1 DEF SpanReported
  <2>4. CASE Calling!Returned
    <3>1. UNCHANGED <<verdict, outStart, outEnd, start_pos, end_pos>>
      BY <2>4 DEF Calling!Returned, Calling!vars
    <3> QED BY <1>4, <1>6, <3>1 DEF SpanReported
  <2> QED BY <1>2, <2>1, <2>2, <2>3, <2>4 DEF Calling!Next
<1>8. IsValue(pattern)' /\ (pattern.nfa.n # 0)'
  BY <1>1, <1>4 DEF IsValue
<1>9. Speaks(dfa', pattern') /\ subject' \in Subjects
  BY <1>1, <1>4, <1>6
<1> QED BY <1>1, <1>3, <1>5, <1>7, <1>8, <1>9 DEF PipelineInv

\* Every step keeps the invariant.
LEMMA PipelineStep == PipelineInv /\ [PipelineNext]_pipeline => PipelineInv'
<1> SUFFICES ASSUME PipelineInv, [PipelineNext]_pipeline PROVE PipelineInv'
  OBVIOUS
<1>1. CASE UNCHANGED pipeline
  <2>1. /\ UNCHANGED <<frames, atom, result, stage, pattern, nfa, dfa, subject>>
        /\ UNCHANGED construction /\ UNCHANGED call
    BY <1>1 DEF pipeline, parser, construction, call
  <2>2. StackInv'
    BY <2>1 DEF PipelineInv, StackInv, HoldsOnly
  <2>3. Determinizing!IInv => Determinizing!IInv'
    <3>1. UNCHANGED Determinizing!vars
      BY <2>1 DEF construction, Determinizing!vars
    <3> QED BY <3>1, ConstructionStep
  <2>4. Calling!IInv => Calling!IInv'
    <3>1. UNCHANGED Calling!vars
      BY <2>1 DEF call, Calling!vars, Calling!call
    <3> QED BY <3>1, CallStep
  <2>5. (NotCalled => NotCalled') /\ (SpanReported => SpanReported')
    BY <2>1 DEF call, NotCalled, SpanReported
  <2>6. IsValue(pattern) => IsValue(pattern)'
    BY <2>1 DEF IsValue
  <2> QED BY <2>1, <2>2, <2>3, <2>4, <2>5, <2>6 DEF PipelineInv
<1> QED BY <1>1, ParseKeeps, DeterminizeKeeps, ConstructKeeps, CallKeeps, RunKeeps DEF PipelineNext

\* It holds in every state.
LEMMA PipelineHolds == PipelineSpec => []PipelineInv
BY PipelineStart, PipelineStep, PTL DEF PipelineSpec

-----------------------------------------------------------------------------
(* From pattern to verdict. *)

\* Whatever the pattern, a full match answers whether the pattern means the subject:
\* unless a branch of it was lost or languageChars does not list the subject.
THEOREM FullMatchIsMeant == PipelineSpec => []FullMatchMeansPattern
<1>1. ASSUME PipelineInv PROVE FullMatchMeansPattern
  <2> SUFFICES ASSUME stage = "call", verdict # "pending", kind = "full",
                      ~pattern.lost, Listed(subject)
               PROVE  verdict = "accept" <=> subject \in pattern.lang
    BY DEF FullMatchMeansPattern, Returned
  <2>1. Speaks(dfa, pattern) /\ subject \in Words /\ Calling!IInv
    BY <1>1, SubjectsAssumption DEF PipelineInv
  <2>2. verdict = "accept" <=> Calling!Accepts(dfa, subject, 0, Len(subject))
    BY <2>1 DEF Calling!IInv, Calling!Verdicts, Calling!FullMatchExact, Calling!Pending
  <2> QED BY <2>1, <2>2 DEF Speaks
<1> QED BY <1>1, PipelineHolds, PTL

\* Of a subject, the automaton accepts the parts that the pattern means.
LEMMA PartMeant ==
    ASSUME NEW d, NEW f, Speaks(d, f), ~f.lost, NEW w \in Words, Listed(w),
           NEW i \in 0 .. Len(w), NEW j \in 0 .. Len(w), i <= j
    PROVE  Calling!Accepts(d, w, i, j) <=> Part(w, i, j) \in f.lang
<1>1. /\ Part(w, i, j) \in Words /\ Len(Part(w, i, j)) = j - i
      /\ \A l \in 1 .. (j - i) : Part(w, i, j)[l] = w[i + l]
  BY WordFacts
<1>2. Listed(Part(w, i, j))
  <2>1. Part(w, i, j) \in Seq(Char) /\ w \in Seq(Char)
    BY <1>1, WordFacts
  <2>2. \A l \in 1 .. (j - i) : i + l \in DOMAIN w
    BY <2>1
  <2>3. DOMAIN Part(w, i, j) = 1 .. (j - i)
    BY <1>1, <2>1
  <2> QED BY <1>1, <2>2, <2>3 DEF Listed
<1>3. Calling!Accepts(d, Part(w, i, j), 0, j - i) <=> Part(w, i, j) \in f.lang
  BY <1>1, <1>2 DEF Speaks
<1> QED BY <1>3, RunOfPart

\* If no branch was lost and languageChars lists the subject, a sub match that
\* accepts has a match to show.  The span a search reports is a match and the
\* longest from where it begins if, in addition, there is a listed character in
\* every atom of the pattern: /.../ with a byte above 127 or a reversed range as
\* one of its atoms may report an end past the subject.
THEOREM SpanIsMeant == PipelineSpec => []SpanMeansPattern
<1>1. ASSUME PipelineInv PROVE SpanMeansPattern
  <2> SUFFICES ASSUME stage = "call", verdict = "accept", ~pattern.lost, Listed(subject)
               PROVE  /\ kind = "sub" =>
                             \E i, j \in 0 .. Len(subject) : Slice(i, j) \in pattern.lang
                      /\ kind = "search" /\ AtomsListed(pattern) =>
                             /\ outStart <= outEnd /\ outEnd <= Len(subject)
                             /\ Slice(outStart, outEnd) \in pattern.lang
                             /\ \A j \in (outEnd + 1) .. Len(subject) :
                                    Slice(outStart, j) \notin pattern.lang
    BY DEF SpanMeansPattern, Returned
  <2>1. Speaks(dfa, pattern) /\ subject \in Words /\ Calling!IInv /\ SpanReported
    BY <1>1, SubjectsAssumption DEF PipelineInv
  <2>2. \A i, j : Slice(i, j) = Part(subject, i, j)
    BY DEF Slice, Part
  <2>3. Len(subject) \in Nat
    BY <2>1, WordFacts
  <2>4. ASSUME kind = "sub"
        PROVE  \E i, j \in 0 .. Len(subject) : Slice(i, j) \in pattern.lang
    <3>1. PICK i \in 0 .. Len(subject), j \in 0 .. Len(subject) :
              i <= j /\ Calling!Accepts(dfa, subject, i, j)
      BY <2>1, <2>4 DEF Calling!IInv, Calling!Verdicts, Calling!AcceptJustified
    <3> QED BY <2>1, <2>2, <3>1, PartMeant
  <2>5. ASSUME kind = "search", AtomsListed(pattern)
        PROVE  /\ outStart <= outEnd /\ outEnd <= Len(subject)
               /\ Slice(outStart, outEnd) \in pattern.lang
               /\ \A j \in (outEnd + 1) .. Len(subject) : Slice(outStart, j) \notin pattern.lang
    <3>1. Calling!NoDeadLeaf(dfa)
      BY <2>1, <2>5 DEF Speaks
    <3>2. /\ outStart = start_pos /\ outEnd = end_pos /\ end_pos <= Len(subject)
          /\ start_pos <= end_pos /\ Calling!Accepts(dfa, subject, start_pos, end_pos)
          /\ \A j \in (end_pos + 1) .. Len(subject) : ~Calling!Accepts(dfa, subject, start_pos, j)
      BY <2>1, <2>5, <3>1 DEF SpanReported, Calling!IInv, Calling!Verdicts,
         Calling!SpanIsLongestMatch
    <3>3. start_pos \in Nat /\ end_pos \in Nat
      BY <2>1, SizeAssumption DEF Calling!IInv, Calling!TypeOK, Calling!Size
    <3>4. start_pos \in 0 .. Len(subject) /\ end_pos \in 0 .. Len(subject)
      BY <2>3, <3>2, <3>3
    <3>5. Slice(outStart, outEnd) \in pattern.lang
      BY <2>1, <2>2, <3>2, <3>4, PartMeant
    <3>6. ASSUME NEW j \in (outEnd + 1) .. Len(subject) PROVE Slice(outStart, j) \notin pattern.lang
      <4>1. j \in 0 .. Len(subject) /\ start_pos <= j /\ j \in (end_pos + 1) .. Len(subject)
        BY <2>3, <3>2, <3>3
      <4> QED BY <2>1, <2>2, <3>2, <3>4, <4>1, PartMeant
    <3> QED BY <3>2, <3>5, <3>6
  <2> QED BY <2>4, <2>5
<1> QED BY <1>1, PipelineHolds, PTL

\* What is proved of the parser by itself holds of it in the pipeline.
THEOREM ParserInPipeline ==
    PipelineSpec => [](ShapeKept /\ NoDeadEnd /\ LanguageExact /\ CycleOnlyFromStar)
<1>1. PipelineInv => ShapeKept /\ NoDeadEnd /\ LanguageExact /\ CycleOnlyFromStar
  BY StackShape, StackNoDeadEnd, StackLanguage, StackCycles DEF PipelineInv
<1> QED BY <1>1, PipelineHolds, PTL

=============================================================================
