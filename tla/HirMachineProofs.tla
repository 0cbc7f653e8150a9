-------------------------- MODULE HirMachineProofs --------------------------
(***************************************************************************)
(* The theorems about HirMachine, for every set of well-formed machines,   *)
(* every order of their edges, both compilers and every set of subjects    *)
(* shorter than the range of size_t.                                       *)
(*                                                                         *)
(* A program is a sequence of segments, one for each state in turn, whose  *)
(* instructions follow each other only as MayPrecede says.  The function   *)
(* it is translated to is certified by an annotation, what is known where  *)
(* each block begins: every instruction of it fits what is known there,    *)
(* and every branch leads where no more is assumed.  While the function is *)
(* built some blocks are still open; once it is built none is, so that the *)
(* verifier accepts it.  While it runs what is annotated holds.            *)
(***************************************************************************)
EXTENDS HirMachine, FiniteSetTheorems, TLAPS

-----------------------------------------------------------------------------
(* What the compilers emit. *)

\* The variables a generated function declares.
Variables == {"counter", "cursor", "start_pos", "end_pos"}

\* The instructions of a state of m.
BodyInstructions(m) ==
    {StoreVar("start_pos", "counter"), CheckEnd(Accept), CheckEnd(Reject), Consume,
     Accept, Reject}
    \cup {BeginState(s, a) : s \in States(m), a \in BOOLEAN}
    \cup {GoTo(s) : s \in States(m)}
    \cup {GoToIf(s, e) : s \in States(m), e \in SUBSET Char}

\* The declarations all compilers begin a program with, and all they emit.
SetupInstructions == {DeclareVar(v) : v \in Variables}
Instructions(m) == SetupInstructions \cup BodyInstructions(m)

\* The instruction begins a state, tests an edge, ends a state.
Begins(i) == i.op = "START_STATE"
IsTest(i) == i.op = "GOTO" /\ i.conditional
Ends(i) == i.op \in {"ACCEPT", "REJECT"} \/ (i.op = "GOTO" /\ ~i.conditional)

\* i comes directly before j: one state ends where the next begins, a character
\* is consumed once its being there was checked, and tested once it is consumed.
MayPrecede(i, j) ==
    /\ Begins(j) <=> Ends(i)
    /\ j.op = "CONSUME" => i.op = "CHECK_END"
    /\ IsTest(j) => i.op = "CONSUME" \/ IsTest(i)

\* The code of one state.
IsSegment(m, kind0, s, code) ==
    /\ code \in Seq(BodyInstructions(m))
    /\ Len(code) > 0
    /\ Begins(code[1]) /\ code[1].id = s
    /\ \A i \in 2 .. Len(code) : ~Begins(code[i])
    /\ Ends(code[Len(code)])
    /\ \A i \in 1 .. (Len(code) - 1) : MayPrecede(code[i], code[i + 1])
    /\ \A i \in 1 .. Len(code) : code[i].op = "STORE_VAR" => kind0 = "search"

\* Each instruction emitted for a state of a well-formed machine is one of these.
LEMMA BodyHas ==
    ASSUME NEW m, WellFormed(m), NEW s \in States(m)
    PROVE  /\ BeginState(s, IsAcceptState(m, s)) \in BodyInstructions(m)
           /\ CheckEnd(OnEnd(m, s)) \in BodyInstructions(m)
           /\ Consume \in BodyInstructions(m)
           /\ Accept \in BodyInstructions(m) /\ Reject \in BodyInstructions(m)
           /\ StoreVar("start_pos", "counter") \in BodyInstructions(m)
           /\ GoTo(StartState) \in BodyInstructions(m)
           /\ \A t \in States(m) : GoToIf(t, m.edges[s][t]) \in BodyInstructions(m)
<1>1. StartState \in States(m)
  BY DEF StartState, States, WellFormed
<1>2. IsAcceptState(m, s) \in BOOLEAN
  BY DEF IsAcceptState
<1>3. OnEnd(m, s) = Accept \/ OnEnd(m, s) = Reject
  BY DEF OnEnd
<1>4. \A t \in States(m) : m.edges[s][t] \in SUBSET Char
  BY DEF WellFormed
<1> QED BY <1>1, <1>2, <1>3, <1>4 DEF BodyInstructions

\* The tests of a state are conditional GOTOs.
LEMMA TestsFacts ==
    ASSUME NEW m, WellFormed(m), NEW s \in States(m), NEW order \in Orders(m, s)
    PROVE  /\ Tests(m, s, order) \in Seq(BodyInstructions(m))
           /\ \A i \in 1 .. Len(Tests(m, s, order)) : IsTest(Tests(m, s, order)[i])
<1> DEFINE n == Cardinality(Destinations(m, s))
           T == Tests(m, s, order)
<1>1. Destinations(m, s) \subseteq States(m) /\ States(m) \subseteq Int
  BY DEF Destinations, States
<1>2. n \in Nat
  <2>1. IsFiniteSet(States(m))
    BY FS_Interval DEF States, WellFormed
  <2>2. IsFiniteSet(Destinations(m, s))
    BY <1>1, <2>1, FS_Subset
  <2> QED BY <2>2, FS_CardinalityType
<1>3. order \in [1 .. n -> Destinations(m, s)]
  BY DEF Orders
<1> HIDE DEF n
<1>4. \A i \in 1 .. n : GoToIf(order[i], m.edges[s][order[i]]) \in BodyInstructions(m)
  BY <1>1, <1>3, BodyHas
<1>5. T = [i \in 1 .. n |-> GoToIf(order[i], m.edges[s][order[i]])]
  BY <1>3 DEF Tests
<1>6. T \in Seq(BodyInstructions(m)) /\ Len(T) = n
  BY <1>2, <1>4, <1>5
<1>7. \A i \in 1 .. n : IsTest(T[i])
  BY <1>5 DEF IsTest, GoToIf
<1> QED BY <1>6, <1>7

\* The elements of a concatenation.
LEMMA Joined ==
    ASSUME NEW S, NEW a \in Seq(S), NEW b \in Seq(S)
    PROVE  /\ a \o b \in Seq(S)
           /\ Len(a \o b) = Len(a) + Len(b)
           /\ \A i \in 1 .. Len(a \o b) :
                  (a \o b)[i] = IF i <= Len(a) THEN a[i] ELSE b[i - Len(a)]
OBVIOUS

\* A sequence with another element in a place.
LEMMA Replaced ==
    ASSUME NEW S, NEW a \in Seq(S), NEW i \in 1 .. Len(a), NEW x \in S
    PROVE  /\ [a EXCEPT ![i] = x] \in Seq(S)
           /\ Len([a EXCEPT ![i] = x]) = Len(a)
           /\ [a EXCEPT ![i] = x][i] = x
           /\ \A j \in 1 .. Len(a) : j # i => [a EXCEPT ![i] = x][j] = a[j]
<1>1. DOMAIN a = 1 .. Len(a) /\ Len(a) \in Nat /\ a \in [1 .. Len(a) -> S]
  OBVIOUS
<1>2. [a EXCEPT ![i] = x] \in [1 .. Len(a) -> S]
  BY <1>1
<1>3. [a EXCEPT ![i] = x] \in Seq(S) /\ Len([a EXCEPT ![i] = x]) = Len(a)
  BY <1>1, <1>2
<1> QED BY <1>1, <1>3

\* The tests of a state after the character is consumed, or nothing at a leaf.
LEMMA EdgesFacts ==
    ASSUME NEW m, WellFormed(m), NEW s \in States(m), NEW order \in Orders(m, s),
           NEW E, E = Edges(m, s, order)
    PROVE  /\ E \in Seq(BodyInstructions(m))
           /\ \A i \in 1 .. Len(E) :
                  /\ E[i].op \in {"CONSUME", "GOTO"} /\ ~Begins(E[i]) /\ ~Ends(E[i])
                  /\ E[i].op = "CONSUME" => i = 1
                  /\ IsTest(E[i]) => i > 1 /\ \/ E[i - 1].op = "CONSUME"
                                              \/ IsTest(E[i - 1])
<1> DEFINE T == Tests(m, s, order)
<1>1. /\ T \in Seq(BodyInstructions(m))
      /\ \A i \in 1 .. Len(T) : IsTest(T[i])
  BY TestsFacts
<1>2. CASE IsLeaf(m, s)
  <2>1. E = <<>>
    BY <1>2 DEF Edges
  <2> QED BY <2>1
<1>3. CASE ~IsLeaf(m, s)
  <2>1. E = <<Consume>> \o T
    BY <1>3 DEF Edges
  <2>2. Consume \in BodyInstructions(m)
    BY BodyHas
  <2> HIDE DEF T
  <2>3. /\ E \in Seq(BodyInstructions(m))
        /\ Len(E) = Len(T) + 1 /\ E[1] = Consume
        /\ \A i \in 2 .. Len(E) : E[i] = T[i - 1] /\ i - 1 \in 1 .. Len(T)
    BY <1>1, <2>1, <2>2
  <2>4. Len(T) \in Nat
    BY <1>1
  <2>5. ASSUME NEW i \in 1 .. Len(E)
        PROVE  /\ E[i].op \in {"CONSUME", "GOTO"} /\ ~Begins(E[i]) /\ ~Ends(E[i])
               /\ E[i].op = "CONSUME" => i = 1
               /\ IsTest(E[i]) => i > 1 /\ \/ E[i - 1].op = "CONSUME"
                                           \/ IsTest(E[i - 1])
    <3>1. CASE i = 1
      BY <2>3, <3>1 DEF Consume, Begins, Ends, IsTest
    <3>2. CASE i > 1
      <4>1. IsTest(E[i])
        BY <1>1, <2>3, <3>2
      <4>2. i = 2 \/ i - 1 \in 2 .. Len(E)
        BY <3>2, <2>3, <2>4
      <4>3. CASE i = 2
        <5>1. E[i - 1].op = "CONSUME"
          BY <2>3, <4>3 DEF Consume
        <5> QED BY <4>1, <4>3, <5>1 DEF IsTest, Begins, Ends
      <4>4. CASE i - 1 \in 2 .. Len(E)
        <5>1. IsTest(E[i - 1])
          BY <1>1, <2>3, <4>4
        <5> QED BY <4>1, <4>4, <5>1 DEF IsTest, Begins, Ends
      <4> QED BY <4>2, <4>3, <4>4
    <3> QED BY <3>1, <3>2, <2>3, <2>4
  <2> QED BY <2>3, <2>5
<1> QED BY <1>2, <1>3

\* What ends the code of a state.
LEMMA OtherwiseFacts ==
    ASSUME NEW m, WellFormed(m), NEW s \in States(m), NEW k \in Kinds,
           NEW O, O = Otherwise(k, m, s)
    PROVE  /\ O \in Seq(BodyInstructions(m)) /\ Len(O) > 0
           /\ \A i \in 1 .. Len(O) :
                  /\ ~Begins(O[i]) /\ ~IsTest(O[i]) /\ O[i].op # "CONSUME"
                  /\ Ends(O[i]) <=> i = Len(O)
                  /\ O[i].op = "STORE_VAR" => k = "search"
<1> DEFINE P(code) ==
           /\ code \in Seq(BodyInstructions(m)) /\ Len(code) > 0
           /\ \A i \in 1 .. Len(code) :
                  /\ ~Begins(code[i]) /\ ~IsTest(code[i]) /\ code[i].op # "CONSUME"
                  /\ Ends(code[i]) <=> i = Len(code)
                  /\ code[i].op = "STORE_VAR" => k = "search"
<1>1. P(<<Reject>>)
  BY BodyHas DEF Reject, Begins, IsTest, Ends
<1>2. P(<<Accept>>)
  BY BodyHas DEF Accept, Begins, IsTest, Ends
<1>3. P(<<GoTo(StartState)>>)
  <2>1. GoTo(StartState) \in BodyInstructions(m)
    BY BodyHas
  <2>2. LET i == GoTo(StartState)
        IN  ~Begins(i) /\ ~IsTest(i) /\ Ends(i) /\ i.op = "GOTO"
    BY DEF GoTo, Begins, IsTest, Ends
  <2> QED BY <2>1, <2>2
<1>4. CASE k = "search"
  <2> DEFINE code == <<StoreVar("start_pos", "counter"), GoTo(StartState)>>
  <2>1. code \in Seq(BodyInstructions(m)) /\ Len(code) = 2
    BY BodyHas
  <2>2. /\ code[1] = StoreVar("start_pos", "counter")
        /\ code[2] = GoTo(StartState)
    OBVIOUS
  <2>3. /\ ~Begins(code[1]) /\ ~IsTest(code[1]) /\ ~Ends(code[1])
        /\ code[1].op = "STORE_VAR"
    BY <2>2 DEF StoreVar, Begins, IsTest, Ends
  <2>4. /\ ~Begins(code[2]) /\ ~IsTest(code[2]) /\ Ends(code[2])
        /\ code[2].op = "GOTO"
    BY <2>2 DEF GoTo, Begins, IsTest, Ends
  <2> HIDE DEF code
  <2>5. P(code)
    <3>1. ASSUME NEW i \in 1 .. Len(code) PROVE i = 1 \/ i = 2
      BY <2>1
    <3> QED BY <1>4, <2>1, <2>3, <2>4, <3>1
  <2>6. O = code \/ O = <<Accept>>
    BY <1>4 DEF Otherwise, code
  <2> HIDE DEF P
  <2>7. P(O)
    BY <1>2, <2>5, <2>6
  <2> QED BY <2>7 DEF P
<1>5. CASE k # "search"
  <2>1. O = <<Reject>> \/ O = <<Accept>> \/ O = <<GoTo(StartState)>>
    BY <1>5 DEF Otherwise, Kinds
  <2> HIDE DEF P
  <2>2. P(O)
    BY <1>1, <1>2, <1>3, <2>1
  <2> QED BY <2>2 DEF P
<1> QED BY <1>4, <1>5

\* What a compiler emits for a state is the code of a state.
LEMMA StateCode ==
    ASSUME NEW m, WellFormed(m), NEW s \in States(m), NEW order \in Orders(m, s),
           NEW k \in Kinds
    PROVE  IsSegment(m, k, s, BuildState(k, m, s, order))
<1> DEFINE E == Edges(m, s, order)
           O == Otherwise(k, m, s)
           A == <<BeginState(s, IsAcceptState(m, s)), CheckEnd(OnEnd(m, s))>>
           code == A \o E \o O
<1>1. code = BuildState(k, m, s, order)
  BY DEF BuildState
<1>2. /\ E \in Seq(BodyInstructions(m))
      /\ \A i \in 1 .. Len(E) :
             /\ E[i].op \in {"CONSUME", "GOTO"} /\ ~Begins(E[i]) /\ ~Ends(E[i])
             /\ E[i].op = "CONSUME" => i = 1
             /\ IsTest(E[i]) => i > 1 /\ \/ E[i - 1].op = "CONSUME"
                                         \/ IsTest(E[i - 1])
  BY EdgesFacts
<1>3. /\ O \in Seq(BodyInstructions(m)) /\ Len(O) > 0
      /\ \A i \in 1 .. Len(O) :
             /\ ~Begins(O[i]) /\ ~IsTest(O[i]) /\ O[i].op # "CONSUME"
             /\ Ends(O[i]) <=> i = Len(O)
             /\ O[i].op = "STORE_VAR" => k = "search"
  BY OtherwiseFacts
<1>4. /\ A \in Seq(BodyInstructions(m)) /\ Len(A) = 2
      /\ A[1] = BeginState(s, IsAcceptState(m, s)) /\ A[2] = CheckEnd(OnEnd(m, s))
  BY BodyHas
<1>5. /\ Begins(A[1]) /\ A[1].id = s /\ ~Ends(A[1]) /\ A[1].op = "START_STATE"
      /\ ~IsTest(A[1])
      /\ A[2].op = "CHECK_END" /\ ~Begins(A[2]) /\ ~Ends(A[2]) /\ ~IsTest(A[2])
  BY <1>4 DEF BeginState, CheckEnd, Begins, Ends, IsTest
<1> HIDE DEF E, O, A
<1>6. /\ code \in Seq(BodyInstructions(m))
      /\ Len(code) = 2 + Len(E) + Len(O)
      /\ Len(E) \in Nat /\ Len(O) \in Nat
      /\ \A i \in 1 .. Len(code) :
             code[i] = IF i <= 2 THEN A[i]
                       ELSE IF i <= 2 + Len(E) THEN E[i - 2] ELSE O[i - 2 - Len(E)]
  <2> DEFINE B == A \o E
  <2>1. /\ B \in Seq(BodyInstructions(m)) /\ Len(B) = Len(A) + Len(E)
        /\ \A i \in 1 .. Len(B) : B[i] = IF i <= Len(A) THEN A[i] ELSE E[i - Len(A)]
    BY <1>2, <1>4, Joined
  <2> HIDE DEF B
  <2>2. code = B \o O
    BY DEF B
  <2>3. /\ code \in Seq(BodyInstructions(m)) /\ Len(code) = Len(B) + Len(O)
        /\ \A i \in 1 .. Len(code) :
               code[i] = IF i <= Len(B) THEN B[i] ELSE O[i - Len(B)]
    <3>1. /\ B \o O \in Seq(BodyInstructions(m)) /\ Len(B \o O) = Len(B) + Len(O)
          /\ \A i \in 1 .. Len(B \o O) :
                 (B \o O)[i] = IF i <= Len(B) THEN B[i] ELSE O[i - Len(B)]
      <4>1. B \in Seq(BodyInstructions(m)) /\ O \in Seq(BodyInstructions(m))
        BY <1>3, <2>1
      <4> QED BY <4>1, Joined
    <3> HIDE DEF code
    <3> QED BY <2>2, <3>1
  <2>4. Len(E) \in Nat /\ Len(O) \in Nat
    BY <1>2, <1>3
  <2> HIDE DEF code
  <2>5. Len(B) = 2 + Len(E)
    BY <1>4, <2>1
  <2>6. ASSUME NEW i \in 1 .. Len(code)
        PROVE  code[i] = IF i <= 2 THEN A[i]
                         ELSE IF i <= 2 + Len(E) THEN E[i - 2] ELSE O[i - 2 - Len(E)]
    <3>1. i \in Nat /\ i >= 1
      OBVIOUS
    <3>2. CASE i <= Len(B)
      <4>1. code[i] = B[i] /\ i \in 1 .. Len(B)
        BY <2>3, <2>4, <2>5, <3>1, <3>2
      <4>2. B[i] = IF i <= 2 THEN A[i] ELSE E[i - 2]
        BY <1>4, <2>1, <4>1
      <4> QED BY <2>5, <3>2, <4>1, <4>2
    <3>3. CASE ~(i <= Len(B))
      <4>1. code[i] = O[i - Len(B)]
        BY <2>3, <3>3
      <4>2. ~(i <= 2) /\ ~(i <= 2 + Len(E)) /\ i - Len(B) = i - 2 - Len(E)
        BY <2>4, <2>5, <3>1, <3>3
      <4> QED BY <4>1, <4>2
    <3> QED BY <3>2, <3>3
  <2> QED BY <2>3, <2>4, <2>5, <2>6
<1> HIDE DEF code
<1>7. Begins(code[1]) /\ code[1].id = s
  BY <1>3, <1>5, <1>6
<1>8. ASSUME NEW i \in 2 .. Len(code)
      PROVE  /\ ~Begins(code[i])
             /\ Ends(code[i]) => i = Len(code)
             /\ code[i].op = "STORE_VAR" => k = "search"
             /\ code[i].op = "CONSUME" => code[i - 1].op = "CHECK_END"
             /\ IsTest(code[i]) => code[i - 1].op = "CONSUME" \/ IsTest(code[i - 1])
  <2>1. CASE i = 2
    <3>1. code[i] = A[2]
      BY <1>6, <2>1
    <3> QED BY <1>5, <3>1
  <2>2. CASE i \in 3 .. (2 + Len(E))
    <3> DEFINE j == i - 2
    <3>1. j \in 1 .. Len(E) /\ code[i] = E[j]
      BY <1>6, <2>2
    <3>2. CASE j = 1
      <4>1. code[i - 1] = A[2]
        BY <1>6, <3>2
      <4> QED BY <1>2, <1>5, <3>1, <3>2, <4>1
    <3>3. CASE j > 1
      <4>1. code[i - 1] = E[j - 1]
        BY <1>6, <3>1, <3>3
      <4> QED BY <1>2, <3>1, <3>3, <4>1
    <3> QED BY <3>1, <3>2, <3>3
  <2>3. CASE i \in (3 + Len(E)) .. Len(code)
    <3> DEFINE j == i - 2 - Len(E)
    <3>1. j \in 1 .. Len(O) /\ code[i] = O[j]
      BY <1>6, <2>3
    <3>2. j = Len(O) => i = Len(code)
      BY <1>6
    <3> QED BY <1>3, <3>1, <3>2
  <2> QED BY <1>6, <2>1, <2>2, <2>3
<1>9. Ends(code[Len(code)])
  <2>1. code[Len(code)] = O[Len(O)] /\ Len(O) \in 1 .. Len(O)
    BY <1>3, <1>6
  <2> QED BY <1>3, <2>1
<1>10. ASSUME NEW i \in 1 .. (Len(code) - 1) PROVE MayPrecede(code[i], code[i + 1])
  <2>1. i + 1 \in 2 .. Len(code) /\ (i + 1) - 1 = i
    BY <1>6
  <2>2. ~Ends(code[i])
    <3>1. CASE i = 1
      BY <1>5, <1>6, <3>1
    <3>2. CASE i \in 2 .. Len(code)
      BY <1>6, <1>8, <3>2
    <3> QED BY <1>6, <3>1, <3>2
  <2> QED BY <1>8, <2>1, <2>2 DEF MayPrecede
<1>11. ASSUME NEW i \in 1 .. Len(code), code[i].op = "STORE_VAR" PROVE k = "search"
  <2>1. i # 1
    BY <1>5, <1>6, <1>11
  <2> QED BY <1>6, <1>8, <1>11, <2>1
<1>12. Len(code) > 0
  BY <1>3, <1>6
<1>13. IsSegment(m, k, s, code)
  BY <1>6, <1>7, <1>8, <1>9, <1>10, <1>11, <1>12 DEF IsSegment
<1> QED BY <1>1, <1>13

-----------------------------------------------------------------------------
(* Programs, while they are compiled and after. *)

\* How many instructions come before the code of the states.
Setup(k) == Len(BuildSetup(k))

\* The ids of the states whose code is in p.
Begun(p) == {p[i].id : i \in {j \in DOMAIN p : p[j].op = "START_STATE"}}

\* The declarations, and the code of the first c states.
IsProgram(m, k, p, c) ==
    /\ p \in Seq(Instructions(m))
    /\ Len(p) >= Setup(k)
    /\ \A i \in 1 .. Setup(k) : p[i] = BuildSetup(k)[i]
    /\ \A i \in (Setup(k) + 1) .. Len(p) :
           /\ p[i] \in BodyInstructions(m)
           /\ p[i].op = "STORE_VAR" => k = "search"
    /\ Len(p) > Setup(k) => Begins(p[Setup(k) + 1]) /\ Ends(p[Len(p)])
    /\ \A i \in (Setup(k) + 1) .. (Len(p) - 1) : MayPrecede(p[i], p[i + 1])
    /\ \A i, j \in 1 .. Len(p) :
           Begins(p[i]) /\ Begins(p[j]) /\ p[i].id = p[j].id => i = j
    /\ Begun(p) = 0 .. (c - 1)

\* The declarations of a program.
LEMMA SetupFacts ==
    ASSUME NEW k \in Kinds
    PROVE  /\ BuildSetup(k) \in Seq(SetupInstructions)
           /\ Setup(k) = IF k = "search" THEN 4 ELSE 2
           /\ BuildSetup(k)[1] = DeclareVar("counter")
           /\ BuildSetup(k)[2] = DeclareVar("cursor")
           /\ k = "search" => /\ BuildSetup(k)[3] = DeclareVar("start_pos")
                              /\ BuildSetup(k)[4] = DeclareVar("end_pos")
<1> DEFINE a == DeclareVar("counter")
           b == DeclareVar("cursor")
           c == DeclareVar("start_pos")
           d == DeclareVar("end_pos")
           D == <<a, b>>
           R == IF k = "search" THEN <<c, d>> ELSE <<>>
<1>1. \A x \in {a, b, c, d} : x \in SetupInstructions
  BY DEF SetupInstructions, Variables
<1>2. BuildSetup(k) = D \o R
  BY DEF BuildSetup
<1> HIDE DEF a, b, c, d
<1>3. D \in Seq(SetupInstructions) /\ R \in Seq(SetupInstructions)
  BY <1>1
<1>6. Len(D) = 2 /\ D[1] = a /\ D[2] = b
  OBVIOUS
<1> HIDE DEF D
<1>7. /\ D \o R \in Seq(SetupInstructions)
      /\ Len(D \o R) = Len(D) + Len(R)
      /\ \A i \in 1 .. Len(D \o R) :
             (D \o R)[i] = IF i <= Len(D) THEN D[i] ELSE R[i - Len(D)]
  <2> HIDE DEF R
  <2> QED BY <1>3, Joined
<1>4. CASE k = "search"
  <2>1. R = <<c, d>>
    BY <1>4
  <2> HIDE DEF R
  <2>2. Len(R) = 2 /\ R[1] = c /\ R[2] = d
    BY <2>1
  <2> QED BY <1>2, <1>4, <1>6, <1>7, <2>2 DEF a, b, c, d, Setup
<1>5. CASE k # "search"
  <2>1. R = <<>>
    BY <1>5
  <2> HIDE DEF R
  <2>2. Len(R) = 0
    BY <2>1
  <2> QED BY <1>2, <1>5, <1>6, <1>7, <2>2 DEF a, b, Setup
<1> QED BY <1>4, <1>5

\* No declaration begins a state.
LEMMA SetupBeginsNothing ==
    ASSUME NEW k \in Kinds
    PROVE  \A i \in 1 .. Setup(k) :
               /\ BuildSetup(k)[i].op = "DECLARE_VAR"
               /\ BuildSetup(k)[i].name \in Variables
<1>1. \A x \in SetupInstructions : x.op = "DECLARE_VAR" /\ x.name \in Variables
  BY DEF SetupInstructions, DeclareVar
<1> QED BY <1>1, SetupFacts DEF Setup

\* A program begins with its declarations.
LEMMA ProgramBegins ==
    ASSUME NEW m, NEW k \in Kinds
    PROVE  IsProgram(m, k, BuildSetup(k), 0)
<1> DEFINE p == BuildSetup(k)
<1>1. p \in Seq(SetupInstructions) /\ Setup(k) \in Nat /\ Len(p) = Setup(k)
  BY SetupFacts DEF Setup
<1>2. \A i \in 1 .. Len(p) : p[i].op # "START_STATE"
  BY <1>1, SetupBeginsNothing
<1> HIDE DEF p
<1>3. p \in Seq(Instructions(m))
  BY <1>1 DEF Instructions
<1>4. Begun(p) = {}
  BY <1>1, <1>2 DEF Begun
<1>5. \A i \in 1 .. Setup(k) : p[i] = BuildSetup(k)[i]
  BY DEF p
<1>6. IsProgram(m, k, p, 0)
  BY <1>1, <1>2, <1>3, <1>4, <1>5 DEF IsProgram, Begins
<1> QED BY <1>6 DEF p

\* And grows by the code of one state after another.
LEMMA ProgramGrows ==
    ASSUME NEW m, NEW k \in Kinds, NEW c \in Nat, NEW p, IsProgram(m, k, p, c),
           NEW code, IsSegment(m, k, c, code)
    PROVE  IsProgram(m, k, p \o code, c + 1)
<1> DEFINE q == p \o code
           L == Setup(k)
           n == Len(p)
<1>1. p \in Seq(Instructions(m)) /\ n >= L /\ L \in Nat /\ n \in Nat
  BY SetupFacts DEF IsProgram
<1>2. /\ code \in Seq(BodyInstructions(m)) /\ code \in Seq(Instructions(m))
      /\ Len(code) > 0 /\ Len(code) \in Nat
  BY DEF IsSegment, Instructions
<1>3. /\ q \in Seq(Instructions(m))
      /\ Len(q) = n + Len(code)
      /\ \A i \in 1 .. Len(q) : q[i] = IF i <= n THEN p[i] ELSE code[i - n]
  BY <1>1, <1>2, Joined
<1> HIDE DEF q, L, n
<1>4. \A i \in 1 .. n : q[i] = p[i]
  BY <1>1, <1>2, <1>3
<1>5. \A i \in 1 .. Len(code) : q[n + i] = code[i] /\ n + i \in 1 .. Len(q)
  BY <1>1, <1>2, <1>3
<1>6. \A i \in (n + 1) .. Len(q) : i - n \in 1 .. Len(code) /\ q[i] = code[i - n]
  BY <1>1, <1>2, <1>3
<1>7. Len(q) \in Nat /\ Len(q) > n /\ Len(q) > L
  BY <1>1, <1>2, <1>3
<1>8. \A i \in 1 .. L : q[i] = BuildSetup(k)[i]
  BY <1>1, <1>4 DEF IsProgram, L
<1>9. ASSUME NEW i \in (L + 1) .. Len(q)
      PROVE  q[i] \in BodyInstructions(m) /\ (q[i].op = "STORE_VAR" => k = "search")
  <2>1. CASE i \in (L + 1) .. n
    BY <1>1, <1>4, <2>1 DEF IsProgram, L, n
  <2>2. CASE i \in (n + 1) .. Len(q)
    <3>1. i - n \in 1 .. Len(code) /\ q[i] = code[i - n]
      BY <1>6, <2>2
    <3> QED BY <1>2, <3>1 DEF IsSegment
  <2> QED BY <1>1, <1>7, <2>1, <2>2
<1>10. Begins(q[n + 1]) /\ q[n + 1].id = c
  <2>1. q[n + 1] = code[1]
    BY <1>2, <1>5
  <2> QED BY <2>1 DEF IsSegment
<1>11. \A i \in (n + 2) .. Len(q) : ~Begins(q[i])
  <2> TAKE i \in (n + 2) .. Len(q)
  <2>1. i - n \in 2 .. Len(code) /\ q[i] = code[i - n]
    BY <1>1, <1>6
  <2> QED BY <2>1 DEF IsSegment
<1>12. Begins(q[L + 1]) /\ Ends(q[Len(q)])
  <2>1. Ends(q[Len(q)])
    <3>1. q[Len(q)] = code[Len(code)]
      BY <1>2, <1>3, <1>5
    <3> QED BY <3>1 DEF IsSegment
  <2>2. CASE n = L
    BY <1>10, <2>1, <2>2
  <2>3. CASE n > L
    <3>1. q[L + 1] = p[L + 1] /\ Begins(p[L + 1])
      BY <1>1, <1>4, <2>3 DEF IsProgram, L, n
    <3> QED BY <2>1, <3>1
  <2> QED BY <1>1, <2>2, <2>3
<1>13. ASSUME NEW i \in (L + 1) .. (Len(q) - 1) PROVE MayPrecede(q[i], q[i + 1])
  <2>1. CASE i \in (L + 1) .. (n - 1)
    <3>1. q[i] = p[i] /\ q[i + 1] = p[i + 1]
      BY <1>1, <1>4, <2>1
    <3> QED BY <2>1, <3>1 DEF IsProgram, L, n
  <2>2. CASE i = n
    <3>1. Ends(q[i])
      <4>1. q[n] = p[n] /\ n > L
        BY <1>1, <1>4, <2>2
      <4> QED BY <2>2, <4>1 DEF IsProgram, L, n
    <3>2. ~IsTest(q[n + 1]) /\ q[n + 1].op # "CONSUME"
      BY <1>10 DEF Begins, IsTest
    <3> QED BY <1>10, <2>2, <3>1, <3>2 DEF MayPrecede
  <2>3. CASE i \in (n + 1) .. (Len(q) - 1)
    <3> DEFINE j == i - n
    <3>1. j \in 1 .. (Len(code) - 1) /\ q[i] = code[j] /\ q[i + 1] = code[j + 1]
      <4>1. (i + 1) - n = j + 1
        BY <1>1
      <4> QED BY <1>1, <1>3, <1>6, <2>3, <4>1
    <3> QED BY <3>1 DEF IsSegment
  <2> QED BY <1>1, <1>7, <2>1, <2>2, <2>3
<1>14. Begun(p) = 0 .. (c - 1) /\ Begun(q) = 0 .. c
  <2>1. Begun(p) = 0 .. (c - 1)
    BY DEF IsProgram
  <2>2. DOMAIN p = 1 .. n /\ DOMAIN q = 1 .. Len(q)
    BY <1>1, <1>3 DEF n
  <2>3. Begun(q) = Begun(p) \cup {c}
    <3>1. ASSUME NEW x \in Begun(q) PROVE x \in Begun(p) \cup {c}
      <4>1. PICK i \in 1 .. Len(q) : q[i].op = "START_STATE" /\ x = q[i].id
        BY <2>2 DEF Begun
      <4>2. i \in 1 .. n \/ i = n + 1
        BY <1>1, <1>7, <1>11, <4>1 DEF Begins
      <4> QED BY <1>4, <1>10, <2>2, <4>1, <4>2 DEF Begun
    <3>2. ASSUME NEW x \in Begun(p) PROVE x \in Begun(q)
      <4>1. PICK i \in 1 .. n : p[i].op = "START_STATE" /\ x = p[i].id
        BY <2>2 DEF Begun
      <4>2. i \in 1 .. Len(q) /\ q[i] = p[i]
        BY <1>1, <1>4, <1>7
      <4> QED BY <2>2, <4>1, <4>2 DEF Begun
    <3>3. c \in Begun(q)
      <4>1. n + 1 \in 1 .. Len(q)
        BY <1>1, <1>7
      <4> QED BY <1>10, <2>2, <4>1 DEF Begun, Begins
    <3> QED BY <3>1, <3>2, <3>3
  <2>4. 0 .. (c - 1) \cup {c} = 0 .. c
    OBVIOUS
  <2> QED BY <2>1, <2>3, <2>4
<1>15. ASSUME NEW i \in 1 .. Len(q), NEW j \in 1 .. Len(q),
              Begins(q[i]) /\ Begins(q[j]) /\ q[i].id = q[j].id
       PROVE  i = j
  <2>1. \A l \in 1 .. Len(q) : Begins(q[l]) => l \in 1 .. n \/ l = n + 1
    BY <1>1, <1>7, <1>11
  <2>2. \A l \in 1 .. n : Begins(q[l]) => q[l].id # c
    <3> SUFFICES ASSUME NEW l \in 1 .. n, Begins(q[l]) PROVE q[l].id # c
      OBVIOUS
    <3>1. q[l] = p[l] /\ l \in DOMAIN p
      BY <1>1, <1>4 DEF n
    <3>2. p[l].id \in Begun(p)
      BY <3>1 DEF Begun, Begins
    <3> QED BY <1>14, <3>1, <3>2
  <2>3. CASE i \in 1 .. n /\ j \in 1 .. n
    <3>1. q[i] = p[i] /\ q[j] = p[j]
      BY <1>4, <2>3
    <3> QED BY <1>15, <2>3, <3>1 DEF IsProgram, n
  <2> QED BY <1>10, <1>15, <2>1, <2>2, <2>3
<1>16. Begun(q) = 0 .. ((c + 1) - 1)
  <2>1. (c + 1) - 1 = c
    OBVIOUS
  <2> QED BY <1>14, <2>1
<1>17. IsProgram(m, k, q, c + 1)
  BY <1>1, <1>3, <1>7, <1>8, <1>9, <1>12, <1>13, <1>15, <1>16 DEF IsProgram, L
<1> QED BY <1>17 DEF q

-----------------------------------------------------------------------------
(* What holds where a block begins: nothing, that the counter is short of   *)
(* the end, or that the cursor is the character last counted.  A function   *)
(* is certified by what it annotates its blocks with.                       *)

Facts == {"any", "notend", "current"}

\* The instructions the translation emits.
IrCode ==
    {Alloca(v) : v \in Variables}
    \cup {ReadChar, Increment("end_pos"), Copy("start_pos", "counter")}
    \cup {StoreOut(v) : v \in {"start_pos", "end_pos"}}
    \cup {Ret(v) : v \in {"accept", "reject"}}
    \cup {Br(b) : b \in Nat}
    \cup {CondBr(AtEndTest(a), b, c) : a \in Nat, b \in Nat, c \in Nat}
    \cup {CondBr(EdgeTest(a, e), b, c) :
              a \in Nat, e \in SUBSET Char, b \in Nat, c \in Nat}
    \cup {CondBr(NonNullTest(a, v), b, c) :
              a \in Nat, v \in {"start_pos", "end_pos"}, b \in Nat, c \in Nat}

\* What is known before the i-th instruction of a block that k is known at the
\* beginning of.
KnownAt(block, k, i) ==
    IF \E j \in 1 .. (i - 1) : block[j].op = "readchar" THEN "current" ELSE k

\* A branch to b can be taken where k is known.
Leads(ann, k, b) == ann[b] \in {"any", k}

\* Instruction i can come in block b of n, where k is known.
Fits(ann, n, b, k, i) ==
    /\ i.op = "alloca" => b = 1
    /\ b = 1 => i.op \in {"alloca", "br"}
    /\ i.op = "readchar" => k = "notend"
    /\ i.op = "br" => i.to \in 2 .. n /\ Leads(ann, k, i.to)
    /\ i.op = "condbr" =>
           /\ i.then \in 2 .. n /\ i.else \in 2 .. n /\ i.cond.block = b
           /\ i.cond.test = "edge" => k = "current"
           /\ Leads(ann, IF i.cond.test = "end" THEN "any" ELSE k, i.then)
           /\ Leads(ann, IF i.cond.test = "end" THEN "notend" ELSE k, i.else)

\* The entry block allocates what the code of the states counts with.
Allocates(block) ==
    \A v \in {"counter", "cursor"} : \E i \in 1 .. Len(block) : block[i] = Alloca(v)

\* Every block but the open ones has ended, and every instruction fits.
Certifies(ann, blocks, open) ==
    /\ blocks \in Seq(Seq(IrCode))
    /\ ann \in [Nat -> Facts]
    /\ open \subseteq 2 .. Len(blocks)
    /\ Len(blocks) >= 1 /\ Allocates(blocks[1]) /\ ann[1] = "any"
    /\ \A b \in 1 .. Len(blocks) : \A i \in 1 .. Len(blocks[b]) :
           /\ Fits(ann, Len(blocks), b, KnownAt(blocks[b], ann[b], i), blocks[b][i])
           /\ blocks[b][i].op \in Terminators => i = Len(blocks[b]) /\ b \notin open
    /\ \A b \in (1 .. Len(blocks)) \ open :
           blocks[b] # <<>> /\ blocks[b][Len(blocks[b])].op \in Terminators

\* t has the five fields of a translator and no other.
IsTranslator(t) ==
    t = [blocks |-> t.blocks, at |-> t.at, labels |-> t.labels, ok |-> t.ok,
         symbols |-> t.symbols]

\* t has the tables of tr and n certified blocks, and is at the end of block a.
Stands(tr, t, ann, open, n, a) ==
    /\ IsTranslator(t)
    /\ t.labels = tr.labels /\ t.symbols = tr.symbols /\ t.ok = tr.ok
    /\ n \in Nat /\ Len(t.blocks) = n
    /\ a \in 1 .. n /\ t.at = a
    /\ Certifies(ann, t.blocks, open)

\* What is known at the end of block b.
KnownEnd(t, ann, b) == KnownAt(t.blocks[b], ann[b], Len(t.blocks[b]) + 1)

\* What is known at the ends of the first n blocks is the same but for block a.
SameEnds(t, u, ann, n, a) ==
    \A c \in 1 .. n : c # a => KnownEnd(u, ann, c) = KnownEnd(t, ann, c)

\* Nothing more is known at the ends of k blocks after the first n.
NewEnds(u, ann, n, k) == \A c \in (n + 1) .. (n + k) : KnownEnd(u, ann, c) = ann[c]

\* u stands there, and has the ends t has but for block b.
Turns(tr, t, u, ann, open, n, a, m, b) ==
    Stands(tr, u, ann, open, n, a) /\ SameEnds(t, u, ann, m, b)

\* An annotation may change for blocks there are not yet.
LEMMA Reannotated ==
    ASSUME NEW tr, NEW t, NEW ann, NEW open, NEW n, NEW a, Stands(tr, t, ann, open, n, a),
           NEW A \in [Nat -> Facts], \A b \in 1 .. n : A[b] = ann[b]
    PROVE  /\ Stands(tr, t, A, open, n, a)
           /\ \A b \in 1 .. n : KnownEnd(t, A, b) = KnownEnd(t, ann, b)
<1> DEFINE B == t.blocks
<1>1. Len(B) = n /\ n \in Nat /\ Certifies(ann, B, open)
  BY DEF Stands
<1>2. \A b \in 1 .. n : KnownEnd(t, A, b) = KnownEnd(t, ann, b)
  BY DEF KnownEnd
<1> HIDE DEF B
<1>3. ASSUME NEW b \in 1 .. n, NEW i \in 1 .. Len(B[b])
      PROVE  Fits(A, n, b, KnownAt(B[b], A[b], i), B[b][i])
  <2> DEFINE k == KnownAt(B[b], ann[b], i)
             x == B[b][i]
  <2>1. Fits(ann, n, b, k, x)
    BY <1>1 DEF Certifies
  <2>2. KnownAt(B[b], A[b], i) = k
    OBVIOUS
  <2> HIDE DEF k, x
  <2>3. \A c \in 2 .. n : A[c] = ann[c]
    BY <1>1
  <2>4. Fits(A, n, b, k, x)
    BY <2>1, <2>3 DEF Fits, Leads
  <2> QED BY <2>2, <2>4 DEF x
<1>4. Certifies(A, B, open)
  <2>1. A[1] = "any"
    BY <1>1 DEF Certifies
  <2> QED BY <1>1, <1>3, <2>1 DEF Certifies
<1> QED BY <1>2, <1>4 DEF Stands, B

\* Setting the insert point changes no block.
LEMMA PointSet ==
    ASSUME NEW tr, NEW t, NEW ann, NEW open, NEW n, NEW a, Stands(tr, t, ann, open, n, a),
           NEW b \in 1 .. n
    PROVE  Turns(tr, t, SetInsertPoint(t, b), ann, open, n, b, n, 0)
<1> DEFINE u == SetInsertPoint(t, b)
<1>1. IsTranslator(t)
  BY DEF Stands
<1>2. u = [blocks |-> t.blocks, at |-> b, labels |-> t.labels, ok |-> t.ok,
           symbols |-> t.symbols]
  BY <1>1 DEF IsTranslator, SetInsertPoint
<1> HIDE DEF u
<1>3. /\ u.blocks = t.blocks /\ u.at = b /\ u.labels = t.labels
      /\ u.ok = t.ok /\ u.symbols = t.symbols
  BY <1>2
<1>4. IsTranslator(u)
  BY <1>2, <1>3 DEF IsTranslator
<1>5. Stands(tr, u, ann, open, n, b)
  BY <1>3, <1>4 DEF Stands
<1>6. SameEnds(t, u, ann, n, 0)
  BY <1>3 DEF KnownEnd, SameEnds
<1>7. Turns(tr, t, u, ann, open, n, b, n, 0)
  BY <1>5, <1>6 DEF Turns
<1> QED BY <1>7 DEF u

\* Blocks created are open and empty.
LEMMA BlocksCreated ==
    ASSUME NEW tr, NEW t, NEW ann, NEW open, NEW n, NEW a, Stands(tr, t, ann, open, n, a),
           NEW k \in Nat
    PROVE  /\ Turns(tr, t, WithBlocks(t, k), ann, open \cup ((n + 1) .. (n + k)), n + k, a,
                    n, 0)
           /\ NewEnds(WithBlocks(t, k), ann, n, k)
<1> DEFINE u == WithBlocks(t, k)
           B == t.blocks
           E == [i \in 1 .. k |-> <<>>]
           C == B \o E
           open2 == open \cup ((n + 1) .. (n + k))
<1>1. IsTranslator(t) /\ Len(B) = n /\ n \in Nat /\ Certifies(ann, B, open)
  BY DEF Stands
<1>2. B \in Seq(Seq(IrCode))
  BY <1>1 DEF Certifies
<1>3. E \in Seq(Seq(IrCode)) /\ Len(E) = k /\ \A i \in 1 .. k : E[i] = <<>>
  <2>1. <<>> \in Seq(IrCode)
    OBVIOUS
  <2> QED BY <2>1
<1>4. u = [blocks |-> C, at |-> t.at, labels |-> t.labels, ok |-> t.ok,
           symbols |-> t.symbols]
  <2> HIDE DEF E
  <2>1. WithBlocks(t, k) = [t EXCEPT !.blocks = @ \o E]
    BY DEF WithBlocks, E
  <2> QED BY <1>1, <2>1 DEF IsTranslator
<1> HIDE DEF u, E, B
<1>5. /\ C \in Seq(Seq(IrCode)) /\ Len(C) = n + k
      /\ \A i \in 1 .. (n + k) : C[i] = IF i <= n THEN B[i] ELSE E[i - n]
  <2>1. /\ B \o E \in Seq(Seq(IrCode)) /\ Len(B \o E) = Len(B) + Len(E)
        /\ \A i \in 1 .. Len(B \o E) :
               (B \o E)[i] = IF i <= Len(B) THEN B[i] ELSE E[i - Len(B)]
    <3>1. B \in Seq(Seq(IrCode)) /\ E \in Seq(Seq(IrCode))
      BY <1>2, <1>3
    <3> QED BY <3>1, Joined
  <2> HIDE DEF C
  <2>2. C = B \o E
    BY DEF C
  <2> QED BY <1>1, <1>3, <2>1, <2>2
<1> HIDE DEF C
<1>6. \A b \in 1 .. n : C[b] = B[b]
  BY <1>1, <1>5
<1>7. \A b \in (n + 1) .. (n + k) : C[b] = <<>>
  BY <1>1, <1>3, <1>5
<1>8. ASSUME NEW b \in 1 .. (n + k), NEW i \in 1 .. Len(C[b])
      PROVE  /\ Fits(ann, n + k, b, KnownAt(C[b], ann[b], i), C[b][i])
             /\ C[b][i].op \in Terminators => i = Len(C[b]) /\ b \notin open2
  <2>1. b \in 1 .. n
    <3>1. CASE b \in (n + 1) .. (n + k)
      <4>1. C[b] = <<>>
        BY <1>7, <3>1
      <4> QED BY <4>1
    <3> QED BY <1>1, <3>1
  <2> DEFINE f == KnownAt(C[b], ann[b], i)
             x == C[b][i]
  <2>2. /\ Fits(ann, n, b, f, x)
        /\ x.op \in Terminators => i = Len(C[b]) /\ b \notin open
    BY <1>1, <1>6, <2>1 DEF Certifies
  <2> HIDE DEF f, x
  <2>3. Fits(ann, n + k, b, f, x)
    <3>1. 2 .. n \subseteq 2 .. (n + k)
      BY <1>1
    <3> QED BY <2>2, <3>1 DEF Fits
  <2>4. b \notin (n + 1) .. (n + k)
    BY <1>1, <2>1
  <2> QED BY <2>2, <2>3, <2>4 DEF f, x
<1>9. ASSUME NEW b \in (1 .. (n + k)) \ open2
      PROVE  C[b] # <<>> /\ C[b][Len(C[b])].op \in Terminators
  <2>1. b \in (1 .. n) \ open
    BY <1>1
  <2> QED BY <1>1, <1>6, <2>1 DEF Certifies
<1>10. open2 \subseteq 2 .. (n + k) /\ n + k >= 1 /\ Allocates(C[1]) /\ ann[1] = "any"
  <2>1. open \subseteq 2 .. n /\ n >= 1 /\ Allocates(B[1]) /\ ann[1] = "any"
    BY <1>1 DEF Certifies
  <2>2. C[1] = B[1]
    BY <1>1, <1>6, <2>1
  <2> QED BY <1>1, <2>1, <2>2
<1>11. Certifies(ann, C, open2)
  BY <1>1, <1>5, <1>8, <1>9, <1>10 DEF Certifies
<1>12. u.blocks = C /\ IsTranslator(u) /\ u.at = t.at /\ u.labels = t.labels
       /\ u.ok = t.ok /\ u.symbols = t.symbols
  BY <1>4 DEF IsTranslator
<1>13. Stands(tr, u, ann, open2, n + k, a)
  BY <1>1, <1>5, <1>11, <1>12 DEF Stands
<1>14. SameEnds(t, u, ann, n, 0)
  BY <1>6, <1>12 DEF KnownEnd, B, SameEnds
<1>15. ASSUME NEW c \in (n + 1) .. (n + k) PROVE KnownEnd(u, ann, c) = ann[c]
  <2>1. u.blocks[c] = <<>>
    BY <1>7, <1>12
  <2>2. Len(u.blocks[c]) + 1 = 1
    BY <2>1
  <2> QED BY <2>2 DEF KnownEnd, KnownAt
<1>16. Turns(tr, t, u, ann, open2, n + k, a, n, 0)
  BY <1>13, <1>14 DEF Turns
<1>17. NewEnds(u, ann, n, k)
  BY <1>15 DEF NewEnds
<1> QED BY <1>16, <1>17 DEF u

\* u is t with x emitted; the block is closed by a terminator.
Wrote(tr, t, u, ann, open, n, a, x) ==
    /\ Stands(tr, u, ann, IF x.op \in Terminators THEN open \ {a} ELSE open, n, a)
    /\ \A c \in 1 .. n : c # a => KnownEnd(u, ann, c) = KnownEnd(t, ann, c)
    /\ KnownEnd(u, ann, a) =
           IF x.op = "readchar" THEN "current" ELSE KnownEnd(t, ann, a)

\* Emitting an instruction that fits.
LEMMA Emitted ==
    ASSUME NEW tr, NEW t, NEW ann, NEW open, NEW n, NEW a, Stands(tr, t, ann, open, n, a),
           a \in open, NEW x \in IrCode, Fits(ann, n, a, KnownEnd(t, ann, a), x)
    PROVE  Wrote(tr, t, Emit(t, <<x>>), ann, open, n, a, x)
<1> DEFINE u == Emit(t, <<x>>)
           B == t.blocks
           D == B[a] \o <<x>>
           C == [B EXCEPT ![a] = D]
           l == Len(B[a])
           open2 == IF x.op \in Terminators THEN open \ {a} ELSE open
<1>1. IsTranslator(t) /\ Len(B) = n /\ n \in Nat /\ a \in 1 .. n /\ t.at = a
      /\ Certifies(ann, B, open)
  BY DEF Stands
<1>2. B \in Seq(Seq(IrCode)) /\ B[a] \in Seq(IrCode) /\ l \in Nat
  <2>1. B \in Seq(Seq(IrCode))
    BY <1>1 DEF Certifies
  <2> QED BY <1>1, <2>1
<1>3. /\ D \in Seq(IrCode) /\ Len(D) = l + 1 /\ D[l + 1] = x
      /\ \A i \in 1 .. l : D[i] = B[a][i]
  BY <1>2
<1>4. u = [blocks |-> C, at |-> t.at, labels |-> t.labels, ok |-> t.ok,
           symbols |-> t.symbols]
  <2>1. t = [blocks |-> B, at |-> a, labels |-> t.labels, ok |-> t.ok,
             symbols |-> t.symbols]
    BY <1>1 DEF IsTranslator
  <2> HIDE DEF B
  <2>2. Emit(t, <<x>>) = [blocks |-> [B EXCEPT ![a] = B[a] \o <<x>>], at |-> a,
                          labels |-> t.labels, ok |-> t.ok, symbols |-> t.symbols]
    BY <2>1 DEF Emit
  <2> QED BY <1>1, <2>2
<1> HIDE DEF u, D, l, B
<1>5. /\ C \in Seq(Seq(IrCode)) /\ Len(C) = n /\ C[a] = D
      /\ \A b \in 1 .. n : b # a => C[b] = B[b]
  BY <1>1, <1>2, <1>3
<1> HIDE DEF C
<1>6. KnownEnd(t, ann, a) = KnownAt(B[a], ann[a], l + 1)
  BY DEF KnownEnd, B, l
<1>7. \A i \in 1 .. (l + 1) : KnownAt(D, ann[a], i) = KnownAt(B[a], ann[a], i)
  <2> TAKE i \in 1 .. (l + 1)
  <2>1. \A j \in 1 .. (i - 1) : j \in 1 .. l
    BY <1>2
  <2> QED BY <1>3, <2>1 DEF KnownAt
<1>8. \A b \in 1 .. n : \A i \in 1 .. Len(B[b]) :
          /\ Fits(ann, n, b, KnownAt(B[b], ann[b], i), B[b][i])
          /\ B[b][i].op \in Terminators => i = Len(B[b]) /\ b \notin open
  BY <1>1 DEF Certifies
<1>9. ASSUME NEW b \in 1 .. n, NEW i \in 1 .. Len(C[b])
      PROVE  /\ Fits(ann, n, b, KnownAt(C[b], ann[b], i), C[b][i])
             /\ C[b][i].op \in Terminators => i = Len(C[b]) /\ b \notin open2
  <2>1. CASE b # a
    <3>1. C[b] = B[b]
      BY <1>5, <2>1
    <3>2. /\ Fits(ann, n, b, KnownAt(C[b], ann[b], i), C[b][i])
          /\ C[b][i].op \in Terminators => i = Len(C[b]) /\ b \notin open
      BY <1>8, <3>1
    <3> QED BY <3>2
  <2>2. CASE b = a /\ i \in 1 .. l
    <3>1. C[b] = D /\ D[i] = B[a][i] /\ Len(B[a]) = l
      BY <1>3, <1>5, <2>2 DEF l
    <3>2. /\ Fits(ann, n, a, KnownAt(B[a], ann[a], i), B[a][i])
          /\ B[a][i].op \notin Terminators
      BY <1>1, <1>8, <2>2, <3>1
    <3>3. KnownAt(D, ann[a], i) = KnownAt(B[a], ann[a], i)
      BY <1>2, <1>7, <2>2
    <3> QED BY <2>2, <3>1, <3>2, <3>3
  <2>3. CASE b = a /\ i = l + 1
    <3>1. C[b] = D /\ D[i] = x /\ Len(D) = i
      BY <1>3, <1>5, <2>3
    <3>2. KnownAt(D, ann[a], i) = KnownEnd(t, ann, a)
      <4>1. l + 1 \in 1 .. (l + 1)
        BY <1>2
      <4> QED BY <1>6, <1>7, <2>3, <4>1
    <3> QED BY <2>3, <3>1, <3>2
  <2>4. b # a \/ i \in 1 .. l \/ i = l + 1
    <3>1. CASE b = a
      <4>1. i \in 1 .. (l + 1)
        BY <1>3, <1>5, <3>1
      <4> QED BY <1>2, <4>1
    <3> QED BY <3>1
  <2> QED BY <2>1, <2>2, <2>3, <2>4
<1>10. ASSUME NEW b \in (1 .. n) \ open2
       PROVE  C[b] # <<>> /\ C[b][Len(C[b])].op \in Terminators
  <2>1. CASE b = a
    <3>1. x.op \in Terminators
      BY <2>1
    <3>2. C[b] = D /\ D[Len(D)] = x /\ D # <<>>
      BY <1>2, <1>3, <1>5, <2>1
    <3> QED BY <3>1, <3>2
  <2>2. CASE b # a
    <3>1. C[b] = B[b] /\ b \in (1 .. n) \ open
      BY <1>5, <2>2
    <3> QED BY <1>1, <3>1 DEF Certifies
  <2> QED BY <2>1, <2>2
<1>11. Certifies(ann, C, open2)
  <2>1. open \subseteq 2 .. n /\ n >= 1 /\ Allocates(B[1]) /\ ann[1] = "any"
    BY <1>1 DEF Certifies
  <2>2. C[1] = B[1]
    BY <1>1, <1>5, <2>1
  <2> QED BY <1>1, <1>5, <1>9, <1>10, <2>1, <2>2 DEF Certifies
<1>12. u.blocks = C /\ IsTranslator(u) /\ u.at = t.at /\ u.labels = t.labels
       /\ u.ok = t.ok /\ u.symbols = t.symbols
  BY <1>4 DEF IsTranslator
<1>13. Stands(tr, u, ann, open2, n, a)
  BY <1>1, <1>5, <1>11, <1>12 DEF Stands
<1>14. \A c \in 1 .. n : c # a => KnownEnd(u, ann, c) = KnownEnd(t, ann, c)
  BY <1>5, <1>12 DEF KnownEnd, B
<1>15. KnownEnd(u, ann, a) = IF x.op = "readchar" THEN "current" ELSE KnownEnd(t, ann, a)
  <2>1. KnownEnd(u, ann, a) = KnownAt(D, ann[a], l + 2)
    <3>1. Len(D) + 1 = l + 2
      BY <1>2, <1>3
    <3> QED BY <1>5, <1>12, <3>1 DEF KnownEnd
  <2>2. (\E j \in 1 .. (l + 1) : D[j].op = "readchar") <=>
            \/ x.op = "readchar"
            \/ \E j \in 1 .. l : B[a][j].op = "readchar"
    <3>1. \A j \in 1 .. (l + 1) : j \in 1 .. l \/ j = l + 1
      BY <1>2
    <3>2. l + 1 \in 1 .. (l + 1) /\ \A j \in 1 .. l : j \in 1 .. (l + 1)
      BY <1>2
    <3> QED BY <1>3, <3>1, <3>2
  <2>3. (l + 2) - 1 = l + 1 /\ (l + 1) - 1 = l
    BY <1>2
  <2>4. KnownAt(D, ann[a], l + 2) =
            IF \E j \in 1 .. (l + 1) : D[j].op = "readchar" THEN "current" ELSE ann[a]
    BY <2>3 DEF KnownAt
  <2>5. KnownEnd(t, ann, a) =
            IF \E j \in 1 .. l : B[a][j].op = "readchar" THEN "current" ELSE ann[a]
    BY <1>6, <2>3 DEF KnownAt
  <2> QED BY <2>1, <2>2, <2>4, <2>5
<1>16. Wrote(tr, t, u, ann, open, n, a, x)
  BY <1>13, <1>14, <1>15 DEF Wrote
<1> QED BY <1>16 DEF u

\* Two instructions emitted at once come one after the other.
LEMMA EmittedTwice ==
    ASSUME NEW tr, NEW t, NEW ann, NEW open, NEW n, NEW a, Stands(tr, t, ann, open, n, a),
           NEW x \in IrCode, NEW y \in IrCode
    PROVE  Emit(t, <<x, y>>) = Emit(Emit(t, <<x>>), <<y>>)
<1> DEFINE B == t.blocks
           one == [B EXCEPT ![a] = B[a] \o <<x>>]
           two == [one EXCEPT ![a] = one[a] \o <<y>>]
           R(b) == [blocks |-> b, at |-> a, labels |-> t.labels, ok |-> t.ok,
                    symbols |-> t.symbols]
<1>1. IsTranslator(t) /\ a \in 1 .. Len(B) /\ t.at = a
      /\ B \in Seq(Seq(IrCode)) /\ B[a] \in Seq(IrCode)
  <2>1. IsTranslator(t) /\ a \in 1 .. Len(B) /\ t.at = a /\ B \in Seq(Seq(IrCode))
    BY DEF Stands, Certifies
  <2> QED BY <2>1
<1>2. t = R(B)
  BY <1>1 DEF IsTranslator
<1> HIDE DEF B
<1>3. Emit(t, <<x>>) = R(one)
  BY <1>2 DEF Emit
<1>4. Emit(R(one), <<y>>) = R(two)
  <2> HIDE DEF one
  <2> QED BY DEF Emit
<1>5. Emit(t, <<x, y>>) = R([B EXCEPT ![a] = B[a] \o <<x, y>>])
  BY <1>2 DEF Emit
<1>6. two = [B EXCEPT ![a] = B[a] \o <<x, y>>]
  <2>1. (B[a] \o <<x>>) \o <<y>> = B[a] \o <<x, y>>
    <3> DEFINE s == B[a]
               p == (s \o <<x>>) \o <<y>>
               q == s \o <<x, y>>
    <3>1. s \in Seq(IrCode) /\ Len(s) \in Nat
      BY <1>1
    <3> HIDE DEF s
    <3>2. /\ s \o <<x>> \in Seq(IrCode) /\ Len(s \o <<x>>) = Len(s) + 1
          /\ \A i \in 1 .. Len(s) : (s \o <<x>>)[i] = s[i]
          /\ (s \o <<x>>)[Len(s) + 1] = x
      BY <3>1
    <3>3. /\ p \in Seq(IrCode) /\ Len(p) = Len(s) + 2
          /\ \A i \in 1 .. Len(s) : p[i] = s[i]
          /\ p[Len(s) + 1] = x /\ p[Len(s) + 2] = y
      <4> DEFINE r == s \o <<x>>
      <4>1. r \in Seq(IrCode) /\ Len(r) = Len(s) + 1
        BY <3>2
      <4> HIDE DEF r
      <4>2. /\ r \o <<y>> \in Seq(IrCode) /\ Len(r \o <<y>>) = Len(s) + 2
            /\ \A i \in 1 .. (Len(s) + 1) : (r \o <<y>>)[i] = r[i]
            /\ (r \o <<y>>)[Len(s) + 2] = y
        BY <3>1, <4>1
      <4> QED BY <3>1, <3>2, <4>2 DEF r
    <3>4. /\ q \in Seq(IrCode) /\ Len(q) = Len(s) + 2
          /\ \A i \in 1 .. Len(s) : q[i] = s[i]
          /\ q[Len(s) + 1] = x /\ q[Len(s) + 2] = y
      BY <3>1
    <3> HIDE DEF p, q
    <3>5. \A i \in 1 .. (Len(s) + 2) : p[i] = q[i]
      <4> TAKE i \in 1 .. (Len(s) + 2)
      <4>1. i \in 1 .. Len(s) \/ i = Len(s) + 1 \/ i = Len(s) + 2
        BY <3>1
      <4> QED BY <3>3, <3>4, <4>1
    <3>6. p = q
      BY <3>3, <3>4, <3>5
    <3> QED BY <3>6 DEF p, q, s
  <2>2. DOMAIN B = 1 .. Len(B)
    BY <1>1
  <2> QED BY <1>1, <2>1, <2>2
<1> QED BY <1>3, <1>4, <1>5, <1>6

\* A jump closes the block.
LEMMA Jumped ==
    ASSUME NEW tr, NEW t, NEW ann, NEW open, NEW n, NEW a, Stands(tr, t, ann, open, n, a),
           a \in open, NEW b \in 2 .. n, Leads(ann, KnownEnd(t, ann, a), b)
    PROVE  Turns(tr, t, Emit(t, <<Br(b)>>), ann, open \ {a}, n, a, n, a)
<1>1. Br(b).op = "br" /\ Br(b).to = b
  BY DEF Br
<1>2. Br(b) \in IrCode
  <2>1. b \in Nat
    BY DEF Stands
  <2> QED BY <2>1 DEF IrCode
<1>3. Fits(ann, n, a, KnownEnd(t, ann, a), Br(b))
  BY <1>1 DEF Fits
<1>4. Br(b).op \in Terminators
  BY <1>1 DEF Terminators
<1>5. Wrote(tr, t, Emit(t, <<Br(b)>>), ann, open, n, a, Br(b))
  BY <1>2, <1>3, Emitted
<1> QED BY <1>4, <1>5 DEF Wrote, Turns, SameEnds

\* So does a conditional branch; the entry block has none.
LEMMA Branched ==
    ASSUME NEW tr, NEW t, NEW ann, NEW open, NEW n, NEW a, Stands(tr, t, ann, open, n, a),
           a \in open, a # 1, NEW b \in 2 .. n, NEW c \in 2 .. n, NEW cond,
           \/ /\ cond = AtEndTest(a)
              /\ Leads(ann, "any", b) /\ Leads(ann, "notend", c)
           \/ /\ \E e \in SUBSET Char : cond = EdgeTest(a, e)
              /\ KnownEnd(t, ann, a) = "current"
              /\ Leads(ann, "current", b) /\ Leads(ann, "current", c)
           \/ /\ \E v \in {"start_pos", "end_pos"} : cond = NonNullTest(a, v)
              /\ Leads(ann, "any", b) /\ Leads(ann, "any", c)
    PROVE  Turns(tr, t, Emit(t, <<CondBr(cond, b, c)>>), ann, open \ {a}, n, a, n, a)
<1> DEFINE x == CondBr(cond, b, c)
<1>1. x.op = "condbr" /\ x.then = b /\ x.else = c /\ x.cond = cond
  BY DEF CondBr
<1>2. a \in Nat /\ b \in Nat /\ c \in Nat
  BY DEF Stands
<1>3. x \in IrCode /\ Fits(ann, n, a, KnownEnd(t, ann, a), x)
  <2>1. CASE /\ cond = AtEndTest(a)
             /\ Leads(ann, "any", b) /\ Leads(ann, "notend", c)
    <3>1. cond.block = a /\ cond.test = "end"
      BY <2>1 DEF AtEndTest
    <3>2. x \in IrCode
      BY <1>2, <2>1 DEF IrCode
    <3> QED BY <1>1, <2>1, <3>1, <3>2 DEF Fits
  <2>2. CASE /\ \E e \in SUBSET Char : cond = EdgeTest(a, e)
             /\ KnownEnd(t, ann, a) = "current"
             /\ Leads(ann, "current", b) /\ Leads(ann, "current", c)
    <3>1. PICK e \in SUBSET Char : cond = EdgeTest(a, e)
      BY <2>2
    <3>2. cond.block = a /\ cond.test = "edge"
      BY <3>1 DEF EdgeTest
    <3>3. x \in IrCode
      BY <1>2, <3>1 DEF IrCode
    <3> QED BY <1>1, <2>2, <3>2, <3>3 DEF Fits
  <2>3. CASE /\ \E v \in {"start_pos", "end_pos"} : cond = NonNullTest(a, v)
             /\ Leads(ann, "any", b) /\ Leads(ann, "any", c)
    <3>1. PICK v \in {"start_pos", "end_pos"} : cond = NonNullTest(a, v)
      BY <2>3
    <3>2. cond.block = a /\ cond.test = "nonnull"
      BY <3>1 DEF NonNullTest
    <3>3. x \in IrCode
      BY <1>2, <3>1 DEF IrCode
    <3>4. \A k : Leads(ann, k, b) /\ Leads(ann, k, c)
      BY <2>3 DEF Leads
    <3> QED BY <1>1, <3>2, <3>3, <3>4 DEF Fits
  <2> QED BY <2>1, <2>2, <2>3
<1>4. x.op \in Terminators /\ x.op # "readchar"
  BY <1>1 DEF Terminators
<1> HIDE DEF x
<1>5. Wrote(tr, t, Emit(t, <<x>>), ann, open, n, a, x)
  BY <1>3, Emitted
<1>6. Turns(tr, t, Emit(t, <<x>>), ann, open \ {a}, n, a, n, a)
  BY <1>4, <1>5 DEF Wrote, Turns, SameEnds
<1> QED BY <1>6 DEF x

\* The insert point is back where it was after a jump is put into another block.
LEMMA JumpedAside ==
    ASSUME NEW tr, NEW t, NEW ann, NEW open, NEW n, NEW a, Stands(tr, t, ann, open, n, a),
           NEW b \in open, NEW c \in 2 .. n, Leads(ann, KnownEnd(t, ann, b), c)
    PROVE  Turns(tr, t, Aside(t, b, <<Br(c)>>), ann, open \ {b}, n, a, n, b)
<1> DEFINE u == SetInsertPoint(t, b)
           v == Emit(u, <<Br(c)>>)
           w == SetInsertPoint(v, a)
<1>1. n \in Nat /\ b \in 1 .. n /\ a \in 1 .. n /\ t.at = a
  BY DEF Stands, Certifies
<1>2. Turns(tr, t, u, ann, open, n, b, n, 0)
  BY <1>1, PointSet
<1>3. Aside(t, b, <<Br(c)>>) = w
  BY <1>1 DEF Aside, RestoreInsertPoint
<1> HIDE DEF u
<1>4. Stands(tr, u, ann, open, n, b) /\ Leads(ann, KnownEnd(u, ann, b), c)
  BY <1>1, <1>2 DEF Turns, SameEnds
<1>5. Turns(tr, u, v, ann, open \ {b}, n, b, n, b)
  BY <1>4, Jumped
<1> HIDE DEF v
<1>6. Stands(tr, v, ann, open \ {b}, n, b)
  BY <1>5 DEF Turns
<1>7. Turns(tr, v, w, ann, open \ {b}, n, a, n, 0)
  BY <1>1, <1>6, PointSet
<1> HIDE DEF w
<1>8. Turns(tr, t, w, ann, open \ {b}, n, a, n, b)
  BY <1>1, <1>2, <1>5, <1>7 DEF Turns, SameEnds
<1> QED BY <1>3, <1>8

\* And after another instruction before the jump.
LEMMA WroteAside ==
    ASSUME NEW tr, NEW t, NEW ann, NEW open, NEW n, NEW a, Stands(tr, t, ann, open, n, a),
           NEW b \in open, NEW c \in 2 .. n, Leads(ann, KnownEnd(t, ann, b), c),
           NEW x \in IrCode, Fits(ann, n, b, KnownEnd(t, ann, b), x),
           x.op # "readchar", x.op \notin Terminators
    PROVE  Turns(tr, t, Aside(t, b, <<x, Br(c)>>), ann, open \ {b}, n, a, n, b)
<1> DEFINE u == SetInsertPoint(t, b)
           s == Emit(u, <<x>>)
           v == Emit(s, <<Br(c)>>)
           w == SetInsertPoint(v, a)
<1>1. n \in Nat /\ b \in 1 .. n /\ a \in 1 .. n /\ t.at = a
  BY DEF Stands, Certifies
<1>2. Turns(tr, t, u, ann, open, n, b, n, 0)
  BY <1>1, PointSet
<1>3. Aside(t, b, <<x, Br(c)>>) = SetInsertPoint(Emit(u, <<x, Br(c)>>), a)
  BY <1>1 DEF Aside, RestoreInsertPoint
<1> HIDE DEF u
<1>4. /\ Stands(tr, u, ann, open, n, b) /\ KnownEnd(u, ann, b) = KnownEnd(t, ann, b)
      /\ Fits(ann, n, b, KnownEnd(u, ann, b), x)
  BY <1>1, <1>2 DEF Turns, SameEnds
<1>5. Emit(u, <<x, Br(c)>>) = v
  <2>1. Br(c) \in IrCode
    <3>1. c \in Nat
      BY <1>1
    <3> QED BY <3>1 DEF IrCode
  <2> QED BY <1>4, <2>1, EmittedTwice
<1>6. Wrote(tr, u, s, ann, open, n, b, x)
  BY <1>4, Emitted
<1> HIDE DEF s
<1>7. /\ Stands(tr, s, ann, open, n, b) /\ KnownEnd(s, ann, b) = KnownEnd(u, ann, b)
      /\ Leads(ann, KnownEnd(s, ann, b), c)
  BY <1>4, <1>6 DEF Wrote
<1>8. Turns(tr, s, v, ann, open \ {b}, n, b, n, b)
  BY <1>7, Jumped
<1> HIDE DEF v
<1>9. Stands(tr, v, ann, open \ {b}, n, b)
  BY <1>8 DEF Turns
<1>10. Turns(tr, v, w, ann, open \ {b}, n, a, n, 0)
  BY <1>1, <1>9, PointSet
<1>11. Aside(t, b, <<x, Br(c)>>) = w
  BY <1>3, <1>5
<1> HIDE DEF w
<1>12. Turns(tr, t, w, ann, open \ {b}, n, a, n, b)
  BY <1>1, <1>2, <1>6, <1>8, <1>10 DEF Turns, SameEnds, Wrote
<1> QED BY <1>11, <1>12

\* Nothing is asked of blocks after the first n.
Free(ann, n) == \A b \in Nat : b > n => ann[b] = "any"

\* The store through a pointer that may be null.
LEMMA StoreMade ==
    ASSUME NEW tr, NEW t, NEW ann, NEW open, NEW n, NEW a, Stands(tr, t, ann, open, n, a),
           a \in open, a # 1, Free(ann, n), NEW name \in {"start_pos", "end_pos"}
    PROVE  Turns(tr, t, MakeNonNullStore(t, name), ann, (open \ {a}) \cup {n + 1},
                 n + 3, n + 1, n, a)
<1> DEFINE t1 == WithBlocks(t, 3)
           t2 == Aside(t1, n + 3, <<StoreOut(name), Br(n + 1)>>)
           t3 == Emit(t2, <<CondBr(NonNullTest(a, name), n + 3, n + 2)>>)
           t4 == SetInsertPoint(t3, n + 2)
           t5 == Emit(t4, <<Br(n + 1)>>)
           t6 == SetInsertPoint(t5, n + 1)
           o1 == open \cup ((n + 1) .. (n + 3))
           o2 == o1 \ {n + 3}
           o3 == o2 \ {a}
           o5 == o3 \ {n + 2}
<1>1. /\ n \in Nat /\ Len(t.blocks) = n /\ a \in 1 .. n /\ open \subseteq 1 .. n
      /\ n + 1 \in Nat /\ n + 2 \in Nat /\ n + 3 \in Nat
  BY DEF Stands, Certifies
<1>2. ann[n + 1] = "any" /\ ann[n + 2] = "any" /\ ann[n + 3] = "any"
  BY <1>1 DEF Free
<1>3. \A k : Leads(ann, k, n + 1) /\ Leads(ann, k, n + 2) /\ Leads(ann, k, n + 3)
  BY <1>2 DEF Leads
<1>4. n + 1 \in 2 .. (n + 3) /\ n + 2 \in 2 .. (n + 3) /\ n + 3 \in 2 .. (n + 3)
  BY <1>1
<1>5. Stands(tr, t1, ann, o1, n + 3, a) /\ SameEnds(t, t1, ann, n, 0)
  <2>1. Turns(tr, t, t1, ann, o1, n + 3, a, n, 0)
    BY BlocksCreated
  <2> HIDE DEF t1, o1
  <2> QED BY <2>1 DEF Turns
<1> HIDE DEF t1, o1
<1>6. /\ n + 1 \in o1 /\ n + 2 \in o1 /\ n + 3 \in o1 /\ a \in o1
      /\ o1 \subseteq 1 .. (n + 3)
  BY <1>1 DEF o1
<1>7. StoreOut(name) \in IrCode /\ StoreOut(name).op = "storeout"
  BY DEF IrCode, StoreOut
<1>8. Stands(tr, t2, ann, o2, n + 3, a) /\ SameEnds(t1, t2, ann, n + 3, n + 3)
  <2>1. Fits(ann, n + 3, n + 3, KnownEnd(t1, ann, n + 3), StoreOut(name))
    BY <1>1, <1>7 DEF Fits
  <2>2. StoreOut(name).op # "readchar" /\ StoreOut(name).op \notin Terminators
    BY <1>7 DEF Terminators
  <2>3. Leads(ann, KnownEnd(t1, ann, n + 3), n + 1)
    BY <1>3
  <2> HIDE DEF StoreOut
  <2>4. Turns(tr, t1, t2, ann, o2, n + 3, a, n + 3, n + 3)
    BY <1>4, <1>5, <1>6, <1>7, <2>1, <2>2, <2>3, WroteAside
  <2> HIDE DEF t2, o2
  <2> QED BY <2>4 DEF Turns
<1> HIDE DEF t2
<1>9. Stands(tr, t3, ann, o3, n + 3, a) /\ SameEnds(t2, t3, ann, n + 3, a)
  <2>1. a \in o2
    BY <1>1, <1>6
  <2>2. Turns(tr, t2, t3, ann, o3, n + 3, a, n + 3, a)
    BY <1>3, <1>4, <1>8, <2>1, Branched
  <2> HIDE DEF t3, o3
  <2> QED BY <2>2 DEF Turns
<1> HIDE DEF t3
<1>10. Stands(tr, t4, ann, o3, n + 3, n + 2) /\ SameEnds(t3, t4, ann, n + 3, 0)
  <2>1. n + 2 \in 1 .. (n + 3)
    BY <1>1
  <2> HIDE DEF o3
  <2>2. Turns(tr, t3, t4, ann, o3, n + 3, n + 2, n + 3, 0)
    BY <1>9, <2>1, PointSet
  <2> HIDE DEF t4
  <2> QED BY <2>2 DEF Turns
<1> HIDE DEF t4
<1>11. Stands(tr, t5, ann, o5, n + 3, n + 2) /\ SameEnds(t4, t5, ann, n + 3, n + 2)
  <2>1. n + 2 \in o3
    BY <1>1, <1>6
  <2>2. Leads(ann, KnownEnd(t4, ann, n + 2), n + 1)
    BY <1>3
  <2>3. Turns(tr, t4, t5, ann, o5, n + 3, n + 2, n + 3, n + 2)
    <3> HIDE DEF o3
    <3> QED BY <1>4, <1>10, <2>1, <2>2, Jumped
  <2> HIDE DEF t5, o5
  <2> QED BY <2>3 DEF Turns
<1> HIDE DEF t5
<1>12. Stands(tr, t6, ann, o5, n + 3, n + 1) /\ SameEnds(t5, t6, ann, n + 3, 0)
  <2>1. n + 1 \in 1 .. (n + 3)
    BY <1>1
  <2> HIDE DEF o5
  <2>2. Turns(tr, t5, t6, ann, o5, n + 3, n + 1, n + 3, 0)
    BY <1>11, <2>1, PointSet
  <2> HIDE DEF t6
  <2> QED BY <2>2 DEF Turns
<1>13. o5 = (open \ {a}) \cup {n + 1}
  BY <1>1 DEF o1
<1>14. MakeNonNullStore(t, name) = t6
  <2>1. Fresh(t, 0) = n + 1 /\ Fresh(t, 1) = n + 2 /\ Fresh(t, 2) = n + 3
    BY <1>1 DEF Fresh
  <2>2. t2.at = a
    BY <1>8 DEF Stands
  <2> QED BY <2>1, <2>2 DEF MakeNonNullStore, t1, t2, t3, t4, t5
<1> HIDE DEF t6
<1>15. SameEnds(t, t6, ann, n, a)
  <2> SUFFICES ASSUME NEW c \in 1 .. n, c # a
               PROVE  KnownEnd(t6, ann, c) = KnownEnd(t, ann, c)
    BY DEF SameEnds
  <2>1. c \in 1 .. (n + 3) /\ c # n + 2 /\ c # n + 3 /\ c # 0
    BY <1>1
  <2> QED BY <1>5, <1>8, <1>9, <1>10, <1>11, <1>12, <2>1 DEF SameEnds
<1>16. Turns(tr, t, t6, ann, o5, n + 3, n + 1, n, a)
  BY <1>12, <1>15 DEF Turns
<1> HIDE DEF o5
<1> QED BY <1>13, <1>14, <1>16

\* Both stores of a search.
LEMMA StoresMade ==
    ASSUME NEW tr, NEW t, NEW ann, NEW open, NEW n, NEW a, Stands(tr, t, ann, open, n, a),
           a \in open, a # 1, Free(ann, n)
    PROVE  Turns(tr, t, MakeStores(t), ann, (open \ {a}) \cup {n + 5}, n + 7, n + 5, n, a)
<1> DEFINE t1 == WithBlocks(t, 1)
           t2 == Emit(t1, <<Br(n + 1)>>)
           t3 == SetInsertPoint(t2, n + 1)
           t4 == MakeNonNullStore(t3, "start_pos")
           t5 == MakeNonNullStore(t4, "end_pos")
           o1 == open \cup ((n + 1) .. (n + 1))
           o2 == o1 \ {a}
           o4 == (o2 \ {n + 1}) \cup {n + 2}
           o5 == (o4 \ {n + 2}) \cup {n + 5}
<1>1. /\ n \in Nat /\ Len(t.blocks) = n /\ a \in 1 .. n /\ open \subseteq 1 .. n
      /\ (n + 1) + 1 = n + 2 /\ (n + 1) + 3 = n + 4
      /\ (n + 4) + 1 = n + 5 /\ (n + 4) + 3 = n + 7
  BY DEF Stands, Certifies
<1>2. Stands(tr, t1, ann, o1, n + 1, a) /\ SameEnds(t, t1, ann, n, 0)
  <2>1. Turns(tr, t, t1, ann, o1, n + 1, a, n, 0)
    BY BlocksCreated
  <2> HIDE DEF t1, o1
  <2> QED BY <2>1 DEF Turns
<1> HIDE DEF t1
<1>3. Stands(tr, t2, ann, o2, n + 1, a) /\ SameEnds(t1, t2, ann, n + 1, a)
  <2>1. Leads(ann, KnownEnd(t1, ann, a), n + 1)
    BY <1>1 DEF Free, Leads
  <2>2. a \in o1 /\ n + 1 \in 2 .. (n + 1)
    BY <1>1
  <2> HIDE DEF o1
  <2>3. Turns(tr, t1, t2, ann, o2, n + 1, a, n + 1, a)
    BY <1>2, <2>1, <2>2, Jumped
  <2> HIDE DEF t2, o2
  <2> QED BY <2>3 DEF Turns
<1> HIDE DEF t2
<1>4. Stands(tr, t3, ann, o2, n + 1, n + 1) /\ SameEnds(t2, t3, ann, n + 1, 0)
  <2>1. n + 1 \in 1 .. (n + 1)
    BY <1>1
  <2> HIDE DEF o2
  <2>2. Turns(tr, t2, t3, ann, o2, n + 1, n + 1, n + 1, 0)
    BY <1>3, <2>1, PointSet
  <2> HIDE DEF t3
  <2> QED BY <2>2 DEF Turns
<1> HIDE DEF t3
<1>5. n + 1 \in o2 /\ n + 1 # 1
  BY <1>1
<1>6. Free(ann, n + 1) /\ Free(ann, n + 4)
  BY <1>1 DEF Free
<1> HIDE DEF o2
<1>7. Stands(tr, t4, ann, o4, n + 4, n + 2) /\ SameEnds(t3, t4, ann, n + 1, n + 1)
  <2>1. Turns(tr, t3, t4, ann, (o2 \ {n + 1}) \cup {(n + 1) + 1}, (n + 1) + 3, (n + 1) + 1,
              n + 1, n + 1)
    BY <1>4, <1>5, <1>6, StoreMade
  <2> HIDE DEF t4
  <2> QED BY <1>1, <2>1 DEF Turns
<1> HIDE DEF t4
<1>8. n + 2 \in o4 /\ n + 2 # 1
  BY <1>1
<1> HIDE DEF o4
<1>9. Stands(tr, t5, ann, o5, n + 7, n + 5) /\ SameEnds(t4, t5, ann, n + 4, n + 2)
  <2>1. Turns(tr, t4, t5, ann, (o4 \ {n + 2}) \cup {(n + 4) + 1}, (n + 4) + 3, (n + 4) + 1,
              n + 4, n + 2)
    BY <1>6, <1>7, <1>8, StoreMade
  <2> HIDE DEF t5
  <2> QED BY <1>1, <2>1 DEF Turns
<1>10. o5 = (open \ {a}) \cup {n + 5}
  BY <1>1 DEF o2, o4
<1>11. MakeStores(t) = t5
  <2>1. Fresh(t, 0) = n + 1
    BY <1>1 DEF Fresh
  <2> QED BY <2>1 DEF MakeStores, t1, t2, t3, t4
<1> HIDE DEF t5
<1>12. SameEnds(t, t5, ann, n, a)
  <2> SUFFICES ASSUME NEW c \in 1 .. n, c # a
               PROVE  KnownEnd(t5, ann, c) = KnownEnd(t, ann, c)
    BY DEF SameEnds
  <2>1. c \in 1 .. (n + 1) /\ c # n + 1 /\ c \in 1 .. (n + 4) /\ c # n + 2 /\ c # 0
    BY <1>1
  <2> QED BY <1>2, <1>3, <1>4, <1>7, <1>9, <2>1 DEF SameEnds
<1>13. Turns(tr, t, t5, ann, o5, n + 7, n + 5, n, a)
  BY <1>9, <1>12 DEF Turns
<1> HIDE DEF o5
<1> QED BY <1>10, <1>11, <1>13

\* The accept and the reject block can be jumped to from anywhere.
Exits(tr, ann, n) ==
    /\ tr.symbols.accept_block \in 2 .. n /\ ann[tr.symbols.accept_block] = "any"
    /\ tr.symbols.reject_block \in 2 .. n /\ ann[tr.symbols.reject_block] = "any"

\* u has the first n blocks of before, annotated as they were, and more; but
\* for those that are open, all have ended.
Closed(tr, u, ann, n, open) ==
    \E A \in [Nat -> Facts], n2 \in Nat, a2 \in Nat :
        /\ n2 >= n /\ Free(A, n2)
        /\ \A b \in 1 .. n : A[b] = ann[b]
        /\ Stands(tr, u, A, open, n2, a2)

\* The same, at the end of a new open block where f is known.
Continued(tr, u, ann, n, open, f) ==
    \E A \in [Nat -> Facts], n2 \in Nat, a2 \in Nat :
        /\ n2 >= n /\ Free(A, n2)
        /\ \A b \in 1 .. n : A[b] = ann[b]
        /\ a2 > n
        /\ Stands(tr, u, A, open \cup {a2}, n2, a2)
        /\ KnownEnd(u, A, a2) = f

\* ACCEPT.
LEMMA AcceptMade ==
    ASSUME NEW tr, NEW t, NEW ann, NEW open, NEW n, NEW a, Stands(tr, t, ann, open, n, a),
           a \in open, a # 1, Free(ann, n), Exits(tr, ann, n), NEW k \in Kinds
    PROVE  \E n2 \in Nat, a2 \in Nat :
               /\ n2 >= n
               /\ Turns(tr, t, MakeAccept(k, t), ann, open \ {a}, n2, a2, n, a)
<1> DEFINE b == tr.symbols.accept_block
<1>1. /\ n \in Nat /\ a \in 1 .. n /\ open \subseteq 1 .. n
      /\ b \in 2 .. n /\ \A f : Leads(ann, f, b)
  BY DEF Stands, Certifies, Exits, Leads
<1>2. CASE k # "search"
  <2>1. MakeAccept(k, t) = Emit(t, <<Br(b)>>)
    BY <1>2 DEF MakeAccept, Stands
  <2> HIDE DEF b
  <2>2. Turns(tr, t, Emit(t, <<Br(b)>>), ann, open \ {a}, n, a, n, a)
    BY <1>1, Jumped
  <2>3. n >= n /\ a \in Nat
    BY <1>1
  <2> QED BY <1>1, <2>1, <2>2, <2>3
<1>3. CASE k = "search"
  <2> DEFINE s == MakeStores(t)
             c == n + 5
             o == (open \ {a}) \cup {c}
  <2>1. Stands(tr, s, ann, o, n + 7, c) /\ SameEnds(t, s, ann, n, a)
    <3>1. Turns(tr, t, s, ann, o, n + 7, c, n, a)
      BY StoresMade
    <3> HIDE DEF s, o
    <3> QED BY <3>1 DEF Turns
  <2>2. MakeAccept(k, t) = Emit(s, <<Br(b)>>)
    <3>1. t.symbols = tr.symbols
      BY DEF Stands
    <3> QED BY <1>3, <3>1 DEF MakeAccept
  <2> HIDE DEF s, b
  <2>3. c \in o /\ b \in 2 .. (n + 7) /\ n + 7 >= n /\ n + 7 \in Nat /\ c \in Nat
        /\ o \ {c} = open \ {a}
    BY <1>1
  <2> HIDE DEF o, c
  <2> DEFINE u == Emit(s, <<Br(b)>>)
  <2>4. Turns(tr, s, u, ann, o \ {c}, n + 7, c, n + 7, c)
    <3>1. Leads(ann, KnownEnd(s, ann, c), b)
      BY <1>1
    <3> QED BY <2>1, <2>3, <3>1, Jumped
  <2> HIDE DEF u
  <2>5. Turns(tr, t, u, ann, open \ {a}, n + 7, c, n, a)
    <3>1. SameEnds(t, u, ann, n, a)
      <4> SUFFICES ASSUME NEW d \in 1 .. n, d # a
                   PROVE  KnownEnd(u, ann, d) = KnownEnd(t, ann, d)
        BY DEF SameEnds
      <4>1. d \in 1 .. (n + 7) /\ d # c
        BY <1>1 DEF c
      <4> QED BY <2>1, <2>4, <4>1 DEF SameEnds, Turns
    <3>2. Stands(tr, u, ann, open \ {a}, n + 7, c)
      BY <2>3, <2>4 DEF Turns
    <3> QED BY <3>1, <3>2 DEF Turns
  <2> QED BY <2>2, <2>3, <2>5 DEF u
<1> QED BY <1>2, <1>3

\* REJECT.
LEMMA RejectMade ==
    ASSUME NEW tr, NEW t, NEW ann, NEW open, NEW n, NEW a, Stands(tr, t, ann, open, n, a),
           a \in open, a # 1, Exits(tr, ann, n)
    PROVE  Turns(tr, t, MakeReject(t), ann, open \ {a}, n, a, n, a)
<1> DEFINE b == tr.symbols.reject_block
<1>1. b \in 2 .. n /\ \A f : Leads(ann, f, b)
  BY DEF Exits, Leads
<1>2. MakeReject(t) = Emit(t, <<Br(b)>>)
  BY DEF MakeReject, Stands
<1> HIDE DEF b
<1>3. Turns(tr, t, Emit(t, <<Br(b)>>), ann, open \ {a}, n, a, n, a)
  BY <1>1, Jumped
<1> QED BY <1>2, <1>3

\* CHECK_END: the way on is taken where the counter is short of the end.
LEMMA CheckEndMade ==
    ASSUME NEW tr, NEW t, NEW ann, NEW open, NEW n, NEW a, Stands(tr, t, ann, open, n, a),
           a \in open, a # 1, Free(ann, n), Exits(tr, ann, n), NEW k \in Kinds,
           NEW i, i.onTrue \in {Accept, Reject}
    PROVE  Continued(tr, MakeCheckEnd(k, t, i), ann, n, open \ {a}, "notend")
<1> DEFINE A == [b \in Nat |-> IF b \in {n + 1, n + 2} THEN "notend" ELSE ann[b]]
           t1 == WithBlocks(t, 3)
           t2 == SetInsertPoint(t1, n + 2)
           t3 == Emit(t2, <<Br(n + 1)>>)
           t4 == SetInsertPoint(t3, n + 3)
           t5 == IF i.onTrue = Accept THEN MakeAccept(k, t4) ELSE MakeReject(t4)
           t6 == SetInsertPoint(t5, a)
           t7 == Emit(t6, <<CondBr(AtEndTest(a), n + 3, n + 2)>>)
           t8 == SetInsertPoint(t7, n + 1)
           o1 == open \cup ((n + 1) .. (n + 3))
           o3 == o1 \ {n + 2}
           o5 == o3 \ {n + 3}
           o7 == o5 \ {a}
<1>1. /\ n \in Nat /\ Len(t.blocks) = n /\ a \in 1 .. n /\ open \subseteq 1 .. n /\ t.at = a
      /\ ann \in [Nat -> Facts]
      /\ n + 1 \in Nat /\ n + 2 \in Nat /\ n + 3 \in Nat
  BY DEF Stands, Certifies
<1>2. /\ A \in [Nat -> Facts] /\ A[n + 1] = "notend" /\ A[n + 2] = "notend"
      /\ A[n + 3] = "any" /\ Free(A, n + 3)
      /\ \A b \in 1 .. n : A[b] = ann[b]
  BY <1>1 DEF Free, Facts
<1> HIDE DEF A
<1>3. Exits(tr, A, n + 3)
  <2>1. \A b \in 2 .. n : b \in 2 .. (n + 3) /\ A[b] = ann[b]
    BY <1>1, <1>2
  <2> QED BY <2>1 DEF Exits
<1>4. Stands(tr, t, A, open, n, a)
  BY <1>2, Reannotated
<1>5. /\ Stands(tr, t1, A, o1, n + 3, a)
      /\ \A c \in (n + 1) .. (n + 3) : KnownEnd(t1, A, c) = A[c]
  <2>1. Turns(tr, t, t1, A, o1, n + 3, a, n, 0)
    BY <1>4, BlocksCreated
  <2>2. NewEnds(t1, A, n, 3)
    BY <1>4, BlocksCreated
  <2> HIDE DEF t1, o1
  <2> QED BY <2>1, <2>2 DEF Turns, NewEnds
<1>7. /\ n + 1 \in (n + 1) .. (n + 3) /\ n + 2 \in (n + 1) .. (n + 3)
      /\ n + 1 \in 2 .. (n + 3) /\ n + 2 \in 2 .. (n + 3) /\ n + 3 \in 2 .. (n + 3)
      /\ n + 2 \in o1 /\ n + 3 \in o3 /\ n + 3 # 1 /\ n + 2 # 0
      /\ n + 2 \in 1 .. (n + 3) /\ n + 3 \in 1 .. (n + 3)
  BY <1>1
<1> HIDE DEF t1, o1
<1>6. Stands(tr, t2, A, o1, n + 3, n + 2) /\ SameEnds(t1, t2, A, n + 3, 0)
  <2>1. Turns(tr, t1, t2, A, o1, n + 3, n + 2, n + 3, 0)
    BY <1>5, <1>7, PointSet
  <2> HIDE DEF t2
  <2> QED BY <2>1 DEF Turns
<1> HIDE DEF t2
<1>8. Stands(tr, t3, A, o3, n + 3, n + 2) /\ SameEnds(t2, t3, A, n + 3, n + 2)
  <2>1. KnownEnd(t2, A, n + 2) = "notend"
    BY <1>2, <1>5, <1>6, <1>7 DEF SameEnds
  <2>2. Leads(A, KnownEnd(t2, A, n + 2), n + 1)
    BY <1>2, <2>1 DEF Leads
  <2>3. Turns(tr, t2, t3, A, o3, n + 3, n + 2, n + 3, n + 2)
    BY <1>6, <1>7, <2>2, Jumped
  <2> HIDE DEF t3, o3
  <2> QED BY <2>3 DEF Turns
<1> HIDE DEF t3, o3
<1>9. Stands(tr, t4, A, o3, n + 3, n + 3) /\ SameEnds(t3, t4, A, n + 3, 0)
  <2>1. Turns(tr, t3, t4, A, o3, n + 3, n + 3, n + 3, 0)
    BY <1>7, <1>8, PointSet
  <2> HIDE DEF t4
  <2> QED BY <2>1 DEF Turns
<1> HIDE DEF t4
<1>10. PICK n2 \in Nat, a2 \in Nat :
           n2 >= n + 3 /\ Turns(tr, t4, t5, A, o5, n2, a2, n + 3, n + 3)
  <2>1. CASE i.onTrue = Accept
    <3>1. t5 = MakeAccept(k, t4)
      BY <2>1
    <3> HIDE DEF t5
    <3>2. \E n2 \in Nat, a2 \in Nat :
              n2 >= n + 3 /\ Turns(tr, t4, MakeAccept(k, t4), A, o5, n2, a2, n + 3, n + 3)
      BY <1>2, <1>3, <1>7, <1>9, AcceptMade
    <3> QED BY <3>1, <3>2
  <2>2. CASE i.onTrue # Accept
    <3>1. t5 = MakeReject(t4)
      BY <2>2
    <3> HIDE DEF t5
    <3>2. Turns(tr, t4, MakeReject(t4), A, o5, n + 3, n + 3, n + 3, n + 3)
      BY <1>3, <1>7, <1>9, RejectMade
    <3>3. n + 3 >= n + 3
      BY <1>1
    <3> QED BY <1>1, <3>1, <3>2, <3>3
  <2> QED BY <2>1, <2>2
<1> HIDE DEF t5
<1>21. Stands(tr, t5, A, o5, n2, a2) /\ SameEnds(t4, t5, A, n + 3, n + 3)
  <2> HIDE DEF o5
  <2> QED BY <1>10 DEF Turns
<1>11. Free(A, n2) /\ n2 >= n
  BY <1>1, <1>2, <1>10 DEF Free
<1>12. a \in 1 .. n2 /\ a \in o5 /\ n + 3 \in 2 .. n2 /\ n + 2 \in 2 .. n2 /\ n + 1 \in 1 .. n2
  BY <1>1, <1>10 DEF o1, o3
<1> HIDE DEF o5
<1>13. Stands(tr, t6, A, o5, n2, a) /\ SameEnds(t5, t6, A, n2, 0)
  <2>1. Turns(tr, t5, t6, A, o5, n2, a, n2, 0)
    BY <1>12, <1>21, PointSet
  <2> HIDE DEF t6
  <2> QED BY <2>1 DEF Turns
<1> HIDE DEF t6
<1>14. Stands(tr, t7, A, o7, n2, a) /\ SameEnds(t6, t7, A, n2, a)
  <2>1. Leads(A, "any", n + 3) /\ Leads(A, "notend", n + 2)
    BY <1>2 DEF Leads
  <2>2. a \in o5 /\ a # 1
    BY <1>12
  <2>3. Turns(tr, t6, t7, A, o7, n2, a, n2, a)
    BY <1>12, <1>13, <2>1, <2>2, Branched
  <2> HIDE DEF t7, o7
  <2> QED BY <2>3 DEF Turns
<1> HIDE DEF t7, o7
<1>15. Stands(tr, t8, A, o7, n2, n + 1) /\ SameEnds(t7, t8, A, n2, 0)
  <2>1. Turns(tr, t7, t8, A, o7, n2, n + 1, n2, 0)
    BY <1>12, <1>14, PointSet
  <2> HIDE DEF t8
  <2> QED BY <2>1 DEF Turns
<1> HIDE DEF t8
<1>16. KnownEnd(t8, A, n + 1) = "notend"
  <2>1. n + 1 # a /\ n + 1 \in 1 .. n2 /\ n + 1 # n + 2 /\ n + 1 # n + 3
        /\ n + 1 \in 1 .. (n + 3) /\ n + 1 # 0
    BY <1>1, <1>12
  <2> QED BY <1>2, <1>5, <1>6, <1>7, <1>8, <1>9, <1>13, <1>14, <1>15, <1>21, <2>1
      DEF SameEnds
<1>17. o7 = (open \ {a}) \cup {n + 1}
  BY <1>1 DEF o1, o3, o5, o7
<1>18. MakeCheckEnd(k, t, i) = t8
  <2>1. Fresh(t, 0) = n + 1 /\ Fresh(t, 1) = n + 2 /\ Fresh(t, 2) = n + 3
    BY <1>1 DEF Fresh
  <2> QED BY <1>1, <2>1 DEF MakeCheckEnd, RestoreInsertPoint, t1, t2, t3, t4, t5, t6, t7, t8
<1>19. Stands(tr, t8, A, (open \ {a}) \cup {n + 1}, n2, n + 1)
  BY <1>15, <1>17
<1>20. n + 1 > n
  BY <1>1
<1> QED BY <1>1, <1>2, <1>11, <1>16, <1>18, <1>19, <1>20 DEF Continued

\* The way a GOTO takes to block b: a search has a block of its own on it.
Passed(k, t, b) ==
    IF k = "search"
    THEN Aside(WithBlocks(t, 1), Fresh(t, 0), <<Increment("end_pos"), Br(b)>>)
    ELSE t
\* The block a way to b begins with.
PassedBy(k, t, b) == IF k = "search" THEN Fresh(t, 0) ELSE b

\* The block a way passes by is certified, as b may be reached knowing nothing.
LEMMA WayMade ==
    ASSUME NEW tr, NEW t, NEW ann, NEW open, NEW n, NEW a, Stands(tr, t, ann, open, n, a),
           Free(ann, n), NEW b \in 2 .. n, ann[b] = "any", NEW k
    PROVE  \E n2 \in Nat :
               /\ n2 >= n
               /\ PassedBy(k, t, b) \in 2 .. n2 /\ ann[PassedBy(k, t, b)] = "any"
               /\ Turns(tr, t, Passed(k, t, b), ann, open, n2, a, n, 0)
<1>1. /\ n \in Nat /\ Len(t.blocks) = n /\ a \in 1 .. n /\ open \subseteq 1 .. n
  BY DEF Stands, Certifies
<1>2. CASE k # "search"
  <2>1. Passed(k, t, b) = t /\ PassedBy(k, t, b) = b
    BY <1>2 DEF Passed, PassedBy
  <2>2. Turns(tr, t, t, ann, open, n, a, n, 0)
    BY DEF Turns, SameEnds
  <2>3. n >= n
    BY <1>1
  <2> QED BY <1>1, <2>1, <2>2, <2>3
<1>3. CASE k = "search"
  <2> DEFINE u == WithBlocks(t, 1)
             o == open \cup ((n + 1) .. (n + 1))
             x == Increment("end_pos")
             w == Aside(u, n + 1, <<x, Br(b)>>)
  <2>1. Passed(k, t, b) = w /\ PassedBy(k, t, b) = n + 1
    BY <1>1, <1>3 DEF Passed, PassedBy, Fresh
  <2>2. Stands(tr, u, ann, o, n + 1, a) /\ SameEnds(t, u, ann, n, 0)
    <3>1. Turns(tr, t, u, ann, o, n + 1, a, n, 0)
      BY BlocksCreated
    <3> HIDE DEF u, o
    <3> QED BY <3>1 DEF Turns
  <2> HIDE DEF u
  <2>3. /\ n + 1 \in o /\ n + 1 \in Nat /\ n + 1 >= n /\ b \in 2 .. (n + 1)
        /\ n + 1 \in 2 .. (n + 1) /\ ann[n + 1] = "any" /\ o \ {n + 1} = open
        /\ n + 1 # 1
    BY <1>1 DEF Free
  <2>4. x \in IrCode /\ x.op = "increment"
    BY DEF IrCode, Increment
  <2>5. x.op # "readchar" /\ x.op \notin Terminators
    BY <2>4 DEF Terminators
  <2>6. Fits(ann, n + 1, n + 1, KnownEnd(u, ann, n + 1), x)
    BY <2>3, <2>4 DEF Fits
  <2>7. Leads(ann, KnownEnd(u, ann, n + 1), b)
    BY DEF Leads
  <2> HIDE DEF o, x
  <2>8. Turns(tr, u, w, ann, o \ {n + 1}, n + 1, a, n + 1, n + 1)
    BY <2>2, <2>3, <2>4, <2>5, <2>6, <2>7, WroteAside
  <2> HIDE DEF w
  <2>9. SameEnds(t, w, ann, n, 0)
    <3> SUFFICES ASSUME NEW c \in 1 .. n, c # 0
                 PROVE  KnownEnd(w, ann, c) = KnownEnd(t, ann, c)
      BY DEF SameEnds
    <3>1. c \in 1 .. (n + 1) /\ c # n + 1
      BY <1>1
    <3> QED BY <2>2, <2>8, <3>1 DEF SameEnds, Turns
  <2>10. Turns(tr, t, w, ann, open, n + 1, a, n, 0)
    BY <2>3, <2>8, <2>9 DEF Turns
  <2> QED BY <2>1, <2>3, <2>10
<1> QED BY <1>2, <1>3

\* A GOTO that no test precedes ends the code of a state.
LEMMA GoToMade ==
    ASSUME NEW tr, NEW t, NEW ann, NEW open, NEW n, NEW a, Stands(tr, t, ann, open, n, a),
           a \in open, a # 1, Free(ann, n), NEW k, NEW i, ~i.conditional,
           tr.labels[i.dest] \in 2 .. n, ann[tr.labels[i.dest]] = "any"
    PROVE  Closed(tr, MakeGoTo(k, t, i), ann, n, open \ {a})
<1> DEFINE b == tr.labels[i.dest]
           d == PassedBy(k, t, b)
           u == Passed(k, t, b)
           w == Emit(u, <<Br(d)>>)
<1>1. /\ n \in Nat /\ a \in 1 .. n /\ ann \in [Nat -> Facts] /\ t.labels = tr.labels
  BY DEF Stands, Certifies
<1>2. MakeGoTo(k, t, i) = w
  BY <1>1 DEF MakeGoTo, Passed, PassedBy
<1> HIDE DEF b
<1>3. PICK n2 \in Nat : /\ n2 >= n /\ d \in 2 .. n2 /\ ann[d] = "any"
                        /\ Turns(tr, t, u, ann, open, n2, a, n, 0)
  BY WayMade DEF b
<1> HIDE DEF u, d
<1>4. Stands(tr, u, ann, open, n2, a)
  BY <1>3 DEF Turns
<1>5. Leads(ann, KnownEnd(u, ann, a), d)
  BY <1>3 DEF Leads
<1>6. Turns(tr, u, w, ann, open \ {a}, n2, a, n2, a)
  BY <1>3, <1>4, <1>5, Jumped
<1> HIDE DEF w
<1>7. Stands(tr, w, ann, open \ {a}, n2, a) /\ Free(ann, n2) /\ a \in Nat
  BY <1>1, <1>3, <1>6 DEF Turns, Free
<1> QED BY <1>1, <1>2, <1>3, <1>7 DEF Closed

\* A test of an edge leaves a block behind it where the cursor is still current.
LEMMA GoToIfMade ==
    ASSUME NEW tr, NEW t, NEW ann, NEW open, NEW n, NEW a, Stands(tr, t, ann, open, n, a),
           a \in open, a # 1, Free(ann, n), KnownEnd(t, ann, a) = "current", NEW k,
           NEW i, i.conditional, i.edge \in SUBSET Char,
           tr.labels[i.dest] \in 2 .. n, ann[tr.labels[i.dest]] = "any"
    PROVE  Continued(tr, MakeGoTo(k, t, i), ann, n, open \ {a}, "current")
<1> DEFINE b == tr.labels[i.dest]
           d == PassedBy(k, t, b)
           t1 == Passed(k, t, b)
<1>1. /\ n \in Nat /\ a \in 1 .. n /\ open \subseteq 1 .. n
      /\ ann \in [Nat -> Facts] /\ t.labels = tr.labels
  BY DEF Stands, Certifies
<1>2. PICK m \in Nat : /\ m >= n /\ d \in 2 .. m /\ ann[d] = "any"
                       /\ Turns(tr, t, t1, ann, open, m, a, n, 0)
  BY WayMade
<1> DEFINE A == [c \in Nat |-> IF c \in {m + 1, m + 2} THEN "current" ELSE ann[c]]
           t2 == WithBlocks(t1, 2)
           t3 == Aside(t2, m + 2, <<Br(m + 1)>>)
           cond == EdgeTest(a, i.edge)
           t4 == Emit(t3, <<CondBr(cond, d, m + 2)>>)
           t5 == SetInsertPoint(t4, m + 1)
           o2 == open \cup ((m + 1) .. (m + 2))
           o3 == o2 \ {m + 2}
           o4 == o3 \ {a}
<1>3. MakeGoTo(k, t, i) = t5
  <2>1. MakeGoTo(k, t, i) =
            LET skipped == Aside(WithBlocks(t1, 2), Fresh(t1, 1), <<Br(Fresh(t1, 0))>>)
            IN  SetInsertPoint(
                    Emit(skipped, <<CondBr(EdgeTest(t1.at, i.edge), d, Fresh(t1, 1))>>),
                    Fresh(t1, 0))
    BY <1>1 DEF MakeGoTo, Passed, PassedBy
  <2>2. t1.at = a /\ Len(t1.blocks) = m
    <3> HIDE DEF t1
    <3> QED BY <1>2 DEF Turns, Stands
  <2> HIDE DEF t1, d
  <2>3. Fresh(t1, 0) = m + 1 /\ Fresh(t1, 1) = m + 2
    BY <2>2 DEF Fresh
  <2> QED BY <2>1, <2>2, <2>3
<1> HIDE DEF t1, d, b
<1>4. Stands(tr, t1, ann, open, m, a) /\ KnownEnd(t1, ann, a) = "current"
  <2>1. a # 0
    BY <1>1
  <2> QED BY <1>1, <1>2, <2>1 DEF Turns, SameEnds
<1>5. /\ A \in [Nat -> Facts] /\ A[m + 1] = "current" /\ A[m + 2] = "current"
      /\ Free(A, m + 2)
      /\ \A c \in 1 .. m : A[c] = ann[c]
  BY <1>1, <1>2 DEF Free, Facts
<1>6. /\ m + 1 \in 2 .. (m + 2) /\ m + 2 \in 2 .. (m + 2) /\ d \in 2 .. (m + 2)
      /\ m + 1 \in 1 .. (m + 2) /\ a \in 1 .. m /\ a \in 1 .. (m + 2) /\ a # m + 2
      /\ m + 1 \in (m + 1) .. (m + 2) /\ m + 2 \in (m + 1) .. (m + 2)
      /\ m + 2 \in o2 /\ a \in o3 /\ m + 1 # m + 2 /\ a # m + 1 /\ a # 0 /\ m + 1 # 0
      /\ m + 2 \in Nat /\ m + 1 > n /\ m + 2 >= n /\ m + 1 \in Nat
      /\ A[d] = "any"
  <2>1. A[d] = "any"
    BY <1>2, <1>5
  <2> QED BY <1>1, <1>2, <2>1
<1> HIDE DEF A
<1>7. Stands(tr, t1, A, open, m, a) /\ KnownEnd(t1, A, a) = "current"
  BY <1>4, <1>5, <1>6, Reannotated
<1>8. Stands(tr, t2, A, o2, m + 2, a) /\ SameEnds(t1, t2, A, m, 0) /\ NewEnds(t2, A, m, 2)
  <2>1. Turns(tr, t1, t2, A, o2, m + 2, a, m, 0) /\ NewEnds(t2, A, m, 2)
    BY <1>7, BlocksCreated
  <2> HIDE DEF t2, o2
  <2> QED BY <2>1 DEF Turns
<1> HIDE DEF t2
<1>9. /\ KnownEnd(t2, A, m + 1) = "current" /\ KnownEnd(t2, A, m + 2) = "current"
      /\ KnownEnd(t2, A, a) = "current"
  BY <1>5, <1>6, <1>7, <1>8 DEF NewEnds, SameEnds
<1>10. Stands(tr, t3, A, o3, m + 2, a) /\ SameEnds(t2, t3, A, m + 2, m + 2)
  <2>1. Leads(A, KnownEnd(t2, A, m + 2), m + 1)
    BY <1>5, <1>9 DEF Leads
  <2> HIDE DEF o2
  <2>2. Turns(tr, t2, t3, A, o3, m + 2, a, m + 2, m + 2)
    BY <1>6, <1>8, <2>1, JumpedAside
  <2> HIDE DEF t3, o3
  <2> QED BY <2>2 DEF Turns
<1> HIDE DEF t3, o3
<1>11. Stands(tr, t4, A, o4, m + 2, a) /\ SameEnds(t3, t4, A, m + 2, a)
  <2>1. KnownEnd(t3, A, a) = "current"
    BY <1>6, <1>9, <1>10 DEF SameEnds
  <2>2. Leads(A, "current", d) /\ Leads(A, "current", m + 2)
    BY <1>5, <1>6 DEF Leads
  <2>3. \E e \in SUBSET Char : cond = EdgeTest(a, e)
    OBVIOUS
  <2> HIDE DEF cond
  <2>4. Turns(tr, t3, t4, A, o4, m + 2, a, m + 2, a)
    BY <1>6, <1>10, <2>1, <2>2, <2>3, Branched
  <2> HIDE DEF t4, o4
  <2> QED BY <2>4 DEF Turns
<1> HIDE DEF t4
<1>12. Stands(tr, t5, A, o4, m + 2, m + 1) /\ SameEnds(t4, t5, A, m + 2, 0)
  <2> HIDE DEF o4
  <2>1. Turns(tr, t4, t5, A, o4, m + 2, m + 1, m + 2, 0)
    BY <1>6, <1>11, PointSet
  <2> HIDE DEF t5
  <2> QED BY <2>1 DEF Turns
<1> HIDE DEF t5
<1>13. KnownEnd(t5, A, m + 1) = "current"
  BY <1>6, <1>9, <1>10, <1>11, <1>12 DEF SameEnds
<1>14. o4 = (open \ {a}) \cup {m + 1}
  BY <1>1, <1>2 DEF o2, o3
<1>15. \A c \in 1 .. n : A[c] = ann[c]
  BY <1>1, <1>2, <1>5
<1>16. Stands(tr, t5, A, (open \ {a}) \cup {m + 1}, m + 2, m + 1)
  BY <1>12, <1>14
<1> QED BY <1>3, <1>5, <1>6, <1>13, <1>15, <1>16 DEF Continued

\* u has the first n blocks of before, annotated as they were, and more, and is
\* at the end of an open one, where i was translated.
Went(tr, u, ann, n, open, i) ==
    \E A \in [Nat -> Facts], n2 \in Nat, a2 \in Nat :
        /\ n2 >= n /\ Free(A, n2)
        /\ \A b \in 1 .. n : A[b] = ann[b]
        /\ a2 \notin open
        /\ Stands(tr, u, A, open \cup {a2}, n2, a2)
        /\ i.op = "CHECK_END" => KnownEnd(u, A, a2) = "notend"
        /\ i.op = "CONSUME" \/ IsTest(i) => KnownEnd(u, A, a2) = "current"

\* A new block is none of those that were there.
LEMMA ContinuedWent ==
    ASSUME NEW tr, NEW u, NEW ann, NEW n \in Nat, NEW open, open \subseteq 1 .. n, NEW f,
           Continued(tr, u, ann, n, open, f), NEW i,
           i.op = "CHECK_END" => f = "notend",
           i.op = "CONSUME" \/ IsTest(i) => f = "current"
    PROVE  Went(tr, u, ann, n, open, i)
<1>1. PICK A \in [Nat -> Facts], n2 \in Nat, a2 \in Nat :
          /\ n2 >= n /\ Free(A, n2)
          /\ \A b \in 1 .. n : A[b] = ann[b]
          /\ a2 > n
          /\ Stands(tr, u, A, open \cup {a2}, n2, a2)
          /\ KnownEnd(u, A, a2) = f
  BY DEF Continued
<1>2. a2 \notin open
  BY <1>1
<1> QED BY <1>1, <1>2 DEF Went

\* An instruction that is one of IR.
LEMMA WroteWent ==
    ASSUME NEW t, NEW ann, NEW open, NEW n, NEW a, Stands(t, t, ann, open, n, a),
           a \in open, Free(ann, n), NEW x \in IrCode, x.op \notin Terminators,
           Fits(ann, n, a, KnownEnd(t, ann, a), x), NEW i, i.op # "CHECK_END",
           i.op = "CONSUME" \/ IsTest(i) => x.op = "readchar"
    PROVE  Went(t, Emit(t, <<x>>), ann, n, open \ {a}, i)
<1> DEFINE u == Emit(t, <<x>>)
<1>1. /\ n \in Nat /\ n >= n /\ a \in Nat /\ ann \in [Nat -> Facts]
      /\ (open \ {a}) \cup {a} = open
  BY DEF Stands, Certifies
<1>2. Wrote(t, t, u, ann, open, n, a, x)
  BY Emitted
<1> HIDE DEF u
<1>3. /\ Stands(t, u, ann, (open \ {a}) \cup {a}, n, a)
      /\ x.op = "readchar" => KnownEnd(u, ann, a) = "current"
  BY <1>1, <1>2 DEF Wrote
<1>4. Went(t, u, ann, n, open \ {a}, i)
  BY <1>1, <1>3 DEF Went
<1> QED BY <1>4 DEF u

\* Each instruction of a state's code but the first: the code goes on at the end
\* of an open block, or has ended.
LEMMA InstructionMade ==
    ASSUME NEW m, NEW t, NEW ann, NEW open, NEW n, NEW a, Stands(t, t, ann, open, n, a),
           a \in open, Free(ann, n), Exits(t, ann, n), NEW k \in Kinds,
           NEW i \in BodyInstructions(m), ~Begins(i), Resolves(k, t, i),
           StartState \in States(m),
           \A s \in States(m) : t.labels[s] \in 2 .. n /\ ann[t.labels[s]] = "any",
           i.op = "CONSUME" => KnownEnd(t, ann, a) = "notend",
           IsTest(i) => KnownEnd(t, ann, a) = "current"
    PROVE  IF Ends(i) THEN Closed(t, Make(k, t, i), ann, n, open \ {a})
                      ELSE Went(t, Make(k, t, i), ann, n, open \ {a}, i)
<1> DEFINE o == open \ {a}
<1>1. n \in Nat /\ a # 1 /\ o \subseteq 1 .. n /\ ann \in [Nat -> Facts]
  <2>1. n \in Nat /\ open \subseteq 2 .. n /\ ann \in [Nat -> Facts]
    BY DEF Stands, Certifies
  <2> QED BY <2>1
<1> HIDE DEF o
<1>2. CASE i = StoreVar("start_pos", "counter")
  <2> DEFINE x == Copy("start_pos", "counter")
  <2>1. /\ i.op = "STORE_VAR" /\ ~Ends(i) /\ ~IsTest(i)
        /\ i.dest = "start_pos" /\ i.source = "counter"
    BY <1>2 DEF StoreVar, Ends, IsTest
  <2>2. Make(k, t, i) = Emit(t, <<x>>)
    BY <2>1 DEF Make
  <2>3. x \in IrCode /\ x.op = "copy"
    BY DEF IrCode, Copy
  <2> HIDE DEF x
  <2>4. x.op \notin Terminators /\ Fits(ann, n, a, KnownEnd(t, ann, a), x)
    BY <1>1, <2>3 DEF Terminators, Fits
  <2>5. Went(t, Emit(t, <<x>>), ann, n, open \ {a}, i)
    BY <2>1, <2>3, <2>4, WroteWent
  <2> QED BY <2>1, <2>2, <2>5
<1>3. CASE i = Consume
  <2>1. i.op = "CONSUME" /\ ~Ends(i)
    BY <1>3 DEF Consume, Ends
  <2>2. Make(k, t, i) = Emit(t, <<ReadChar>>)
    BY <2>1 DEF Make
  <2>3. ReadChar \in IrCode /\ ReadChar.op = "readchar"
    BY DEF IrCode, ReadChar
  <2>4. ReadChar.op \notin Terminators /\ Fits(ann, n, a, KnownEnd(t, ann, a), ReadChar)
    BY <1>1, <2>1, <2>3 DEF Terminators, Fits
  <2>5. Went(t, Emit(t, <<ReadChar>>), ann, n, open \ {a}, i)
    BY <2>1, <2>3, <2>4, WroteWent
  <2> QED BY <2>1, <2>2, <2>5
<1>4. CASE i \in {CheckEnd(Accept), CheckEnd(Reject)}
  <2>1. i.op = "CHECK_END" /\ ~Ends(i) /\ ~IsTest(i) /\ i.onTrue \in {Accept, Reject}
    BY <1>4 DEF CheckEnd, Ends, IsTest
  <2>2. Make(k, t, i) = MakeCheckEnd(k, t, i)
    BY <2>1 DEF Make
  <2>3. Continued(t, MakeCheckEnd(k, t, i), ann, n, open \ {a}, "notend")
    BY <1>1, <2>1, CheckEndMade
  <2>4. Went(t, MakeCheckEnd(k, t, i), ann, n, open \ {a}, i)
    BY <1>1, <2>1, <2>3, ContinuedWent DEF o
  <2> QED BY <2>1, <2>2, <2>4
<1>5. CASE i = Accept
  <2>1. i.op = "ACCEPT" /\ Ends(i)
    BY <1>5 DEF Accept, Ends
  <2>2. Make(k, t, i) = MakeAccept(k, t)
    BY <2>1 DEF Make
  <2> DEFINE u == MakeAccept(k, t)
  <2>3. PICK n2 \in Nat, a2 \in Nat : n2 >= n /\ Turns(t, t, u, ann, o, n2, a2, n, a)
    BY <1>1, AcceptMade DEF o
  <2> HIDE DEF u
  <2>4. Stands(t, u, ann, o, n2, a2) /\ Free(ann, n2)
    BY <1>1, <2>3 DEF Turns, Free
  <2>5. Closed(t, u, ann, n, o)
    BY <1>1, <2>3, <2>4 DEF Closed
  <2> QED BY <2>1, <2>2, <2>5 DEF u, o
<1>6. CASE i = Reject
  <2>1. i.op = "REJECT" /\ Ends(i)
    BY <1>6 DEF Reject, Ends
  <2>2. Make(k, t, i) = MakeReject(t)
    BY <2>1 DEF Make
  <2> DEFINE u == MakeReject(t)
  <2>3. Turns(t, t, u, ann, o, n, a, n, a)
    BY <1>1, RejectMade DEF o
  <2> HIDE DEF u
  <2>4. Stands(t, u, ann, o, n, a) /\ n >= n /\ a \in Nat
    BY <1>1, <2>3 DEF Turns, Stands
  <2>5. Closed(t, u, ann, n, o)
    BY <1>1, <2>4 DEF Closed
  <2> QED BY <2>1, <2>2, <2>5 DEF u, o
<1>7. CASE \E s \in States(m) : i = GoTo(s)
  <2>1. PICK s \in States(m) : i = GoTo(s)
    BY <1>7
  <2>2. i.op = "GOTO" /\ ~i.conditional /\ i.dest = s /\ Ends(i)
    BY <2>1 DEF GoTo, Ends
  <2>3. Make(k, t, i) = MakeGoTo(k, t, i)
    BY <2>2 DEF Make
  <2>4. Closed(t, MakeGoTo(k, t, i), ann, n, open \ {a})
    BY <1>1, <2>2, GoToMade
  <2> QED BY <2>2, <2>3, <2>4
<1>8. CASE \E s \in States(m), e \in SUBSET Char : i = GoToIf(s, e)
  <2>1. PICK s \in States(m), e \in SUBSET Char : i = GoToIf(s, e)
    BY <1>8
  <2>2. i.op = "GOTO" /\ i.conditional /\ i.dest = s /\ i.edge = e /\ ~Ends(i) /\ IsTest(i)
    BY <2>1 DEF GoToIf, Ends, IsTest
  <2>3. Make(k, t, i) = MakeGoTo(k, t, i)
    BY <2>2 DEF Make
  <2>4. Continued(t, MakeGoTo(k, t, i), ann, n, open \ {a}, "current")
    BY <1>1, <2>2, GoToIfMade
  <2>5. Went(t, MakeGoTo(k, t, i), ann, n, open \ {a}, i)
    BY <1>1, <2>2, <2>4, ContinuedWent DEF o
  <2> QED BY <2>2, <2>3, <2>5
<1>9. \A s \in States(m), f \in BOOLEAN : i # BeginState(s, f)
  BY DEF Begins, BeginState
<1> QED BY <1>2, <1>3, <1>4, <1>5, <1>6, <1>7, <1>8, <1>9 DEF BodyInstructions

-----------------------------------------------------------------------------
(* The translation of a program. *)

\* The states whose code is at or after the j-th instruction.
Unbegun(p, j) == {p[i].id : i \in {l \in j .. Len(p) : Begins(p[l])}}

\* The instruction before the j-th has not ended a state.
Within(k, p, j) == j > Setup(k) + 1 /\ ~Ends(p[j - 1])

\* The variables a program declares.
Declared(k) == {BuildSetup(k)[i].name : i \in 1 .. Setup(k)}

\* The blocks where code is to come: those of the states not begun, and the
\* one where the code of a state goes on.
Pending(p, j, t) == {t.labels[s] : s \in Unbegun(p, j)}
OpenBlocks(k, p, j, t) == Pending(p, j, t) \cup IF Within(k, p, j) THEN {t.at} ELSE {}

\* The symbol table and the labels of a translator that has made its blocks.
HasTables(m, k, t, ann, n) ==
    /\ Parameters(k) \cup Declared(k) \cup {"accept_block", "reject_block"}
           \subseteq DOMAIN t.symbols
    /\ DOMAIN t.labels = States(m)
    /\ \A s \in States(m) : t.labels[s] \in 2 .. n /\ ann[t.labels[s]] = "any"
    /\ \A s, r \in States(m) : t.labels[s] = t.labels[r] => s = r
    /\ Exits(t, ann, n)

\* t has translated the first j - 1 instructions of p.
Translated(m, k, p, j, t) ==
    \E ann \in [Nat -> Facts], n \in Nat :
        /\ t.ok
        /\ Stands(t, t, ann, OpenBlocks(k, p, j, t), n, t.at)
        /\ Free(ann, n)
        /\ HasTables(m, k, t, ann, n)
        /\ Within(k, p, j) =>
               /\ t.at \notin Pending(p, j, t)
               /\ p[j - 1].op = "CHECK_END" => KnownEnd(t, ann, t.at) = "notend"
               /\ p[j - 1].op = "CONSUME" \/ IsTest(p[j - 1])
                      => KnownEnd(t, ann, t.at) = "current"

\* A state is begun once.
LEMMA UnbegunFacts ==
    ASSUME NEW m, NEW k \in Kinds, NEW c, NEW p, IsProgram(m, k, p, c),
           NEW j \in (Setup(k) + 1) .. Len(p)
    PROVE  /\ Begins(p[j]) => /\ p[j].id \in Unbegun(p, j)
                              /\ Unbegun(p, j + 1) = Unbegun(p, j) \ {p[j].id}
           /\ ~Begins(p[j]) => Unbegun(p, j + 1) = Unbegun(p, j)
<1>1. Len(p) \in Nat /\ Setup(k) \in Nat /\ j \in Nat /\ j \in 1 .. Len(p)
  <2>1. Len(p) \in Nat /\ Setup(k) \in Nat
    BY SetupFacts DEF IsProgram
  <2> QED BY <2>1
<1>2. \A i : i \in j .. Len(p) <=> i = j \/ i \in (j + 1) .. Len(p)
  BY <1>1
<1>3. \A i \in (j + 1) .. Len(p) : Begins(p[i]) /\ Begins(p[j]) => p[i].id # p[j].id
  <2> TAKE i \in (j + 1) .. Len(p)
  <2>1. i \in 1 .. Len(p) /\ i # j
    BY <1>1
  <2> QED BY <1>1, <2>1 DEF IsProgram
<1> QED BY <1>1, <1>2, <1>3 DEF Unbegun

\* Every variable and label is in the tables.
LEMMA BodyResolves ==
    ASSUME NEW m, StartState \in States(m), NEW k \in Kinds, NEW t, NEW ann, NEW n,
           HasTables(m, k, t, ann, n),
           NEW i \in BodyInstructions(m), i.op = "STORE_VAR" => k = "search"
    PROVE  Resolves(k, t, i)
<1>1. {"counter", "cursor"} \subseteq Declared(k)
      /\ (k = "search" => {"start_pos", "end_pos"} \subseteq Declared(k))
  <2>1. /\ Setup(k) = IF k = "search" THEN 4 ELSE 2
        /\ BuildSetup(k)[1].name = "counter" /\ BuildSetup(k)[2].name = "cursor"
        /\ k = "search" => /\ BuildSetup(k)[3].name = "start_pos"
                           /\ BuildSetup(k)[4].name = "end_pos"
    BY SetupFacts DEF DeclareVar
  <2>2. 1 \in 1 .. Setup(k) /\ 2 \in 1 .. Setup(k)
        /\ (k = "search" => 3 \in 1 .. Setup(k) /\ 4 \in 1 .. Setup(k))
    BY <2>1
  <2> QED BY <2>1, <2>2 DEF Declared
<1>2. {"subject", "subject_len"} \subseteq Parameters(k)
      /\ (k = "search" => {"start_pos_ptr", "end_pos_ptr"} \subseteq Parameters(k))
  BY DEF Parameters
<1> DEFINE D == DOMAIN t.symbols
<1>3. /\ {"counter", "cursor", "subject", "subject_len", "accept_block", "reject_block"}
             \subseteq D
      /\ k = "search" => {"start_pos", "end_pos", "start_pos_ptr", "end_pos_ptr"} \subseteq D
  BY <1>1, <1>2 DEF HasTables
<1> HIDE DEF D
<1>4. Needed(k, Accept) \subseteq D /\ Needed(k, Reject) \subseteq D
  BY <1>3 DEF Needed, Accept, Reject
<1>5. ASSUME NEW x, Needed(k, x) \subseteq D,
             x.op = "CHECK_END" => Needed(k, x.onTrue) \subseteq D,
             x.op = "GOTO" => x.dest \in States(m),
             x.op = "STORE_VAR" => k = "search"
      PROVE  Resolves(k, t, x)
  BY <1>5 DEF Resolves, HasTables, D
<1>6. CASE i = StoreVar("start_pos", "counter")
  <2>1. i.op = "STORE_VAR" /\ i.dest = "start_pos" /\ i.source = "counter"
    BY <1>6 DEF StoreVar
  <2>2. Needed(k, i) \subseteq D
    BY <1>3, <2>1 DEF Needed
  <2> QED BY <1>5, <2>1, <2>2
<1>7. CASE i = Consume
  <2>1. i.op = "CONSUME"
    BY <1>7 DEF Consume
  <2>2. Needed(k, i) \subseteq D
    BY <1>3, <2>1 DEF Needed
  <2> QED BY <1>5, <2>1, <2>2
<1>8. CASE i \in {CheckEnd(Accept), CheckEnd(Reject)}
  <2>1. i.op = "CHECK_END" /\ i.onTrue \in {Accept, Reject}
    BY <1>8 DEF CheckEnd
  <2>2. Needed(k, i) \subseteq D
    BY <1>3, <2>1 DEF Needed
  <2> QED BY <1>4, <1>5, <2>1, <2>2
<1>9. CASE i = Accept
  <2>1. i.op = "ACCEPT"
    BY <1>9 DEF Accept
  <2> QED BY <1>4, <1>5, <1>9, <2>1
<1>10. CASE i = Reject
  <2>1. i.op = "REJECT"
    BY <1>10 DEF Reject
  <2> QED BY <1>4, <1>5, <1>10, <2>1
<1>11. CASE \E s \in States(m) : i = GoTo(s)
  <2>1. i.op = "GOTO" /\ i.dest \in States(m)
    BY <1>11 DEF GoTo
  <2>2. Needed(k, i) \subseteq D
    BY <1>3, <2>1 DEF Needed
  <2> QED BY <1>5, <2>1, <2>2
<1>12. CASE \E s \in States(m), e \in SUBSET Char : i = GoToIf(s, e)
  <2>1. i.op = "GOTO" /\ i.dest \in States(m)
    BY <1>12 DEF GoToIf
  <2>2. Needed(k, i) \subseteq D
    BY <1>3, <2>1 DEF Needed
  <2> QED BY <1>5, <2>1, <2>2
<1>13. CASE \E s \in States(m), f \in BOOLEAN : i = BeginState(s, f)
  <2>1. i.op = "START_STATE"
    BY <1>13 DEF BeginState
  <2>2. Needed(k, i) \subseteq D
    BY <2>1 DEF Needed
  <2> QED BY <1>5, <2>1, <2>2
<1> QED BY <1>6, <1>7, <1>8, <1>9, <1>10, <1>11, <1>12, <1>13 DEF BodyInstructions

\* The tables are kept when blocks are added.
LEMMA TablesKept ==
    ASSUME NEW m, NEW k, NEW t, NEW u, NEW ann, NEW A, NEW n \in Nat, NEW n2 \in Nat, n2 >= n,
           HasTables(m, k, t, ann, n), \A b \in 1 .. n : A[b] = ann[b],
           u.labels = t.labels, u.symbols = t.symbols
    PROVE  HasTables(m, k, u, A, n2)
<1>1. \A b \in 2 .. n : b \in 2 .. n2 /\ A[b] = ann[b]
  OBVIOUS
<1>2. \A s \in States(m) : t.labels[s] \in 2 .. n2 /\ A[t.labels[s]] = "any"
  BY <1>1 DEF HasTables
<1>3. Exits(u, A, n2)
  BY <1>1 DEF HasTables, Exits
<1> QED BY <1>2, <1>3 DEF HasTables

\* One instruction after another is translated.
LEMMA InstructionTranslated ==
    ASSUME NEW m, StartState \in States(m), NEW k \in Kinds, NEW c, NEW p,
           IsProgram(m, k, p, c), Begun(p) = States(m),
           NEW j \in (Setup(k) + 1) .. Len(p), NEW t, Translated(m, k, p, j, t)
    PROVE  Translated(m, k, p, j + 1, Make(k, t, p[j]))
<1> DEFINE i == p[j]
           a == t.at
           P == Pending(p, j, t)
           O == OpenBlocks(k, p, j, t)
           u == Make(k, t, p[j])
<1>1. PICK ann \in [Nat -> Facts], n \in Nat :
          /\ t.ok /\ Stands(t, t, ann, O, n, a) /\ Free(ann, n) /\ HasTables(m, k, t, ann, n)
          /\ Within(k, p, j) =>
                 /\ a \notin P
                 /\ p[j - 1].op = "CHECK_END" => KnownEnd(t, ann, a) = "notend"
                 /\ p[j - 1].op = "CONSUME" \/ IsTest(p[j - 1])
                        => KnownEnd(t, ann, a) = "current"
  BY DEF Translated
<1>2. /\ Len(p) \in Nat /\ Setup(k) \in Nat /\ j \in Nat /\ j \in 1 .. Len(p)
      /\ (j + 1) - 1 = j /\ j + 1 > Setup(k) + 1
  <2>1. Len(p) \in Nat /\ Setup(k) \in Nat
    BY SetupFacts DEF IsProgram
  <2> QED BY <2>1
<1>3. /\ i \in BodyInstructions(m)
      /\ i.op = "STORE_VAR" => k = "search"
      /\ Begins(p[Setup(k) + 1])
  BY <1>2 DEF IsProgram
<1>4. j # Setup(k) + 1 => MayPrecede(p[j - 1], i) /\ j > Setup(k) + 1
  <2> SUFFICES ASSUME j # Setup(k) + 1 PROVE MayPrecede(p[j - 1], i) /\ j > Setup(k) + 1
    OBVIOUS
  <2>1. j - 1 \in (Setup(k) + 1) .. (Len(p) - 1) /\ (j - 1) + 1 = j /\ j > Setup(k) + 1
    BY <1>2
  <2> QED BY <2>1 DEF IsProgram
<1>5. Within(k, p, j) <=> ~Begins(i)
  <2>1. CASE j = Setup(k) + 1
    BY <1>2, <1>3, <2>1 DEF Within
  <2>2. CASE j # Setup(k) + 1
    BY <1>4, <2>2 DEF Within, MayPrecede
  <2> QED BY <2>1, <2>2
<1>6. Within(k, p, j + 1) <=> ~Ends(i)
  BY <1>2 DEF Within
<1>7. Resolves(k, t, i)
  BY <1>1, <1>3, BodyResolves
<1>8. Unbegun(p, j) \subseteq States(m)
  <2> SUFFICES ASSUME NEW l \in j .. Len(p), Begins(p[l]) PROVE p[l].id \in Begun(p)
    BY DEF Unbegun
  <2>1. l \in DOMAIN p
    BY <1>2 DEF IsProgram
  <2> QED BY <2>1 DEF Begun, Begins
<1>9. /\ Begins(i) => /\ i.id \in Unbegun(p, j)
                      /\ Unbegun(p, j + 1) = Unbegun(p, j) \ {i.id}
      /\ ~Begins(i) => Unbegun(p, j + 1) = Unbegun(p, j)
  BY UnbegunFacts
<1> HIDE DEF i, P
<1>10. CASE Begins(i)
  <2> DEFINE s == i.id
             b == t.labels[s]
             v == SetInsertPoint(t, b)
  <2>1. i.op = "START_STATE" /\ s \in States(m) /\ s \in DOMAIN t.labels
    BY <1>1, <1>8, <1>9, <1>10 DEF Begins, HasTables
  <2>2. u = v
    <3>1. u = MakeStartState(t, i)
      BY <1>7, <2>1 DEF Make, i
    <3> QED BY <2>1, <3>1 DEF MakeStartState
  <2>3. O = P /\ b \in 2 .. n
    BY <1>1, <1>5, <1>10, <2>1 DEF OpenBlocks, P, HasTables
  <2> HIDE DEF u, v, b, O
  <2>4. Stands(t, v, ann, P, n, b)
    <3>1. b \in 1 .. n
      BY <1>1, <2>3
    <3>2. Turns(t, t, v, ann, P, n, b, n, 0)
      BY <1>1, <2>3, <3>1, PointSet DEF v
    <3> QED BY <3>2 DEF Turns
  <2>5. v.labels = t.labels /\ v.symbols = t.symbols /\ v.at = b /\ v.ok
    BY <1>1, <2>4 DEF Stands
  <2>6. Stands(v, v, ann, P, n, v.at)
    BY <2>4, <2>5 DEF Stands
  <2>7. HasTables(m, k, v, ann, n)
    <3>1. n >= n
      BY <1>1
    <3> QED BY <1>1, <2>5, <3>1, TablesKept
  <2>8. /\ P = Pending(p, j + 1, v) \cup {b}
        /\ b \notin Pending(p, j + 1, v)
    <3>1. P = {t.labels[r] : r \in Unbegun(p, j)}
      BY DEF P, Pending
    <3>2. Pending(p, j + 1, v) = {t.labels[r] : r \in Unbegun(p, j) \ {s}}
      BY <1>9, <1>10, <2>5 DEF Pending
    <3>3. \A r \in Unbegun(p, j) \ {s} : t.labels[r] # b
      BY <1>1, <1>8, <2>1 DEF HasTables, b
    <3>4. s \in Unbegun(p, j) /\ b = t.labels[s]
      BY <1>9, <1>10 DEF b
    <3> QED BY <3>1, <3>2, <3>3, <3>4
  <2>9. ~Ends(i) /\ i.op # "CHECK_END" /\ i.op # "CONSUME" /\ ~IsTest(i)
    BY <2>1 DEF Ends, IsTest
  <2>10. OpenBlocks(k, p, j + 1, v) = P
    BY <1>6, <2>5, <2>8, <2>9 DEF OpenBlocks
  <2>11. Translated(m, k, p, j + 1, v)
    BY <1>1, <1>2, <2>5, <2>6, <2>7, <2>8, <2>9, <2>10 DEF Translated, i
  <2> QED BY <2>2, <2>11 DEF u
<1>11. CASE ~Begins(i)
  <2>1. /\ a \in O /\ O \ {a} = P
        /\ i.op = "CONSUME" => KnownEnd(t, ann, a) = "notend"
        /\ IsTest(i) => KnownEnd(t, ann, a) = "current"
    <3>1. a \notin P /\ O = P \cup {a}
      BY <1>1, <1>5, <1>11 DEF OpenBlocks, P
    <3>2. MayPrecede(p[j - 1], i)
      BY <1>3, <1>4, <1>11 DEF i
    <3> QED BY <1>1, <1>5, <1>11, <3>1, <3>2 DEF MayPrecede
  <2>2. Exits(t, ann, n) /\ \A s \in States(m) : t.labels[s] \in 2 .. n
                                                 /\ ann[t.labels[s]] = "any"
    BY <1>1 DEF HasTables
  <2>3. IF Ends(i) THEN Closed(t, Make(k, t, i), ann, n, O \ {a})
                   ELSE Went(t, Make(k, t, i), ann, n, O \ {a}, i)
    <3> HIDE DEF O, a
    <3> QED BY <1>1, <1>3, <1>7, <1>11, <2>1, <2>2, InstructionMade
  <2>4. u = Make(k, t, i)
    BY DEF i
  <2> HIDE DEF u, O, a
  <2>5. ASSUME u.labels = t.labels PROVE Pending(p, j + 1, u) = P
    BY <1>9, <1>11, <2>5 DEF Pending, P
  <2>6. CASE Ends(i)
    <3>1. PICK A \in [Nat -> Facts], n2 \in Nat, a2 \in Nat :
              /\ n2 >= n /\ Free(A, n2)
              /\ \A b \in 1 .. n : A[b] = ann[b]
              /\ Stands(t, u, A, P, n2, a2)
      BY <2>1, <2>3, <2>4, <2>6 DEF Closed
    <3>2. u.labels = t.labels /\ u.symbols = t.symbols /\ u.at = a2 /\ u.ok
      BY <1>1, <3>1 DEF Stands
    <3>3. OpenBlocks(k, p, j + 1, u) = P
      BY <1>6, <2>5, <2>6, <3>2 DEF OpenBlocks
    <3>4. Stands(u, u, A, P, n2, u.at)
      BY <3>1, <3>2 DEF Stands
    <3>5. HasTables(m, k, u, A, n2)
      BY <1>1, <3>1, <3>2, TablesKept
    <3>6. Translated(m, k, p, j + 1, u)
      BY <1>6, <2>6, <3>1, <3>2, <3>3, <3>4, <3>5 DEF Translated
    <3> QED BY <3>6 DEF u
  <2>7. CASE ~Ends(i)
    <3>1. PICK A \in [Nat -> Facts], n2 \in Nat, a2 \in Nat :
              /\ n2 >= n /\ Free(A, n2)
              /\ \A b \in 1 .. n : A[b] = ann[b]
              /\ a2 \notin P
              /\ Stands(t, u, A, P \cup {a2}, n2, a2)
              /\ i.op = "CHECK_END" => KnownEnd(u, A, a2) = "notend"
              /\ i.op = "CONSUME" \/ IsTest(i) => KnownEnd(u, A, a2) = "current"
      BY <2>1, <2>3, <2>4, <2>7 DEF Went
    <3>2. u.labels = t.labels /\ u.symbols = t.symbols /\ u.at = a2 /\ u.ok
      BY <1>1, <3>1 DEF Stands
    <3>3. OpenBlocks(k, p, j + 1, u) = P \cup {a2} /\ Pending(p, j + 1, u) = P
      BY <1>6, <2>5, <2>7, <3>2 DEF OpenBlocks
    <3>4. Stands(u, u, A, P \cup {a2}, n2, u.at)
      BY <3>1, <3>2 DEF Stands
    <3>5. HasTables(m, k, u, A, n2)
      BY <1>1, <3>1, <3>2, TablesKept
    <3>6. Translated(m, k, p, j + 1, u)
      BY <1>2, <3>1, <3>2, <3>3, <3>4, <3>5 DEF Translated, i
    <3> QED BY <3>6 DEF u
  <2> QED BY <2>6, <2>7
<1> QED BY <1>10, <1>11

-----------------------------------------------------------------------------
(* The blocks that are made before the code of the states. *)

\* The first j - 1 declarations are translated, and there is but one block.
EntryOnly(k, j, t) ==
    /\ IsTranslator(t)
    /\ t.at = 1 /\ t.ok
    /\ t.blocks \in Seq(Seq(IrCode)) /\ Len(t.blocks) = 1
    /\ Len(t.blocks[1]) = j - 1
    /\ \A i \in 1 .. (j - 1) : t.blocks[1][i] = Alloca(BuildSetup(k)[i].name)
    /\ Parameters(k) \cup {BuildSetup(k)[i].name : i \in 1 .. (j - 1)} \subseteq DOMAIN t.symbols

\* An entry of a symbol table.
LEMMA EntryMade ==
    ASSUME NEW x, NEW v, NEW f
    PROVE  /\ DOMAIN WithEntry(f, x, v) = DOMAIN f \cup {x}
           /\ WithEntry(f, x, v)[x] = v
           /\ \A y \in DOMAIN f : y # x => WithEntry(f, x, v)[y] = f[y]
BY DEF WithEntry

\* A new translator has an empty entry block and its parameters for symbols.
LEMMA EntryBegins ==
    ASSUME NEW k \in Kinds
    PROVE  EntryOnly(k, 1, NewTranslator(k))
<1> DEFINE t == NewTranslator(k)
<1>1. /\ t = [blocks |-> <<<<>>>>, at |-> 1, labels |-> <<>>, ok |-> TRUE,
              symbols |-> [p \in Parameters(k) |-> 0]]
  BY DEF NewTranslator
<1> HIDE DEF t
<1>2. t.blocks = <<<<>>>> /\ t.at = 1 /\ t.ok /\ DOMAIN t.symbols = Parameters(k)
      /\ IsTranslator(t)
  BY <1>1 DEF IsTranslator
<1>3. <<<<>>>> \in Seq(Seq(IrCode)) /\ Len(<<<<>>>>) = 1 /\ Len(<<<<>>>>[1]) = 0
  <2>1. <<>> \in Seq(IrCode)
    OBVIOUS
  <2> DEFINE e == <<>>
  <2>2. e \in Seq(IrCode) /\ Len(e) = 0
    OBVIOUS
  <2> HIDE DEF e
  <2>3. <<e>> \in Seq(Seq(IrCode)) /\ Len(<<e>>) = 1 /\ <<e>>[1] = e
    BY <2>2
  <2> QED BY <2>2, <2>3 DEF e
<1>4. EntryOnly(k, 1, t)
  BY <1>2, <1>3 DEF EntryOnly
<1> QED BY <1>4 DEF t

\* A declaration adds an alloca to the entry block.
LEMMA DeclarationMade ==
    ASSUME NEW k \in Kinds, NEW j \in 1 .. Setup(k), NEW t, EntryOnly(k, j, t)
    PROVE  EntryOnly(k, j + 1, Make(k, t, BuildSetup(k)[j]))
<1> DEFINE i == BuildSetup(k)[j]
           x == Alloca(i.name)
           B == t.blocks
           D == B[1] \o <<x>>
           C == [B EXCEPT ![1] = D]
           S == WithEntry(t.symbols, i.name, 0)
           u == Make(k, t, i)
<1>1. i.op = "DECLARE_VAR" /\ i.name \in Variables
  BY SetupBeginsNothing
<1>2. /\ IsTranslator(t) /\ t.at = 1 /\ t.ok
      /\ B \in Seq(Seq(IrCode)) /\ Len(B) = 1 /\ Len(B[1]) = j - 1
      /\ B[1] \in Seq(IrCode)
  <2>1. /\ IsTranslator(t) /\ t.at = 1 /\ t.ok
        /\ B \in Seq(Seq(IrCode)) /\ Len(B) = 1 /\ Len(B[1]) = j - 1
    BY DEF EntryOnly
  <2> QED BY <2>1
<1>3. Setup(k) \in Nat /\ j \in Nat
  BY SetupFacts
<1>4. x \in IrCode
  BY <1>1 DEF IrCode
<1>5. u = [blocks |-> C, at |-> 1, labels |-> t.labels, ok |-> t.ok, symbols |-> S]
  <2>1. Resolves(k, t, i)
    BY <1>1 DEF Resolves, Needed
  <2>2. u = MakeDeclareVar(t, i)
    BY <1>1, <2>1 DEF Make
  <2>3. t = [blocks |-> B, at |-> 1, labels |-> t.labels, ok |-> t.ok,
             symbols |-> t.symbols]
    BY <1>2 DEF IsTranslator
  <2> HIDE DEF B, S, u, i, x
  <2>4. Emit(t, <<x>>) = [blocks |-> [B EXCEPT ![1] = B[1] \o <<x>>], at |-> 1,
                          labels |-> t.labels, ok |-> t.ok, symbols |-> t.symbols]
    BY <2>3 DEF Emit
  <2>5. MakeDeclareVar(t, i) = [Emit(t, <<x>>) EXCEPT !.symbols = WithEntry(@, i.name, 0)]
    BY DEF MakeDeclareVar, x
  <2>6. MakeDeclareVar(t, i) = [blocks |-> C, at |-> 1, labels |-> t.labels, ok |-> t.ok,
                                symbols |-> WithEntry(t.symbols, i.name, 0)]
    <3> HIDE DEF C
    <3>1. Emit(t, <<x>>) = [blocks |-> C, at |-> 1,
                            labels |-> t.labels, ok |-> t.ok, symbols |-> t.symbols]
      BY <2>4 DEF C
    <3> QED BY <2>5, <3>1
  <2> QED BY <2>2, <2>6 DEF S
<1>6. DOMAIN S = DOMAIN t.symbols \cup {i.name}
  BY DEF WithEntry
<1> HIDE DEF u, S, i, x, B
<1>7. /\ D \in Seq(IrCode) /\ Len(D) = (j + 1) - 1 /\ D[j] = x
      /\ \A l \in 1 .. (j - 1) : D[l] = B[1][l]
  BY <1>2, <1>3, <1>4
<1> HIDE DEF D
<1>8. C \in Seq(Seq(IrCode)) /\ Len(C) = 1 /\ C[1] = D
  <2>1. 1 \in 1 .. Len(B) /\ B \in Seq(Seq(IrCode)) /\ D \in Seq(IrCode)
    BY <1>2, <1>7
  <2>2. C \in Seq(Seq(IrCode)) /\ Len(C) = Len(B) /\ C[1] = D
    BY <2>1, Replaced
  <2> QED BY <1>2, <2>2
<1> HIDE DEF C
<1>9. /\ u.blocks = C /\ u.at = 1 /\ u.ok = t.ok /\ u.symbols = S
      /\ IsTranslator(u)
  BY <1>5 DEF IsTranslator
<1>10. \A l \in 1 .. ((j + 1) - 1) : D[l] = Alloca(BuildSetup(k)[l].name)
  <2> TAKE l \in 1 .. ((j + 1) - 1)
  <2>1. CASE l = j
    BY <1>7, <2>1 DEF x, i
  <2>2. CASE l # j
    <3>1. l \in 1 .. (j - 1)
      BY <1>3, <2>2
    <3> QED BY <1>7, <3>1 DEF EntryOnly, B
  <2> QED BY <2>1, <2>2
<1>11. Parameters(k) \cup {BuildSetup(k)[l].name : l \in 1 .. ((j + 1) - 1)} \subseteq DOMAIN S
  <2>1. Parameters(k) \cup {BuildSetup(k)[l].name : l \in 1 .. (j - 1)} \subseteq DOMAIN S
    BY <1>6 DEF EntryOnly
  <2>2. \A l \in 1 .. ((j + 1) - 1) : l \in 1 .. (j - 1) \/ l = j
    BY <1>3
  <2> QED BY <1>6, <2>1, <2>2 DEF i
<1>12. EntryOnly(k, j + 1, u)
  BY <1>2, <1>7, <1>8, <1>9, <1>10, <1>11 DEF EntryOnly
<1> QED BY <1>12 DEF u, i

\* A translator spelt out, and what the builder makes of it.
Tr(blocks, at, labels, ok, symbols) ==
    [blocks |-> blocks, at |-> at, labels |-> labels, ok |-> ok, symbols |-> symbols]

\* The blocks with k empty ones more, and with x at the end of block a.
Grown(blocks, k) == blocks \o [i \in 1 .. k |-> <<>>]
Extended(blocks, a, x) == [blocks EXCEPT ![a] = blocks[a] \o x]

\* Moving the insert point changes nothing else.
LEMMA PointBuilt ==
    ASSUME NEW b, NEW a, NEW l, NEW o, NEW s, NEW c
    PROVE  SetInsertPoint(Tr(b, a, l, o, s), c) = Tr(b, c, l, o, s)
BY DEF SetInsertPoint, Tr

\* New blocks come after the others and change nothing else.
LEMMA BlocksBuilt ==
    ASSUME NEW b, NEW a, NEW l, NEW o, NEW s, NEW k
    PROVE  WithBlocks(Tr(b, a, l, o, s), k) = Tr(Grown(b, k), a, l, o, s)
<1> DEFINE r == Tr(b, a, l, o, s)
<1>1. r.blocks = b /\ \A e : [r EXCEPT !.blocks = e] = Tr(e, a, l, o, s)
  BY DEF Tr
<1> HIDE DEF r
<1>2. WithBlocks(r, k) = [r EXCEPT !.blocks = Grown(r.blocks, k)]
  BY DEF WithBlocks, Grown
<1>3. WithBlocks(r, k) = Tr(Grown(b, k), a, l, o, s)
  BY <1>1, <1>2
<1> QED BY <1>3 DEF r

\* What is emitted comes at the end of the block at the insert point.
LEMMA CodeBuilt ==
    ASSUME NEW b, NEW a, NEW l, NEW o, NEW s, NEW x
    PROVE  Emit(Tr(b, a, l, o, s), x) = Tr(Extended(b, a, x), a, l, o, s)
<1> DEFINE r == Tr(b, a, l, o, s)
<1>1. r.blocks = b /\ r.at = a /\ \A e : [r EXCEPT !.blocks = e] = Tr(e, a, l, o, s)
  BY DEF Tr
<1> HIDE DEF r
<1>2. Emit(r, x) = [r EXCEPT !.blocks = Extended(r.blocks, r.at, x)]
  BY DEF Emit, Extended
<1>3. Emit(r, x) = Tr(Extended(b, a, x), a, l, o, s)
  BY <1>1, <1>2
<1> QED BY <1>3 DEF r

\* u has one more block than t's n, with that code.
Appended(t, u, n, code) ==
    /\ IsTranslator(u)
    /\ u.at = t.at /\ u.ok = t.ok /\ u.labels = t.labels
    /\ u.blocks \in Seq(Seq(IrCode)) /\ Len(u.blocks) = n + 1
    /\ \A b \in 1 .. n : u.blocks[b] = t.blocks[b]
    /\ u.blocks[n + 1] = code

\* makeAcceptBlock and makeRejectBlock.
LEMMA EndBlockMade ==
    ASSUME NEW t, IsTranslator(t), t.blocks \in Seq(Seq(IrCode)), NEW n, Len(t.blocks) = n,
           NEW name, NEW value \in {"accept", "reject"}
    PROVE  /\ Appended(t, EndBlock(t, name, value), n, <<Ret(value)>>)
           /\ EndBlock(t, name, value).symbols = WithEntry(t.symbols, name, n + 1)
<1> DEFINE x == Ret(value)
           B == t.blocks
           E == [i \in 1 .. 1 |-> <<>>]
           C == Grown(B, 1)
           D == Extended(C, n + 1, <<x>>)
           u == EndBlock(t, name, value)
           R(b, a) == Tr(b, a, t.labels, t.ok, t.symbols)
<1>1. n \in Nat /\ B \in Seq(Seq(IrCode)) /\ Len(B) = n
  OBVIOUS
<1>2. x \in IrCode
  BY DEF IrCode
<1>3. E \in Seq(Seq(IrCode)) /\ Len(E) = 1 /\ E[1] = <<>>
  <2>1. <<>> \in Seq(IrCode)
    OBVIOUS
  <2> QED BY <2>1
<1>4. u = [blocks |-> D, at |-> t.at, labels |-> t.labels, ok |-> t.ok,
           symbols |-> WithEntry(t.symbols, name, n + 1)]
  <2>1. t = R(B, t.at)
    BY DEF IsTranslator, Tr
  <2>2. Fresh(t, 0) = n + 1
    BY <1>1 DEF Fresh
  <2> HIDE DEF E, x, B
  <2>3. WithBlocks(t, 1) = R(C, t.at)
    BY <2>1, BlocksBuilt
  <2> HIDE DEF C
  <2>4. SetInsertPoint(R(C, t.at), n + 1) = R(C, n + 1)
    BY PointBuilt
  <2>5. Emit(R(C, n + 1), <<x>>) = R(D, n + 1)
    BY CodeBuilt
  <2> HIDE DEF D
  <2>6. Aside(R(C, t.at), n + 1, <<x>>) = R(D, t.at)
    BY <2>4, <2>5, PointBuilt DEF Aside, RestoreInsertPoint, Tr
  <2>7. u = [R(D, t.at) EXCEPT !.symbols = WithEntry(@, name, n + 1)]
    BY <2>2, <2>3, <2>6 DEF EndBlock, x
  <2> QED BY <2>7 DEF Tr
<1> HIDE DEF u, E, x, B
<1>5. /\ C \in Seq(Seq(IrCode)) /\ Len(C) = n + 1 /\ C[n + 1] = <<>>
      /\ \A b \in 1 .. n : C[b] = B[b]
  <2>1. /\ C \in Seq(Seq(IrCode)) /\ Len(C) = Len(B) + Len(E)
        /\ \A i \in 1 .. Len(C) : C[i] = IF i <= Len(B) THEN B[i] ELSE E[i - Len(B)]
    <3>1. B \in Seq(Seq(IrCode)) /\ E \in Seq(Seq(IrCode))
      BY <1>1, <1>3
    <3>2. C = B \o E
      BY DEF Grown, E
    <3> HIDE DEF C
    <3> QED BY <3>1, <3>2, Joined
  <2> HIDE DEF C
  <2>2. n + 1 \in 1 .. Len(C) /\ \A b \in 1 .. n : b \in 1 .. Len(C)
    BY <1>1, <1>3, <2>1
  <2> QED BY <1>1, <1>3, <2>1, <2>2
<1> HIDE DEF C
<1>6. /\ D \in Seq(Seq(IrCode)) /\ Len(D) = n + 1 /\ D[n + 1] = <<x>>
      /\ \A b \in 1 .. n : D[b] = C[b]
  <2>1. C[n + 1] \o <<x>> = <<x>> /\ <<x>> \in Seq(IrCode) /\ n + 1 \in 1 .. Len(C)
    BY <1>1, <1>2, <1>5
  <2>2. /\ D \in Seq(Seq(IrCode)) /\ Len(D) = Len(C) /\ D[n + 1] = C[n + 1] \o <<x>>
        /\ \A b \in 1 .. Len(C) : b # n + 1 => D[b] = C[b]
    <3>1. C \in Seq(Seq(IrCode)) /\ n + 1 \in 1 .. Len(C) /\ C[n + 1] \o <<x>> \in Seq(IrCode)
      BY <1>5, <2>1
    <3> QED BY <3>1, Replaced DEF Extended
  <2> HIDE DEF D
  <2> QED BY <1>1, <1>5, <2>1, <2>2
<1> HIDE DEF D
<1>7. /\ u.blocks = D /\ u.at = t.at /\ u.labels = t.labels /\ u.ok = t.ok
      /\ u.symbols = WithEntry(t.symbols, name, n + 1)
      /\ IsTranslator(u)
  BY <1>4 DEF IsTranslator
<1>8. Appended(t, u, n, <<x>>)
  BY <1>5, <1>6, <1>7 DEF Appended, B
<1> QED BY <1>7, <1>8 DEF u, x

\* u is t with the blocks of the states S, N of them, and the branch to the first.
LinksStates(t, u, S, N) ==
    /\ IsTranslator(u)
    /\ u.at = 1 /\ u.ok = t.ok /\ u.symbols = t.symbols
    /\ u.labels = [s \in S |-> 4 + s]
    /\ u.blocks \in Seq(Seq(IrCode)) /\ Len(u.blocks) = 3 + N
    /\ u.blocks[1] = t.blocks[1] \o <<Br(4)>>
    /\ u.blocks[2] = t.blocks[2] /\ u.blocks[3] = t.blocks[3]
    /\ \A b \in 4 .. (3 + N) : u.blocks[b] = <<>>

\* makeStartStateInst for each state, and linkFirstStateToEntry.
LEMMA StatesLinked ==
    ASSUME NEW t, IsTranslator(t), t.blocks \in Seq(Seq(IrCode)), Len(t.blocks) = 3,
           NEW N \in Nat \ {0}, NEW S, S = 0 .. (N - 1)
    PROVE  LinksStates(t, Linked(StateBlocks(t, S)), S, N)
<1> DEFINE B == t.blocks
           E == [i \in 1 .. N |-> <<>>]
           C == Grown(B, N)
           x == Br(4)
           D == Extended(C, 1, <<x>>)
           L == [s \in S |-> 4 + s]
           u == Linked(StateBlocks(t, S))
           R(b, a, l) == Tr(b, a, l, t.ok, t.symbols)
<1>1. B \in Seq(Seq(IrCode)) /\ Len(B) = 3 /\ B[1] \in Seq(IrCode)
  OBVIOUS
<1>2. x \in IrCode
  BY DEF IrCode
<1>3. E \in Seq(Seq(IrCode)) /\ Len(E) = N /\ \A i \in 1 .. N : E[i] = <<>>
  <2>1. <<>> \in Seq(IrCode)
    OBVIOUS
  <2> QED BY <2>1
<1>4. Cardinality(S) = N
  <2>1. Cardinality(0 .. (N - 1)) = IF 0 > N - 1 THEN 0 ELSE (N - 1) - 0 + 1
    <3>1. 0 \in Int /\ N - 1 \in Int
      OBVIOUS
    <3> QED BY <3>1, FS_Interval
  <2> QED BY <2>1
<1>5. u = R(D, 1, L)
  <2>1. t = R(B, t.at, t.labels)
    BY DEF IsTranslator, Tr
  <2>2. \A s \in S : Fresh(t, s) = 4 + s
    BY <1>1 DEF Fresh
  <2> HIDE DEF E, x, B
  <2>3. WithBlocks(t, N) = R(C, t.at, t.labels)
    BY <2>1, BlocksBuilt
  <2> HIDE DEF C
  <2>4. StateBlocks(t, S) = R(C, t.at, L)
    <3>1. StateBlocks(t, S) = [R(C, t.at, t.labels) EXCEPT !.labels = L]
      BY <1>4, <2>2, <2>3 DEF StateBlocks
    <3> HIDE DEF L
    <3> QED BY <3>1 DEF Tr
  <2>5. L[StartState] = 4
    BY DEF StartState
  <2> HIDE DEF L
  <2>6. SetInsertPoint(R(C, t.at, L), 1) = R(C, 1, L)
    BY PointBuilt
  <2>7. Emit(R(C, 1, L), <<x>>) = R(D, 1, L)
    BY CodeBuilt
  <2> HIDE DEF D
  <2>8. R(C, t.at, L).labels = L
    BY DEF Tr
  <2> QED BY <2>4, <2>5, <2>6, <2>7, <2>8 DEF Linked, x
<1> HIDE DEF u, E, x, B, L
<1>6. /\ C \in Seq(Seq(IrCode)) /\ Len(C) = 3 + N
      /\ C[1] = B[1] /\ C[2] = B[2] /\ C[3] = B[3]
      /\ \A b \in 4 .. (3 + N) : C[b] = <<>>
  <2>1. /\ C \in Seq(Seq(IrCode)) /\ Len(C) = Len(B) + Len(E)
        /\ \A i \in 1 .. Len(C) : C[i] = IF i <= Len(B) THEN B[i] ELSE E[i - Len(B)]
    <3>1. B \in Seq(Seq(IrCode)) /\ E \in Seq(Seq(IrCode))
      BY <1>1, <1>3
    <3>2. C = B \o E
      BY DEF Grown, E
    <3> HIDE DEF C
    <3> QED BY <3>1, <3>2, Joined
  <2> HIDE DEF C
  <2>2. /\ 1 \in 1 .. Len(C) /\ 2 \in 1 .. Len(C) /\ 3 \in 1 .. Len(C)
        /\ \A b \in 4 .. (3 + N) : b \in 1 .. Len(C) /\ b > 3 /\ b - 3 \in 1 .. N
    BY <1>1, <1>3, <2>1
  <2> QED BY <1>1, <1>3, <2>1, <2>2
<1> HIDE DEF C
<1>7. /\ D \in Seq(Seq(IrCode)) /\ Len(D) = 3 + N /\ D[1] = B[1] \o <<x>>
      /\ \A b \in 2 .. (3 + N) : D[b] = C[b]
  <2>1. B[1] \o <<x>> \in Seq(IrCode) /\ 1 \in 1 .. Len(C)
    BY <1>1, <1>2, <1>6
  <2> DEFINE d == B[1] \o <<x>>
  <2>2. /\ D \in Seq(Seq(IrCode)) /\ Len(D) = Len(C) /\ D[1] = d
        /\ \A b \in 1 .. Len(C) : b # 1 => D[b] = C[b]
    <3>1. D = [C EXCEPT ![1] = d]
      BY <1>6 DEF Extended
    <3>2. C \in Seq(Seq(IrCode)) /\ 1 \in 1 .. Len(C) /\ d \in Seq(IrCode)
      BY <1>6, <2>1
    <3> HIDE DEF D, d
    <3> QED BY <3>1, <3>2, Replaced
  <2> HIDE DEF D
  <2>3. \A b \in 2 .. (3 + N) : b \in 1 .. Len(C) /\ b # 1
    BY <1>6
  <2> QED BY <1>6, <2>2, <2>3
<1> HIDE DEF D
<1>8. /\ u.blocks = D /\ u.at = 1 /\ u.labels = L /\ u.ok = t.ok /\ u.symbols = t.symbols
      /\ IsTranslator(u)
  BY <1>5 DEF Tr, IsTranslator
<1>9. 2 \in 2 .. (3 + N) /\ 3 \in 2 .. (3 + N) /\ \A b \in 4 .. (3 + N) : b \in 2 .. (3 + N)
  OBVIOUS
<1>10. LinksStates(t, u, S, N)
  BY <1>6, <1>7, <1>8, <1>9 DEF LinksStates, x, B, L
<1> QED BY <1>10 DEF u

\* With its blocks made and linked, a function is certified as far as it goes.
LEMMA BlocksMade ==
    ASSUME NEW m, WellFormed(m), NEW k \in Kinds, NEW c, NEW p, IsProgram(m, k, p, c),
           Begun(p) = States(m), NEW t, EntryOnly(k, Setup(k) + 1, t)
    PROVE  Translated(m, k, p, Setup(k) + 1, Linked(StateBlocks(EndBlocks(t), States(m))))
<1> DEFINE N == m.n
           S == States(m)
           L == Setup(k)
           t1 == EndBlock(t, "accept_block", "accept")
           t2 == EndBlock(t1, "reject_block", "reject")
           u == Linked(StateBlocks(t2, S))
           n == 3 + N
           ann == [b \in Nat |-> "any"]
           E == t.blocks[1]
           open == OpenBlocks(k, p, L + 1, u)
<1>1. N \in Nat \ {0} /\ S = 0 .. (N - 1) /\ n \in Nat
  BY DEF WellFormed, States
<1>2. /\ IsTranslator(t) /\ t.at = 1 /\ t.ok
      /\ t.blocks \in Seq(Seq(IrCode)) /\ Len(t.blocks) = 1
      /\ E \in Seq(IrCode) /\ Len(E) = L /\ L \in Nat /\ L >= 2
      /\ \A i \in 1 .. L : E[i] = Alloca(BuildSetup(k)[i].name)
      /\ Parameters(k) \cup Declared(k) \subseteq DOMAIN t.symbols
  <2>1. L \in Nat /\ L >= 2 /\ (L + 1) - 1 = L
    BY SetupFacts
  <2> HIDE DEF L
  <2>2. t.blocks \in Seq(Seq(IrCode)) /\ Len(t.blocks) = 1
    BY DEF EntryOnly
  <2>3. E \in Seq(IrCode)
    BY <2>2
  <2>4. Declared(k) = {BuildSetup(k)[i].name : i \in 1 .. L}
    BY DEF Declared, L
  <2>5. EntryOnly(k, L + 1, t)
    BY DEF L
  <2> QED BY <2>1, <2>2, <2>3, <2>4, <2>5 DEF EntryOnly
<1> HIDE DEF L
<1>3. Appended(t, t1, 1, <<Ret("accept")>>) /\ t1.symbols = WithEntry(t.symbols, "accept_block", 2)
  <2>1. /\ Appended(t, t1, 1, <<Ret("accept")>>)
        /\ t1.symbols = WithEntry(t.symbols, "accept_block", 1 + 1)
    <3>1. IsTranslator(t) /\ t.blocks \in Seq(Seq(IrCode)) /\ Len(t.blocks) = 1
      BY <1>2
    <3>2. "accept" \in {"accept", "reject"}
      OBVIOUS
    <3>3. \A n0, name : \A v \in {"accept", "reject"} : Len(t.blocks) = n0 =>
              /\ Appended(t, EndBlock(t, name, v), n0, <<Ret(v)>>)
              /\ EndBlock(t, name, v).symbols = WithEntry(t.symbols, name, n0 + 1)
      BY <3>1, EndBlockMade
    <3> QED BY <3>1, <3>2, <3>3
  <2> HIDE DEF t1
  <2>2. 1 + 1 = 2
    OBVIOUS
  <2> QED BY <2>1, <2>2
<1> HIDE DEF t1
<1>4. Appended(t1, t2, 2, <<Ret("reject")>>) /\ t2.symbols = WithEntry(t1.symbols, "reject_block", 3)
  <2>1. IsTranslator(t1) /\ t1.blocks \in Seq(Seq(IrCode)) /\ Len(t1.blocks) = 2
    BY <1>3 DEF Appended
  <2>2. /\ Appended(t1, t2, 2, <<Ret("reject")>>)
        /\ t2.symbols = WithEntry(t1.symbols, "reject_block", 2 + 1)
    BY <2>1, EndBlockMade
  <2> HIDE DEF t2
  <2>3. 2 + 1 = 3
    OBVIOUS
  <2> QED BY <2>2, <2>3
<1> HIDE DEF t2
<1>5. /\ IsTranslator(t2) /\ t2.blocks \in Seq(Seq(IrCode)) /\ Len(t2.blocks) = 3 /\ t2.ok
      /\ t2.blocks[1] = E /\ t2.blocks[2] = <<Ret("accept")>>
      /\ t2.blocks[3] = <<Ret("reject")>>
  <2>1. 1 \in 1 .. 1 /\ 1 \in 1 .. 2 /\ 2 \in 1 .. 2 /\ 1 + 1 = 2 /\ 2 + 1 = 3
    OBVIOUS
  <2> QED BY <1>2, <1>3, <1>4, <2>1 DEF Appended
<1>6. /\ DOMAIN t2.symbols = DOMAIN t.symbols \cup {"accept_block", "reject_block"}
      /\ t2.symbols["accept_block"] = 2 /\ t2.symbols["reject_block"] = 3
  BY <1>3, <1>4 DEF WithEntry
<1> HIDE DEF E, S, N
<1>7. /\ IsTranslator(u)
      /\ u.at = 1 /\ u.ok = t2.ok /\ u.symbols = t2.symbols
      /\ u.labels = [s \in S |-> 4 + s]
      /\ u.blocks \in Seq(Seq(IrCode)) /\ Len(u.blocks) = n
      /\ u.blocks[1] = E \o <<Br(4)>>
      /\ u.blocks[2] = <<Ret("accept")>> /\ u.blocks[3] = <<Ret("reject")>>
      /\ \A b \in 4 .. n : u.blocks[b] = <<>>
  <2>1. LinksStates(t2, u, S, N)
    BY <1>1, <1>5, StatesLinked
  <2> HIDE DEF u
  <2> QED BY <1>5, <2>1 DEF LinksStates
<1> HIDE DEF u
<1>8. Unbegun(p, L + 1) = S
  <2>1. \A i \in DOMAIN p : p[i].op = "START_STATE" => i \in (L + 1) .. Len(p)
    <3>1. \A i \in 1 .. L : p[i].op # "START_STATE"
      BY SetupBeginsNothing DEF IsProgram, L
    <3>2. DOMAIN p = 1 .. Len(p) /\ Len(p) \in Nat
      BY DEF IsProgram
    <3> QED BY <1>2, <3>1, <3>2
  <2>2. \A i \in (L + 1) .. Len(p) : i \in DOMAIN p
    BY <1>2 DEF IsProgram
  <2>3. Unbegun(p, L + 1) = Begun(p)
    BY <2>1, <2>2 DEF Unbegun, Begun, Begins
  <2> QED BY <2>3 DEF S
<1>9. ~Within(k, p, L + 1)
  BY <1>2 DEF Within, L
<1>10. open = {4 + s : s \in S} /\ open = 4 .. n
  <2>1. open = {u.labels[s] : s \in S}
    BY <1>8, <1>9 DEF OpenBlocks, Pending
  <2>2. open = {4 + s : s \in S}
    BY <1>7, <2>1
  <2>3. \A b \in 4 .. n : b - 4 \in S /\ b = 4 + (b - 4)
    BY <1>1
  <2>4. \A s \in S : 4 + s \in 4 .. n
    BY <1>1
  <2> HIDE DEF open
  <2> QED BY <2>2, <2>3, <2>4
<1> HIDE DEF open
<1>11. /\ Len(u.blocks[1]) = L + 1 /\ u.blocks[1][L + 1] = Br(4)
       /\ \A i \in 1 .. L : u.blocks[1][i] = Alloca(BuildSetup(k)[i].name)
  <2> DEFINE x == Br(4)
             D == E \o <<x>>
  <2>1. x \in IrCode
    BY DEF IrCode
  <2> HIDE DEF x
  <2>2. Len(D) = L + 1 /\ D[L + 1] = x /\ \A i \in 1 .. L : D[i] = E[i]
    BY <1>2, <2>1
  <2> QED BY <1>2, <1>7, <2>2 DEF x
<1>12. Allocates(u.blocks[1])
  <2>1. /\ 1 \in 1 .. L /\ 2 \in 1 .. L /\ 1 \in 1 .. (L + 1) /\ 2 \in 1 .. (L + 1)
        /\ BuildSetup(k)[1].name = "counter" /\ BuildSetup(k)[2].name = "cursor"
    BY <1>2, SetupFacts DEF DeclareVar
  <2> QED BY <1>11, <2>1 DEF Allocates
<1>13. ann \in [Nat -> Facts] /\ \A b \in Nat : ann[b] = "any"
  BY DEF Facts
<1> HIDE DEF ann
<1>14. ASSUME NEW b \in 1 .. n, NEW i \in 1 .. Len(u.blocks[b])
       PROVE  /\ Fits(ann, n, b, KnownAt(u.blocks[b], ann[b], i), u.blocks[b][i])
              /\ u.blocks[b][i].op \in Terminators => i = Len(u.blocks[b]) /\ b \notin open
  <2> DEFINE f == KnownAt(u.blocks[b], ann[b], i)
  <2> HIDE DEF f
  <2>1. CASE b = 1 /\ i \in 1 .. L
    <3>1. u.blocks[b][i].op = "alloca"
      <4>1. PICK v : u.blocks[b][i] = Alloca(v)
        BY <1>11, <2>1
      <4> QED BY <4>1 DEF Alloca
    <3> QED BY <2>1, <3>1 DEF Fits, Terminators, f
  <2>2. CASE b = 1 /\ i = L + 1
    <3>1. u.blocks[b][i].op = "br" /\ u.blocks[b][i].to = 4
      BY <1>11, <2>2 DEF Br
    <3>2. 4 \in 2 .. n /\ ann[4] = "any" /\ 1 \notin open
      BY <1>1, <1>10, <1>13
    <3>3. Fits(ann, n, b, f, u.blocks[b][i])
      BY <2>2, <3>1, <3>2 DEF Fits, Leads
    <3> QED BY <1>11, <2>2, <3>2, <3>3 DEF f
  <2>3. CASE b = 2 \/ b = 3
    <3>1. Len(u.blocks[b]) = 1 /\ i = 1 /\ u.blocks[b][i].op = "ret" /\ b # 1
      <4>1. PICK v : u.blocks[b] = <<Ret(v)>>
        BY <1>7, <2>3
      <4> DEFINE x == Ret(v)
      <4>2. x.op = "ret"
        BY DEF Ret
      <4> HIDE DEF x
      <4>3. Len(<<x>>) = 1 /\ <<x>>[1] = x /\ u.blocks[b] = <<x>>
        BY <4>1 DEF x
      <4>4. i = 1
        BY <4>3
      <4> QED BY <2>3, <4>2, <4>3, <4>4
    <3>2. b \notin open
      BY <1>10, <2>3
    <3> QED BY <3>1, <3>2 DEF Fits, f
  <2>4. CASE b \in 4 .. n
    <3>1. u.blocks[b] = <<>>
      BY <1>7, <2>4
    <3> QED BY <3>1
  <2>5. b = 1 \/ b = 2 \/ b = 3 \/ b \in 4 .. n
    BY <1>1
  <2>6. b = 1 => i \in 1 .. L \/ i = L + 1
    BY <1>2, <1>11
  <2> QED BY <2>1, <2>2, <2>3, <2>4, <2>5, <2>6
<1>15. ASSUME NEW b \in (1 .. n) \ open
       PROVE  u.blocks[b] # <<>> /\ u.blocks[b][Len(u.blocks[b])].op \in Terminators
  <2>1. b = 1 \/ b = 2 \/ b = 3
    BY <1>1, <1>10
  <2>2. CASE b = 1
    <3> DEFINE x == Br(4)
    <3>1. x.op \in Terminators
      BY DEF Br, Terminators
    <3> HIDE DEF x
    <3>2. Len(u.blocks[1]) = L + 1 /\ u.blocks[1][L + 1] = x
      BY <1>11 DEF x
    <3>3. Len(u.blocks[1]) # 0
      BY <1>2, <3>2
    <3> QED BY <2>2, <3>1, <3>2, <3>3
  <2>3. CASE b = 2 \/ b = 3
    <3>1. PICK v : u.blocks[b] = <<Ret(v)>>
      BY <1>7, <2>3
    <3> DEFINE x == Ret(v)
    <3>2. x.op \in Terminators
      BY DEF Ret, Terminators
    <3> HIDE DEF x
    <3>3. Len(<<x>>) = 1 /\ <<x>>[1] = x /\ u.blocks[b] = <<x>> /\ <<x>> # <<>>
      BY <3>1 DEF x
    <3> QED BY <3>2, <3>3
  <2> QED BY <2>1, <2>2, <2>3
<1>16. Certifies(ann, u.blocks, open)
  <2>1. open \subseteq 2 .. n /\ n >= 1
    BY <1>1, <1>10
  <2>2. u.blocks \in Seq(Seq(IrCode)) /\ Len(u.blocks) = n /\ ann \in [Nat -> Facts] /\ ann[1] = "any"
    BY <1>7, <1>13
  <2> HIDE DEF n
  <2> QED BY <1>12, <1>14, <1>15, <2>1, <2>2 DEF Certifies
<1>17. Stands(u, u, ann, open, n, u.at)
  <2>1. 1 \in 1 .. n
    BY <1>1
  <2> QED BY <1>1, <1>7, <1>16, <2>1 DEF Stands
<1>18. HasTables(m, k, u, ann, n)
  <2>1. Parameters(k) \cup Declared(k) \cup {"accept_block", "reject_block"}
            \subseteq DOMAIN u.symbols
    BY <1>2, <1>6, <1>7
  <2>2. /\ DOMAIN u.labels = S
        /\ \A s \in S : u.labels[s] \in 2 .. n /\ ann[u.labels[s]] = "any"
    <3>1. \A s \in S : 4 + s \in 2 .. n /\ 4 + s \in Nat
      BY <1>1
    <3> QED BY <1>7, <1>13, <3>1
  <2>3. \A s, r \in S : u.labels[s] = u.labels[r] => s = r
    <3>1. \A s, r \in S : 4 + s = 4 + r => s = r
      BY <1>1
    <3> QED BY <1>7, <3>1
  <2>4. Exits(u, ann, n)
    <3>1. 2 \in 2 .. n /\ 3 \in 2 .. n
      BY <1>1
    <3> QED BY <1>6, <1>7, <1>13, <3>1 DEF Exits
  <2> QED BY <2>1, <2>2, <2>3, <2>4 DEF HasTables, S
<1>19. Free(ann, n)
  BY <1>13 DEF Free
<1>20. Translated(m, k, p, L + 1, u)
  BY <1>1, <1>2, <1>5, <1>7, <1>9, <1>13, <1>17, <1>18, <1>19 DEF Translated, open
<1> QED BY <1>20 DEF u, t1, t2, S, L, EndBlocks

-----------------------------------------------------------------------------
(* The machine, until the function is called. *)

\* The program is code for the first states, and for all once compiled.
ProgramInv ==
    /\ dfa \in Machines /\ kind \in Kinds /\ subject \in Subjects
    /\ \E c \in Nat : IsProgram(dfa, kind, program, c)
    /\ stage # "compile" => Compiled = States(dfa)

\* Each stage begins where the one before it ended.
StageInv ==
    /\ stage \in {"compile", "setup", "translate", "run", "return"}
    /\ stage = "compile" => instIter = 1 /\ function = NewTranslator(kind)
    /\ stage = "setup" => /\ instIter \in 1 .. (Setup(kind) + 1)
                          /\ EntryOnly(kind, instIter, function)
    /\ stage = "translate" => /\ instIter \in (Setup(kind) + 1) .. (Len(program) + 1)
                              /\ Translated(dfa, kind, program, instIter, function)
    /\ stage \in {"compile", "setup", "translate"} =>
           pc = [block |-> 1, next |-> 1] /\ locals = NoVariables

\* The states counted as compiled are those whose code begins.
LEMMA CompiledBegun == Compiled = Begun(program)
BY DEF Compiled, Begun

\* What is cited of the machines.
LEMMA MachineFacts ==
    ASSUME dfa \in Machines
    PROVE  WellFormed(dfa) /\ StartState \in States(dfa) /\ dfa.n \in Nat \ {0}
           /\ States(dfa) = 0 .. (dfa.n - 1)
<1>1. WellFormed(dfa)
  BY MachinesAssumption
<1> QED BY <1>1 DEF WellFormed, States, StartState

\* Programs grow as they should: the state compiled is the one after the last.
LEMMA ProgramStep == ProgramInv /\ [Next]_vars => ProgramInv'
<1> SUFFICES ASSUME ProgramInv, [Next]_vars PROVE ProgramInv'
  OBVIOUS
<1>1. CASE CompileState
  <2>1. PICK c \in Nat : IsProgram(dfa, kind, program, c)
    BY DEF ProgramInv
  <2> DEFINE s == Cardinality(Compiled)
  <2>2. s = c
    <3>1. Compiled = 0 .. (c - 1)
      BY <2>1, CompiledBegun DEF IsProgram
    <3>2. Cardinality(0 .. (c - 1)) = IF 0 > c - 1 THEN 0 ELSE (c - 1) - 0 + 1
      <4>1. 0 \in Int /\ c - 1 \in Int
        OBVIOUS
      <4> QED BY <4>1, FS_Interval
    <3> QED BY <3>1, <3>2
  <2>3. c \in States(dfa)
    BY <1>1, <2>2 DEF CompileState
  <2>4. PICK order \in Orders(dfa, c) :
            program' = program \o BuildState(kind, dfa, c, order)
    BY <1>1, <2>2 DEF CompileState
  <2>5. WellFormed(dfa) /\ kind \in Kinds
    BY MachineFacts DEF ProgramInv
  <2>6. IsSegment(dfa, kind, c, BuildState(kind, dfa, c, order))
    BY <2>3, <2>5, StateCode
  <2>7. IsProgram(dfa, kind, program', c + 1)
    BY <2>1, <2>4, <2>5, <2>6, ProgramGrows
  <2>8. dfa' = dfa /\ kind' = kind /\ subject' = subject /\ stage' = "compile"
    BY <1>1 DEF CompileState, call
  <2>9. c + 1 \in Nat
    OBVIOUS
  <2> QED BY <2>7, <2>8, <2>9 DEF ProgramInv
<1>2. CASE FinishCompile
  <2>1. /\ dfa' = dfa /\ kind' = kind /\ subject' = subject /\ program' = program
        /\ Compiled = States(dfa)
    BY <1>2 DEF FinishCompile, call
  <2> QED BY <2>1 DEF ProgramInv, Compiled
<1>3. CASE /\ UNCHANGED <<call, program>>
           /\ stage # "compile"
  <2>1. dfa' = dfa /\ kind' = kind /\ subject' = subject /\ program' = program
    BY <1>3 DEF call
  <2> QED BY <1>3, <2>1 DEF ProgramInv, Compiled
<1>4. CASE TranslateSetup \/ MakeBlocks \/ TranslateInstruction \/ FinishTranslate
  BY <1>3, <1>4
     DEF TranslateSetup, MakeBlocks, TranslateInstruction, FinishTranslate, TranslateNext
<1>5. CASE Execute
  BY <1>3, <1>5
     DEF Execute, ExecAlloca, ExecReadChar, ExecIncrement, ExecCopy, ExecStoreOut, ExecBr,
         ExecCondBr, ExecRet, GoOn, BranchTo, Running
<1>6. CASE UNCHANGED vars
  <2>1. dfa' = dfa /\ kind' = kind /\ subject' = subject /\ program' = program
        /\ stage' = stage
    BY <1>6 DEF vars, call
  <2> QED BY <2>1 DEF ProgramInv, Compiled
<1> QED BY <1>1, <1>2, <1>4, <1>5, <1>6 DEF Next, Ended

\* The state in which the setup is translated.
LEMMA WholeProgram ==
    ASSUME ProgramInv, stage # "compile"
    PROVE  \E c \in Nat :
               /\ IsProgram(dfa, kind, program, c)
               /\ Begun(program) = States(dfa)
               /\ Len(program) > Setup(kind) /\ Begins(program[Setup(kind) + 1])
<1>1. PICK c \in Nat : IsProgram(dfa, kind, program, c)
  BY DEF ProgramInv
<1>2. Begun(program) = States(dfa)
  BY CompiledBegun DEF ProgramInv
<1>3. Setup(kind) \in Nat /\ kind \in Kinds
  BY SetupFacts DEF ProgramInv
<1>4. Len(program) > Setup(kind)
  <2> SUFFICES ASSUME ~(Len(program) > Setup(kind)) PROVE FALSE
    OBVIOUS
  <2>1. /\ DOMAIN program = 1 .. Len(program) /\ Len(program) \in Nat
        /\ Len(program) >= Setup(kind)
        /\ \A i \in 1 .. Setup(kind) : program[i] = BuildSetup(kind)[i]
    BY <1>1 DEF IsProgram
  <2>2. \A i \in DOMAIN program : program[i].op # "START_STATE"
    BY <1>3, <2>1, SetupBeginsNothing
  <2>3. Begun(program) = {}
    BY <2>2 DEF Begun
  <2> QED BY <1>2, <2>3, MachineFacts DEF ProgramInv
<1> QED BY <1>1, <1>2, <1>4 DEF IsProgram

\* Each stage leads to the next with what that one begins from.
LEMMA StageStep == ProgramInv /\ StageInv /\ [Next]_vars => StageInv'
<1> SUFFICES ASSUME ProgramInv, StageInv, [Next]_vars PROVE StageInv'
  OBVIOUS
<1>1. kind \in Kinds /\ Setup(kind) \in Nat
  BY SetupFacts DEF ProgramInv
<1>2. CASE CompileState
  BY <1>2 DEF CompileState, StageInv, call, execution
<1>3. CASE FinishCompile
  <2>1. EntryOnly(kind, 1, function)
    BY <1>1, <1>3, EntryBegins DEF FinishCompile, StageInv
  <2>2. 1 \in 1 .. (Setup(kind) + 1)
    BY <1>1
  <2> QED BY <1>3, <2>1, <2>2 DEF FinishCompile, StageInv, call, execution
<1>4. CASE TranslateSetup
  <2> DEFINE j == instIter
             i == program[j]
  <2>1. /\ stage = "setup" /\ j \in 1 .. (Setup(kind) + 1) /\ EntryOnly(kind, j, function)
        /\ i.op # "START_STATE"
    BY <1>4 DEF TranslateSetup, StageInv
  <2>2. PICK c \in Nat : /\ IsProgram(dfa, kind, program, c)
                         /\ Begins(program[Setup(kind) + 1])
    BY <2>1, WholeProgram
  <2>3. j \in 1 .. Setup(kind) /\ j + 1 \in 1 .. (Setup(kind) + 1)
    <3>1. j # Setup(kind) + 1
      BY <2>1, <2>2 DEF Begins
    <3> QED BY <1>1, <2>1, <3>1
  <2>4. i = BuildSetup(kind)[j]
    BY <2>2, <2>3 DEF IsProgram
  <2>5. EntryOnly(kind, j + 1, Make(kind, function, i))
    BY <1>1, <2>1, <2>3, <2>4, DeclarationMade
  <2>6. /\ function' = Make(kind, function, i) /\ instIter' = j + 1
        /\ kind' = kind /\ pc' = pc /\ locals' = locals
        /\ stage' = IF function'.ok THEN stage ELSE "error"
    BY <1>4 DEF TranslateSetup, TranslateNext, call, execution
  <2>7. stage' = "setup"
    BY <2>1, <2>5, <2>6 DEF EntryOnly
  <2> QED BY <2>1, <2>3, <2>5, <2>6, <2>7 DEF StageInv
<1>5. CASE MakeBlocks
  <2>1. /\ stage = "setup" /\ instIter \in 1 .. (Setup(kind) + 1)
        /\ EntryOnly(kind, instIter, function) /\ program[instIter].op = "START_STATE"
    BY <1>5 DEF MakeBlocks, StageInv
  <2>2. PICK c \in Nat : /\ IsProgram(dfa, kind, program, c)
                         /\ Begun(program) = States(dfa)
                         /\ Len(program) > Setup(kind)
    BY <2>1, WholeProgram
  <2>3. instIter = Setup(kind) + 1
    <3> SUFFICES ASSUME instIter \in 1 .. Setup(kind) PROVE FALSE
      BY <1>1, <2>1
    <3>1. program[instIter] = BuildSetup(kind)[instIter]
      BY <2>2 DEF IsProgram
    <3> QED BY <1>1, <2>1, <3>1, SetupBeginsNothing
  <2>4. Compiled = States(dfa) /\ WellFormed(dfa)
    BY <2>1, MachineFacts DEF ProgramInv
  <2>5. Translated(dfa, kind, program, Setup(kind) + 1,
                   Linked(StateBlocks(EndBlocks(function), States(dfa))))
    BY <1>1, <2>1, <2>2, <2>3, <2>4, BlocksMade
  <2>6. /\ function' = Linked(StateBlocks(EndBlocks(function), States(dfa)))
        /\ stage' = "translate" /\ instIter' = instIter /\ program' = program
        /\ dfa' = dfa /\ kind' = kind /\ pc' = pc /\ locals' = locals
    BY <1>5, <2>4 DEF MakeBlocks, call, execution
  <2>7. Setup(kind) + 1 \in (Setup(kind) + 1) .. (Len(program) + 1)
    <3>1. Len(program) \in Nat
      BY <2>2 DEF IsProgram
    <3> QED BY <1>1, <2>2, <3>1
  <2> QED BY <2>1, <2>3, <2>5, <2>6, <2>7 DEF StageInv
<1>6. CASE TranslateInstruction
  <2> DEFINE j == instIter
  <2>1. /\ stage = "translate" /\ j \in (Setup(kind) + 1) .. (Len(program) + 1)
        /\ Translated(dfa, kind, program, j, function) /\ j \in DOMAIN program
    BY <1>6 DEF TranslateInstruction, StageInv
  <2>2. PICK c \in Nat : /\ IsProgram(dfa, kind, program, c)
                         /\ Begun(program) = States(dfa)
    BY <2>1, WholeProgram
  <2>3. /\ j \in (Setup(kind) + 1) .. Len(program)
        /\ j + 1 \in (Setup(kind) + 1) .. (Len(program) + 1)
    <3>1. DOMAIN program = 1 .. Len(program) /\ Len(program) \in Nat
      BY <2>2 DEF IsProgram
    <3> QED BY <1>1, <2>1, <3>1
  <2>4. StartState \in States(dfa)
    BY MachineFacts DEF ProgramInv
  <2>5. Translated(dfa, kind, program, j + 1, Make(kind, function, program[j]))
    BY <1>1, <2>1, <2>2, <2>3, <2>4, InstructionTranslated
  <2>6. /\ function' = Make(kind, function, program[j]) /\ instIter' = j + 1
        /\ dfa' = dfa /\ kind' = kind /\ program' = program /\ pc' = pc /\ locals' = locals
        /\ stage' = IF function'.ok THEN stage ELSE "error"
    BY <1>6 DEF TranslateInstruction, TranslateNext, call, execution
  <2>7. stage' = "translate"
    BY <2>1, <2>5, <2>6 DEF Translated
  <2> QED BY <2>1, <2>3, <2>5, <2>6, <2>7 DEF StageInv
<1>7. CASE FinishTranslate
  BY <1>7 DEF FinishTranslate, StageInv
<1>8. CASE Execute
  BY <1>8
     DEF Execute, ExecAlloca, ExecReadChar, ExecIncrement, ExecCopy, ExecStoreOut, ExecBr,
         ExecCondBr, ExecRet, GoOn, BranchTo, Running, StageInv
<1>9. CASE UNCHANGED vars
  <2>1. /\ dfa' = dfa /\ kind' = kind /\ program' = program /\ stage' = stage /\ pc' = pc
        /\ instIter' = instIter /\ function' = function /\ locals' = locals
    BY <1>9 DEF vars, call, execution
  <2> QED BY <2>1 DEF StageInv
<1> QED BY <1>2, <1>3, <1>4, <1>5, <1>6, <1>7, <1>8, <1>9 DEF Next, Ended

\* The inductive invariant of compilation and translation.
MachineInv == ProgramInv /\ StageInv

\* It holds at first, and every step keeps it.
LEMMA Started == Init => MachineInv
<1> SUFFICES ASSUME Init PROVE MachineInv
  OBVIOUS
<1>1. IsProgram(dfa, kind, program, 0) /\ 0 \in Nat
  BY ProgramBegins DEF Init
<1> QED BY <1>1 DEF Init, MachineInv, ProgramInv, StageInv

LEMMA MachineKept == MachineInv /\ [Next]_vars => MachineInv'
BY ProgramStep, StageStep DEF MachineInv

\* Whatever the machine, the order of its edges and the compiler, every label and
\* every variable an instruction names is found: no out_of_range ends translation.
THEOREM NoLookupFails == Spec => []Translates
<1>1. MachineInv => Translates
  BY DEF MachineInv, StageInv, Translates
<1> QED BY <1>1, Started, MachineKept, PTL DEF Spec

-----------------------------------------------------------------------------
(* The function generated. *)

\* What is known holds of the variables, when w is matched.
IsKnown(k, values, w) ==
    /\ k = "notend" => values.counter # Len(w)
    /\ k = "current" => values.counter > 0 /\ values.cursor = w[values.counter]

\* A certified function runs, and at its present instruction holds what is known.
RunsCertified(ann) ==
    LET block == function.blocks[pc.block]
    IN  /\ Certifies(ann, function.blocks, {})
        /\ pc = [block |-> pc.block, next |-> pc.next]
        /\ pc.block \in 1 .. Len(function.blocks)
        /\ pc.next \in 1 .. Len(block)
        /\ \A v \in {"counter", "cursor"} :
               \/ v \in DOMAIN locals
               \/ pc.block = 1 /\ \E i \in pc.next .. Len(block) : block[i] = Alloca(v)
        /\ "counter" \in DOMAIN locals => locals.counter \in 0 .. Len(subject)
        /\ IsKnown(KnownAt(block, ann[pc.block], pc.next), locals, subject)

\* A function run is certified by some annotation, which the variables obey.
RunInv == stage = "run" => \E ann \in [Nat -> Facts] : RunsCertified(ann)

\* A block of a certified function has an instruction, and its last one, and no
\* other, is a terminator.
LEMMA CertifiedBlock ==
    ASSUME NEW ann, NEW blocks, Certifies(ann, blocks, {}), NEW b \in 1 .. Len(blocks)
    PROVE  /\ blocks[b] \in Seq(IrCode) /\ Len(blocks[b]) \in Nat /\ Len(blocks[b]) >= 1
           /\ blocks[b] # <<>>
           /\ \A i \in 1 .. Len(blocks[b]) :
                  /\ blocks[b][i] \in IrCode
                  /\ blocks[b][i].op \in Terminators <=> i = Len(blocks[b])
                  /\ Fits(ann, Len(blocks), b, KnownAt(blocks[b], ann[b], i), blocks[b][i])
           /\ blocks[b][Len(blocks[b])].op \in Terminators
<1>1. blocks \in Seq(Seq(IrCode))
  BY DEF Certifies
<1>2. blocks[b] \in Seq(IrCode)
  BY <1>1
<1>3. blocks[b] # <<>> /\ blocks[b][Len(blocks[b])].op \in Terminators
  BY DEF Certifies
<1> DEFINE block == blocks[b]
<1>4. \A i \in 1 .. Len(block) :
          /\ Fits(ann, Len(blocks), b, KnownAt(block, ann[b], i), block[i])
          /\ block[i].op \in Terminators => i = Len(block)
  BY DEF Certifies
<1> HIDE DEF block
<1>5. block \in Seq(IrCode) /\ block # <<>> /\ block[Len(block)].op \in Terminators
  BY <1>2, <1>3 DEF block
<1>6. Len(block) \in Nat /\ Len(block) >= 1
  BY <1>5
<1>7. \A i \in 1 .. Len(block) : block[i] \in IrCode
  BY <1>5
<1> QED BY <1>4, <1>5, <1>6, <1>7 DEF block

\* The entry block reads nothing.
LEMMA EntryKnows ==
    ASSUME NEW ann, NEW blocks, Certifies(ann, blocks, {}), NEW i \in 1 .. Len(blocks[1])
    PROVE  KnownAt(blocks[1], ann[1], i) = "any"
<1>1. 1 \in 1 .. Len(blocks) /\ ann[1] = "any"
  BY DEF Certifies
<1>2. \A j \in 1 .. Len(blocks[1]) : blocks[1][j].op # "readchar"
  BY <1>1, CertifiedBlock DEF Fits
<1>3. \A j \in 1 .. (i - 1) : j \in 1 .. Len(blocks[1])
  <2>1. Len(blocks[1]) \in Nat
    BY <1>1, CertifiedBlock
  <2> QED BY <2>1
<1> QED BY <1>1, <1>2, <1>3 DEF KnownAt

\* What LLVM's verifier asks of a certified function.
LEMMA CertifiedVerifies ==
    ASSUME stage = "run", RunInv
    PROVE  VerifierAccepts
<1>1. PICK ann \in [Nat -> Facts] : Certifies(ann, function.blocks, {})
  BY DEF RunInv, RunsCertified
<1> DEFINE B == function.blocks
<1>2. DOMAIN B = 1 .. Len(B) /\ Len(B) \in Nat
  BY <1>1 DEF Certifies
<1> SUFFICES ASSUME NEW b \in 1 .. Len(B)
             PROVE  /\ B[b] # <<>>
                    /\ \A i \in DOMAIN B[b] : B[b][i].op \in Terminators <=> i = Len(B[b])
                    /\ Targets(B[b]) \subseteq DOMAIN B \ {1}
                    /\ B[b][Len(B[b])].op = "condbr" => B[b][Len(B[b])].cond.block = b
  BY <1>2 DEF VerifierAccepts
<1> HIDE DEF B
<1>3. /\ B[b] \in Seq(IrCode) /\ Len(B[b]) \in Nat /\ Len(B[b]) >= 1 /\ B[b] # <<>>
      /\ \A i \in 1 .. Len(B[b]) :
             /\ B[b][i].op \in Terminators <=> i = Len(B[b])
             /\ Fits(ann, Len(B), b, KnownAt(B[b], ann[b], i), B[b][i])
  BY <1>1, CertifiedBlock DEF B
<1>4. DOMAIN B[b] = 1 .. Len(B[b])
  BY <1>3
<1>5. \A i \in 1 .. Len(B[b]) :
          /\ B[b][i].op = "br" => B[b][i].to \in 2 .. Len(B)
          /\ B[b][i].op = "condbr" => /\ B[b][i].then \in 2 .. Len(B)
                                      /\ B[b][i].else \in 2 .. Len(B)
                                      /\ B[b][i].cond.block = b
  BY <1>3 DEF Fits
<1>6. Targets(B[b]) \subseteq 2 .. Len(B)
  BY <1>4, <1>5 DEF Targets
<1>7. 2 .. Len(B) \subseteq DOMAIN B \ {1}
  BY <1>2
<1>8. Len(B[b]) \in 1 .. Len(B[b])
  BY <1>3
<1> QED BY <1>3, <1>4, <1>5, <1>6, <1>7, <1>8

\* The cursor is tested where it is current.
LEMMA CertifiedCurrent ==
    ASSUME RunInv
    PROVE  CursorIsCurrent
<1> SUFFICES ASSUME stage = "run", inst.op = "condbr", inst.cond.test = "edge"
             PROVE  locals.counter > 0 /\ locals.cursor = subject[locals.counter]
  BY DEF CursorIsCurrent
<1>1. PICK ann \in [Nat -> Facts] : RunsCertified(ann)
  BY DEF RunInv
<1> DEFINE B == function.blocks
           k == KnownAt(B[pc.block], ann[pc.block], pc.next)
<1>2. /\ Certifies(ann, B, {}) /\ pc.block \in 1 .. Len(B)
      /\ pc.next \in 1 .. Len(B[pc.block]) /\ IsKnown(k, locals, subject)
  BY <1>1 DEF RunsCertified
<1>3. Fits(ann, Len(B), pc.block, k, inst)
  BY <1>2, CertifiedBlock DEF inst
<1>4. k = "current"
  BY <1>3 DEF Fits
<1> QED BY <1>2, <1>4 DEF IsKnown

\* The function begins to run.
LEMMA RunStarts ==
    ASSUME MachineInv, FinishTranslate
    PROVE  RunInv'
<1>1. /\ stage = "translate" /\ instIter \in (Setup(kind) + 1) .. (Len(program) + 1)
      /\ Translated(dfa, kind, program, instIter, function)
      /\ pc = [block |-> 1, next |-> 1] /\ locals = NoVariables
      /\ instIter \notin DOMAIN program
  BY DEF MachineInv, StageInv, FinishTranslate
<1>2. PICK c \in Nat : /\ IsProgram(dfa, kind, program, c)
                       /\ Len(program) > Setup(kind)
  BY <1>1, WholeProgram DEF MachineInv
<1> DEFINE L == Len(program)
           B == function.blocks
<1>3. instIter = L + 1 /\ L \in Nat /\ (L + 1) - 1 = L
  <2>1. DOMAIN program = 1 .. L /\ L \in Nat
    BY <1>2 DEF IsProgram
  <2>2. kind \in Kinds /\ Setup(kind) \in Nat
    BY SetupFacts DEF MachineInv, ProgramInv
  <2> QED BY <1>1, <2>1, <2>2
<1>4. OpenBlocks(kind, program, instIter, function) = {}
  <2>1. Ends(program[L])
    BY <1>2 DEF IsProgram
  <2>2. ~Within(kind, program, L + 1)
    BY <1>3, <2>1 DEF Within
  <2>3. Unbegun(program, L + 1) = {}
    BY <1>3 DEF Unbegun
  <2> QED BY <1>3, <2>2, <2>3 DEF OpenBlocks, Pending
<1>5. PICK ann \in [Nat -> Facts] : Certifies(ann, B, {})
  BY <1>1, <1>4 DEF Translated, Stands
<1>6. function' = function /\ pc' = pc /\ locals' = locals /\ subject' = subject
  BY DEF FinishTranslate, call, execution
<1>7. pc'.block = 1 /\ pc'.next = 1 /\ pc' = [block |-> 1, next |-> 1]
  BY <1>1, <1>6
<1>8. 1 \in 1 .. Len(B) /\ 1 \in 1 .. Len(B[1])
  <2>1. Len(B) >= 1 /\ B \in Seq(Seq(IrCode))
    BY <1>5 DEF Certifies
  <2>2. Len(B) \in Nat
    BY <2>1
  <2> HIDE DEF B
  <2>3. 1 \in 1 .. Len(B)
    BY <2>1, <2>2
  <2> QED BY <1>5, <2>3, CertifiedBlock
<1>9. /\ KnownAt(B[1], ann[1], 1) = "any" /\ Allocates(B[1])
  BY <1>5, <1>8, EntryKnows DEF Certifies
<1>10. DOMAIN locals' = {}
  BY <1>1, <1>6 DEF NoVariables
<1>11. IsKnown("any", locals', subject')
  BY DEF IsKnown
<1>12. RunsCertified(ann)'
  BY <1>5, <1>6, <1>7, <1>8, <1>9, <1>10, <1>11 DEF RunsCertified, Allocates
<1> QED BY <1>12 DEF RunInv

\* What is known of the next instruction of a block.
LEMMA KnownNext ==
    ASSUME NEW block, NEW k, NEW i \in Nat \ {0}
    PROVE  KnownAt(block, k, i + 1) =
               IF block[i].op = "readchar" THEN "current" ELSE KnownAt(block, k, i)
<1>1. \A j : j \in 1 .. ((i + 1) - 1) <=> j = i \/ j \in 1 .. (i - 1)
  OBVIOUS
<1> QED BY <1>1 DEF KnownAt

\* What of a step within a block is to be shown.
Follows(ann) ==
    /\ DOMAIN locals \subseteq DOMAIN locals'
    /\ inst.op = "alloca" => inst.name \in DOMAIN locals'
    /\ "counter" \in DOMAIN locals' => locals'.counter \in 0 .. Len(subject)
    /\ LET k == IF inst.op = "readchar" THEN "current"
                ELSE KnownAt(function.blocks[pc.block], ann[pc.block], pc.next)
       IN  IsKnown(k, locals', subject)

LEMMA GoesOn ==
    ASSUME NEW ann \in [Nat -> Facts], RunsCertified(ann), inst.op \notin Terminators,
           GoOn, Follows(ann)
    PROVE  RunsCertified(ann)'
<1> DEFINE B == function.blocks
           b == pc.block
           i == pc.next
           block == B[b]
<1>1. /\ Certifies(ann, B, {}) /\ b \in 1 .. Len(B) /\ i \in 1 .. Len(block)
      /\ pc = [block |-> b, next |-> i]
  BY DEF RunsCertified
<1>2. /\ function' = function /\ subject' = subject
      /\ pc' = [block |-> b, next |-> i + 1] /\ pc'.block = b /\ pc'.next = i + 1
  BY <1>1 DEF GoOn, call
<1>3. /\ Len(block) \in Nat /\ block[Len(block)].op \in Terminators
      /\ inst = block[i]
  BY <1>1, CertifiedBlock DEF inst
<1>4. i + 1 \in 1 .. Len(block) /\ i \in Nat \ {0}
  <2>1. i # Len(block)
    BY <1>3
  <2> HIDE DEF i, block
  <2> QED BY <1>1, <1>3, <2>1
<1>5. KnownAt(block, ann[b], i + 1) =
          IF inst.op = "readchar" THEN "current" ELSE KnownAt(block, ann[b], i)
  BY <1>3, <1>4, KnownNext
<1>6. IsKnown(KnownAt(block, ann[b], i + 1), locals', subject)
  BY <1>5 DEF Follows
<1> DEFINE M == Len(block)
<1>7. ASSUME NEW v \in {"counter", "cursor"}
      PROVE  \/ v \in DOMAIN locals'
             \/ b = 1 /\ \E l \in (i + 1) .. M : block[l] = Alloca(v)
  <2>1. CASE v \in DOMAIN locals
    BY <2>1 DEF Follows
  <2>2. CASE b = 1 /\ \E l \in i .. M : block[l] = Alloca(v)
    <3>1. PICK l \in i .. M : block[l] = Alloca(v)
      BY <2>2
    <3>2. CASE l = i
      <4>1. inst.op = "alloca" /\ inst.name = v
        BY <1>3, <3>1, <3>2 DEF Alloca
      <4> QED BY <4>1 DEF Follows
    <3>3. CASE l # i
      <4>1. l \in (i + 1) .. M
        BY <1>3, <1>4, <3>3
      <4> QED BY <2>2, <3>1, <4>1
    <3> QED BY <3>2, <3>3
  <2> QED BY <2>1, <2>2 DEF RunsCertified
<1>8. "counter" \in DOMAIN locals' => locals'.counter \in 0 .. Len(subject)
  BY DEF Follows
<1> HIDE DEF B, b, i, block, M
<1>9. /\ pc'.block = b /\ pc'.next = i + 1 /\ pc' = [block |-> b, next |-> i + 1]
      /\ function'.blocks = B /\ function'.blocks[b] = block /\ Len(block) = M
  BY <1>2 DEF B, block, M
<1> QED BY <1>1, <1>2, <1>4, <1>6, <1>7, <1>8, <1>9 DEF RunsCertified

\* A counter short of its width does not wrap.
LEMMA NoWrap == ASSUME NEW a \in Nat, NEW m \in Nat, a < m PROVE a % m = a
OBVIOUS

\* A branch leads to the beginning of another block, all variables allocated.
LEMMA BranchesOn ==
    ASSUME NEW ann \in [Nat -> Facts], RunsCertified(ann), inst.op \in Terminators,
           NEW c \in 2 .. Len(function.blocks), BranchTo(c),
           IsKnown(ann[c], locals, subject)
    PROVE  RunsCertified(ann)'
<1> DEFINE B == function.blocks
           b == pc.block
           i == pc.next
           block == B[b]
<1>1. /\ Certifies(ann, B, {}) /\ b \in 1 .. Len(B) /\ i \in 1 .. Len(block)
  BY DEF RunsCertified
<1>2. /\ function' = function /\ subject' = subject /\ locals' = locals
      /\ pc' = [block |-> c, next |-> 1] /\ pc'.block = c /\ pc'.next = 1
  BY DEF BranchTo, call
<1>3. /\ Len(block) \in Nat /\ inst = block[i] /\ i = Len(block)
  BY <1>1, CertifiedBlock DEF inst
<1>4. c \in 1 .. Len(B) /\ 1 \in 1 .. Len(B[c])
  <2>1. c \in 1 .. Len(B)
    OBVIOUS
  <2> HIDE DEF B
  <2> QED BY <1>1, <2>1, CertifiedBlock
<1>5. ASSUME NEW v \in {"counter", "cursor"} PROVE v \in DOMAIN locals
  <2> SUFFICES ASSUME NEW l \in i .. Len(block), block[l] = Alloca(v) PROVE FALSE
    BY DEF RunsCertified
  <2>1. l = i
    BY <1>3
  <2>2. inst.op = "alloca"
    BY <1>3, <2>1 DEF Alloca
  <2> QED BY <2>2 DEF Terminators
<1>6. KnownAt(B[c], ann[c], 1) = ann[c]
  BY DEF KnownAt
<1>7. "counter" \in DOMAIN locals => locals.counter \in 0 .. Len(subject)
  BY DEF RunsCertified
<1> HIDE DEF B, b, i, block
<1>8. function'.blocks = B
  BY <1>2 DEF B
<1> QED BY <1>1, <1>2, <1>4, <1>5, <1>6, <1>7, <1>8 DEF RunsCertified

\* Each instruction executed keeps what is known true: the counter stays within
\* the subject, and moves on with the cursor.
LEMMA RunStep == MachineInv /\ RunInv /\ stage = "run" /\ Execute => RunInv'
<1> SUFFICES ASSUME MachineInv, RunInv, stage = "run", Execute PROVE RunInv'
  OBVIOUS
<1>1. PICK ann \in [Nat -> Facts] : RunsCertified(ann)
  BY DEF RunInv
<1> DEFINE B == function.blocks
           b == pc.block
           i == pc.next
           k == KnownAt(B[b], ann[b], i)
<1>2. /\ Certifies(ann, B, {}) /\ b \in 1 .. Len(B) /\ i \in 1 .. Len(B[b])
      /\ IsKnown(k, locals, subject)
      /\ "counter" \in DOMAIN locals => locals.counter \in 0 .. Len(subject)
      /\ b # 1 => "counter" \in DOMAIN locals /\ "cursor" \in DOMAIN locals
  BY <1>1 DEF RunsCertified
<1>3. Fits(ann, Len(B), b, k, inst) /\ inst \in IrCode
  BY <1>2, CertifiedBlock DEF inst
<1>4. b = 1 => k = "any"
  BY <1>2, EntryKnows
<1>5. subject \in Seq(Char) /\ Len(subject) \in Nat /\ SizeMod \in Nat /\ Len(subject) < SizeMod
  <2>1. subject \in Subjects
    BY DEF MachineInv, ProgramInv
  <2>2. subject \in Seq(Char)
    BY <2>1, SubjectsAssumption
  <2> QED BY <2>1, <2>2, SizeAssumption
<1> SUFFICES ASSUME stage' = "run" PROVE RunsCertified(ann)'
  BY DEF RunInv
<1> HIDE DEF B, b, i, k
<1>6. ASSUME inst.op \notin Terminators, inst.op # "readchar", GoOn,
             DOMAIN locals \subseteq DOMAIN locals',
             inst.op = "alloca" => inst.name \in DOMAIN locals',
             "counter" \in DOMAIN locals' => locals'.counter \in 0 .. Len(subject),
             b # 1 => locals'.counter = locals.counter /\ locals'.cursor = locals.cursor
      PROVE  RunsCertified(ann)'
  <2>1. IsKnown(k, locals', subject)
    BY <1>2, <1>4, <1>6 DEF IsKnown
  <2>2. Follows(ann)
    BY <1>6, <2>1 DEF Follows, k, B, b, i
  <2> QED BY <1>1, <1>6, <2>2, GoesOn
<1>7. CASE ExecAlloca
  <2>1. /\ inst.op = "alloca" /\ GoOn /\ locals' = WithEntry(locals, inst.name, 0)
        /\ inst.op \notin Terminators
    BY <1>7 DEF ExecAlloca, Running, Terminators
  <2>2. b = 1
    BY <1>3, <2>1 DEF Fits
  <2>3. /\ DOMAIN locals' = DOMAIN locals \cup {inst.name}
        /\ "counter" \in DOMAIN locals' => locals'.counter \in 0 .. Len(subject)
    BY <1>2, <1>5, <2>1 DEF WithEntry
  <2> QED BY <1>6, <2>1, <2>2, <2>3
<1>8. CASE ExecReadChar
  <2>1. /\ inst.op = "readchar" /\ GoOn /\ inst.op \notin Terminators
    BY <1>8 DEF ExecReadChar, Running, Terminators
  <2>2. PICK c \in ReadAt(locals.counter) :
            locals' = [locals EXCEPT !.cursor = c, !.counter = Inc(@)]
    BY <1>8 DEF ExecReadChar
  <2>3. k = "notend" /\ b # 1
    BY <1>3, <2>1 DEF Fits
  <2> DEFINE n == locals.counter
  <2>4. n \in 0 .. Len(subject) /\ n # Len(subject)
    BY <1>2, <2>3 DEF IsKnown
  <2>5. n \in Nat /\ n < Len(subject) /\ n + 1 < SizeMod /\ n + 1 \in 0 .. Len(subject)
        /\ n + 1 > 0
    BY <1>5, <2>4
  <2>6. Inc(n) = n + 1 /\ c = subject[n + 1]
    <3>1. (n + 1) % SizeMod = n + 1
      <4> HIDE DEF n
      <4> QED BY <1>5, <2>5, NoWrap
    <3> QED BY <2>5, <3>1 DEF Inc, ReadAt
  <2>7. /\ locals'.counter = Inc(n) /\ locals'.cursor = c
        /\ DOMAIN locals' = DOMAIN locals
    BY <1>2, <2>2, <2>3
  <2>8. /\ locals'.counter \in 0 .. Len(subject) /\ locals'.counter > 0
        /\ locals'.cursor = subject[locals'.counter]
    BY <2>5, <2>6, <2>7
  <2>9. Follows(ann)
    BY <2>1, <2>7, <2>8 DEF Follows, IsKnown
  <2> QED BY <1>1, <2>1, <2>9, GoesOn
<1>9. CASE ExecIncrement
  <2>1. /\ inst.op = "increment" /\ GoOn
        /\ locals' = [locals EXCEPT ![inst.name] = Inc(@)]
        /\ inst.op \notin Terminators
    BY <1>9 DEF ExecIncrement, Running, Terminators
  <2>2. inst.name = "end_pos"
    BY <1>3, <2>1
       DEF IrCode, Alloca, ReadChar, Increment, Copy, StoreOut, Ret, Br, CondBr
  <2>3. /\ DOMAIN locals' = DOMAIN locals
        /\ "counter" \in DOMAIN locals => locals'.counter = locals.counter
        /\ "cursor" \in DOMAIN locals => locals'.cursor = locals.cursor
    BY <2>1, <2>2
  <2> QED BY <1>2, <1>6, <2>1, <2>3
<1>10. CASE ExecCopy
  <2>1. /\ inst.op = "copy" /\ GoOn
        /\ locals' = [locals EXCEPT ![inst.dest] = locals[inst.source]]
        /\ inst.op \notin Terminators
    BY <1>10 DEF ExecCopy, Running, Terminators
  <2>2. inst.dest = "start_pos"
    BY <1>3, <2>1
       DEF IrCode, Alloca, ReadChar, Increment, Copy, StoreOut, Ret, Br, CondBr
  <2>3. /\ DOMAIN locals' = DOMAIN locals
        /\ "counter" \in DOMAIN locals => locals'.counter = locals.counter
        /\ "cursor" \in DOMAIN locals => locals'.cursor = locals.cursor
    BY <2>1, <2>2
  <2> QED BY <1>2, <1>6, <2>1, <2>3
<1>11. CASE ExecStoreOut
  <2>1. inst.op = "storeout" /\ GoOn /\ locals' = locals /\ inst.op \notin Terminators
    BY <1>11 DEF ExecStoreOut, Running, Terminators
  <2> QED BY <1>2, <1>6, <2>1
<1>12. CASE ExecBr
  <2>1. inst.op = "br" /\ BranchTo(inst.to) /\ inst.op \in Terminators
    BY <1>12 DEF ExecBr, Running, Terminators
  <2>2. inst.to \in 2 .. Len(B) /\ ann[inst.to] \in {"any", k}
    BY <1>3, <2>1 DEF Fits, Leads
  <2>3. IsKnown(ann[inst.to], locals, subject)
    BY <1>2, <2>2 DEF IsKnown
  <2> QED BY <1>1, <2>1, <2>2, <2>3, BranchesOn DEF B
<1>13. CASE ExecCondBr
  <2> DEFINE c == IF Holds(inst.cond) THEN inst.then ELSE inst.else
  <2>1. inst.op = "condbr" /\ BranchTo(c) /\ inst.op \in Terminators
    BY <1>13 DEF ExecCondBr, Running, Terminators
  <2>2. c \in 2 .. Len(B)
    BY <1>3, <2>1 DEF Fits
  <2>3. IsKnown(ann[c], locals, subject)
    <3>1. CASE inst.cond.test # "end"
      <4>1. ann[c] \in {"any", k}
        BY <1>3, <2>1, <3>1 DEF Fits, Leads
      <4> QED BY <1>2, <4>1 DEF IsKnown
    <3>2. CASE inst.cond.test = "end" /\ Holds(inst.cond)
      <4>1. ann[c] = "any"
        BY <1>3, <2>1, <3>2 DEF Fits, Leads
      <4> QED BY <4>1 DEF IsKnown
    <3>3. CASE inst.cond.test = "end" /\ ~Holds(inst.cond)
      <4>1. ann[c] \in {"any", "notend"}
        BY <1>3, <2>1, <3>3 DEF Fits, Leads
      <4>2. locals.counter # Len(subject)
        BY <3>3 DEF Holds
      <4> QED BY <4>1, <4>2 DEF IsKnown
    <3> QED BY <3>1, <3>2, <3>3
  <2> HIDE DEF c
  <2> QED BY <1>1, <2>1, <2>2, <2>3, BranchesOn DEF B
<1>14. CASE ExecRet
  BY <1>14 DEF ExecRet
<1> QED BY <1>7, <1>8, <1>9, <1>10, <1>11, <1>12, <1>13, <1>14 DEF Execute

\* Whatever the step, a running function obeys its annotation.
LEMMA RunKept == MachineInv /\ RunInv /\ [Next]_vars => RunInv'
<1> SUFFICES ASSUME MachineInv, RunInv, [Next]_vars PROVE RunInv'
  OBVIOUS
<1>1. CASE FinishTranslate
  BY <1>1, RunStarts
<1>2. CASE Execute
  <2>1. stage = "run"
    BY <1>2 DEF Execute, ExecAlloca, ExecReadChar, ExecIncrement, ExecCopy, ExecStoreOut,
                ExecBr, ExecCondBr, ExecRet, Running
  <2> QED BY <1>2, <2>1, RunStep
<1>3. CASE CompileState \/ FinishCompile \/ TranslateSetup \/ MakeBlocks \/ TranslateInstruction
  <2>1. stage' # "run"
    BY <1>3 DEF CompileState, FinishCompile, TranslateSetup, MakeBlocks,
                TranslateInstruction, TranslateNext
  <2> QED BY <2>1 DEF RunInv
<1>4. CASE UNCHANGED vars
  <2>1. /\ stage' = stage /\ function' = function /\ pc' = pc /\ locals' = locals
        /\ subject' = subject
    BY <1>4 DEF vars, call, execution
  <2>2. ASSUME NEW ann \in [Nat -> Facts], RunsCertified(ann) PROVE RunsCertified(ann)'
    BY <2>1, <2>2 DEF RunsCertified
  <2> QED BY <2>1, <2>2 DEF RunInv
<1> QED BY <1>1, <1>2, <1>3, <1>4 DEF Next, Ended

\* A function called is one LLVM's verifier accepts, whatever it was compiled from.
THEOREM FunctionVerifies == Spec => []VerifierAccepts
<1>1. Init => RunInv
  BY DEF Init, RunInv
<1>2. RunInv => VerifierAccepts
  <2>1. stage # "run" => VerifierAccepts
    BY DEF VerifierAccepts
  <2> QED BY <2>1, CertifiedVerifies
<1> QED BY <1>1, <1>2, Started, MachineKept, RunKept, PTL DEF Spec

\* No edge is tested against a character read before the last was counted, nor
\* past the end of the subject.
THEOREM CursorStaysCurrent == Spec => []CursorIsCurrent
<1>1. Init => RunInv
  BY DEF Init, RunInv
<1>2. RunInv => CursorIsCurrent
  BY CertifiedCurrent
<1> QED BY <1>1, <1>2, Started, MachineKept, RunKept, PTL DEF Spec

=============================================================================
