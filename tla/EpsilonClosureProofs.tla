------------------------ MODULE EpsilonClosureProofs ------------------------
(***************************************************************************)
(* Whatever the NFA, cyclic or not: if the call returns, it returns the    *)
(* least closed set.  The invariant says what the remaining work still     *)
(* owes: each state of the argument that has left `pending' is either      *)
(* closed by now or waits in the traversal in progress.                    *)
(***************************************************************************)
EXTENDS EpsilonClosure, Induction

-----------------------------------------------------------------------------
(* Closures. *)

\* The closure of a set of states holds the set, and states only.
LEMMA ClosureContains ==
    ASSUME NEW m, NEW S, S \subseteq NStates(m)
    PROVE  S \subseteq EpsilonClosure(m, S) /\ EpsilonClosure(m, S) \subseteq NStates(m)
BY DEF EpsilonClosure

\* No epsilon edge leads out of a closure.
LEMMA ClosureClosed ==
    ASSUME NEW m, IsNfa(m), NEW S
    PROVE  EpsClosed(m, EpsilonClosure(m, S))
<1> SUFFICES ASSUME NEW e \in m.eps, e[1] \in EpsilonClosure(m, S)
             PROVE  e[2] \in EpsilonClosure(m, S)
  BY DEF EpsClosed
<1>1. e[2] \in NStates(m)
  BY DEF IsNfa
<1>2. ASSUME NEW T \in SUBSET NStates(m), S \subseteq T, EpsClosed(m, T)
      PROVE  e[2] \in T
  BY <1>2 DEF EpsilonClosure, EpsClosed
<1> QED BY <1>1, <1>2 DEF EpsilonClosure

\* A closed set that holds S holds the closure of S.
LEMMA ClosureLeast ==
    ASSUME NEW m, NEW S, NEW T \in SUBSET NStates(m), S \subseteq T, EpsClosed(m, T)
    PROVE  EpsilonClosure(m, S) \subseteq T
BY DEF EpsilonClosure

-----------------------------------------------------------------------------
(* The invariant. *)

\* What the traversals ended so far have closed, and the one in progress will.
Settled ==
    \A s \in states \ pending :
        \/ EpsilonClosure(nfa, {s}) \subseteq closure
        \/ stage = "traverse" /\ s \in visited \cup Queued

Control ==
    /\ stage # "traverse" => queue = <<>>
    /\ stage = "return" => pending = {}
    /\ states \subseteq closure

IInv ==
    /\ TypeOK
    /\ OnlyReachable
    /\ NothingForgotten
    /\ Control
    /\ Settled

-----------------------------------------------------------------------------
(* The queue, and the order in which edges are iterated over. *)

\* An iteration over a finite set is a sequence of its elements, all of them.
LEMMA IterationHoldsAll ==
    ASSUME NEW S, IsFiniteSet(S), NEW order \in IterationsOf(S)
    PROVE  /\ order \in Seq(S)
           /\ {order[i] : i \in DOMAIN order} = S
<1>1. Cardinality(S) \in Nat
  BY FS_CardinalityType
<1>2. order \in [1 .. Cardinality(S) -> S]
  BY DEF IterationsOf
<1>3. order \in Seq(S)
  BY <1>1, <1>2
<1>4. DOMAIN order = 1 .. Cardinality(S)
  BY <1>2
<1>5. \A i \in DOMAIN order : order[i] \in S
  BY <1>2
<1>6. \A x \in S : \E i \in DOMAIN order : order[i] = x
  BY DEF IterationsOf
<1> QED BY <1>3, <1>5, <1>6

Elements(q) == {q[i] : i \in DOMAIN q}

\* Replacing the head of a queue by what is appended loses the head alone.
LEMMA QueueAfterVisit ==
    ASSUME NEW S, NEW q \in Seq(S), q # <<>>, NEW r \in Seq(S)
    PROVE  /\ Tail(q) \o r \in Seq(S)
           /\ Elements(Tail(q) \o r) \cup {Head(q)} = Elements(q) \cup Elements(r)
<1> DEFINE u == Tail(q) \o r
<1>1. /\ Tail(q) \in Seq(S) /\ Len(Tail(q)) = Len(q) - 1 /\ Len(q) \in Nat \ {0}
      /\ \A i \in 1 .. (Len(q) - 1) : Tail(q)[i] = q[i + 1]
      /\ Head(q) = q[1]
  OBVIOUS
<1>2. /\ u \in Seq(S) /\ Len(u) = Len(q) - 1 + Len(r)
      /\ \A i \in 1 .. (Len(q) - 1) : u[i] = q[i + 1]
      /\ \A i \in 1 .. Len(r) : u[Len(q) - 1 + i] = r[i]
  BY <1>1
<1> HIDE DEF u
<1>3. /\ DOMAIN u = 1 .. (Len(q) - 1 + Len(r)) /\ DOMAIN q = 1 .. Len(q)
      /\ DOMAIN r = 1 .. Len(r) /\ Len(r) \in Nat
  BY <1>2
<1>4. ASSUME NEW i \in DOMAIN u
      PROVE  u[i] \in {q[j] : j \in DOMAIN q} \cup {r[j] : j \in DOMAIN r}
  <2>1. CASE i \in 1 .. (Len(q) - 1)
    <3>1. u[i] = q[i + 1] /\ i + 1 \in DOMAIN q
      BY <1>1, <1>2, <1>3, <2>1
    <3> QED BY <3>1
  <2>2. CASE i \in Len(q) .. (Len(q) - 1 + Len(r))
    <3>1. i - Len(q) + 1 \in 1 .. Len(r) /\ i = Len(q) - 1 + (i - Len(q) + 1)
      BY <1>1, <1>3, <2>2
    <3>2. u[i] = r[i - Len(q) + 1]
      BY <1>2, <3>1
    <3> QED BY <1>3, <3>1, <3>2
  <2> QED BY <1>1, <1>3, <2>1, <2>2
<1>5. ASSUME NEW i \in DOMAIN q PROVE q[i] \in {u[j] : j \in DOMAIN u} \cup {Head(q)}
  <2>1. CASE i = 1
    BY <1>1, <2>1
  <2>2. CASE i \in 2 .. Len(q)
    <3>1. i - 1 \in 1 .. (Len(q) - 1) /\ i - 1 \in DOMAIN u /\ i = (i - 1) + 1
      BY <1>1, <1>3, <2>2
    <3>2. u[i - 1] = q[i]
      BY <1>2, <3>1
    <3> QED BY <3>1, <3>2
  <2> QED BY <1>3, <2>1, <2>2
<1>6. ASSUME NEW i \in DOMAIN r PROVE r[i] \in {u[j] : j \in DOMAIN u}
  <2>1. Len(q) - 1 + i \in DOMAIN u /\ u[Len(q) - 1 + i] = r[i]
    BY <1>1, <1>2, <1>3
  <2> QED BY <2>1
<1>7. Head(q) \in {q[j] : j \in DOMAIN q}
  BY <1>1, <1>3
<1>8. Elements(u) \cup {Head(q)} = Elements(q) \cup Elements(r)
  BY <1>4, <1>5, <1>6, <1>7 DEF Elements
<1> QED BY <1>2, <1>8 DEF u

\* After a visit the head has been visited and its targets are queued, and
\* nothing that was visited or queued is lost.
LEMMA AfterVisit ==
    ASSUME TypeOK, Visit
    PROVE  /\ queue' \in Seq(NStates(nfa))
           /\ Head(queue) \in Queued
           /\ visited' \cup Queued' = visited \cup Queued \cup EpsilonTargets(Head(queue))
<1> DEFINE targets == EpsilonTargets(Head(queue))
<1>1. PICK order \in IterationsOf(targets) : queue' = Tail(queue) \o order
  BY DEF Visit
<1>2. NStates(nfa) \in SUBSET Int /\ IsFiniteSet(NStates(nfa))
  <2>1. nfa.n - 1 \in Int
    BY DEF TypeOK, IsNfa
  <2> QED BY <2>1, FS_Interval DEF NStates
<1>3. targets \subseteq NStates(nfa)
  BY DEF EpsilonTargets
<1>4. IsFiniteSet(targets)
  BY <1>2, <1>3, FS_Subset
<1> HIDE DEF targets
<1>5. order \in Seq(targets) /\ {order[i] : i \in DOMAIN order} = targets
  BY <1>1, <1>4, IterationHoldsAll
<1>6. order \in Seq(NStates(nfa)) /\ queue \in Seq(NStates(nfa)) /\ queue # <<>>
  BY <1>3, <1>5 DEF TypeOK, Visit
<1>7. /\ queue' \in Seq(NStates(nfa))
      /\ Elements(queue') \cup {Head(queue)} = Elements(queue) \cup targets
  <2>1. Elements(order) = targets
    BY <1>5 DEF Elements
  <2> QED BY <1>1, <1>6, <2>1, QueueAfterVisit
<1>8. Head(queue) \in Queued
  BY <1>6 DEF Queued
<1>9. visited' = visited \cup {Head(queue)}
  BY DEF Visit
<1> QED BY <1>7, <1>8, <1>9 DEF targets, Queued, Elements

-----------------------------------------------------------------------------

\* The invariant holds when the call begins.
LEMMA InitIInv == ASSUME Init PROVE IInv
<1>1. nfa \in Nfas /\ states \subseteq NStates(nfa)
  BY DEF Init
<1>2. TypeOK
  BY <1>1, NfasAssumption DEF Init, TypeOK
<1>3. Queued = {}
  BY DEF Init, Queued
<1>4. OnlyReachable
  BY <1>1, <1>3, ClosureContains DEF Init, OnlyReachable
<1> QED BY <1>2, <1>3, <1>4 DEF Init, IInv, NothingForgotten, Control, Settled

\* A traversal that begins has its first state queued.
LEMMA BeginStep == ASSUME IInv, Begin PROVE IInv'
<1>1. PICK s \in pending : pending' = pending \ {s} /\ queue' = <<s>>
  BY DEF Begin
<1>2. /\ nfa' = nfa /\ states' = states /\ closure' = closure
      /\ visited' = {} /\ stage' = "traverse" /\ stage = "next"
  BY DEF Begin
<1>3. Queued' = {s}
  <2>1. DOMAIN <<s>> = {1} /\ <<s>>[1] = s
    OBVIOUS
  <2> QED BY <1>1, <2>1 DEF Queued
<1>4. s \in states /\ states \subseteq NStates(nfa)
  BY DEF IInv, TypeOK
<1>5. TypeOK'
  BY <1>1, <1>2, <1>4 DEF IInv, TypeOK
<1>6. OnlyReachable'
  BY <1>2, <1>3, <1>4, ClosureContains DEF IInv, OnlyReachable
<1>7. NothingForgotten'
  BY <1>2 DEF NothingForgotten
<1>8. Control'
  BY <1>2 DEF IInv, Control
<1>9. Settled'
  BY <1>1, <1>2, <1>3 DEF IInv, Settled
<1> QED BY <1>5, <1>6, <1>7, <1>8, <1>9 DEF IInv

\* A visit queues whatever the state it visits leads to.
LEMMA VisitStep == ASSUME IInv, Visit PROVE IInv'
<1> DEFINE head == Head(queue)
<1>1. /\ nfa' = nfa /\ states' = states /\ closure' = closure /\ pending' = pending
      /\ stage' = "traverse" /\ stage = "traverse" /\ visited' = visited \cup {head}
  BY DEF Visit
<1>2. /\ queue' \in Seq(NStates(nfa)) /\ head \in Queued
      /\ visited' \cup Queued' = visited \cup Queued \cup EpsilonTargets(head)
  BY AfterVisit DEF IInv
<1> HIDE DEF head
<1>3. IsNfa(nfa) /\ Queued \subseteq NStates(nfa)
  BY DEF IInv, TypeOK, Queued
<1>4. TypeOK'
  BY <1>1, <1>2, <1>3 DEF IInv, TypeOK
<1>5. OnlyReachable'
  <2>1. head \in EpsilonClosure(nfa, states)
    BY <1>2 DEF IInv, OnlyReachable
  <2>2. \A t \in EpsilonTargets(head) : t \in EpsilonClosure(nfa, states)
    <3> TAKE t \in EpsilonTargets(head)
    <3>1. <<head, t>> \in nfa.eps
      BY DEF EpsilonTargets
    <3> QED BY <1>3, <2>1, <3>1, ClosureClosed DEF EpsClosed
  <2> QED BY <1>1, <1>2, <2>2 DEF IInv, OnlyReachable
<1>6. NothingForgotten'
  <2> SUFFICES ASSUME NEW e \in nfa.eps, e[1] \in visited'
               PROVE  e[2] \in visited' \cup Queued'
    BY <1>1 DEF NothingForgotten
  <2>1. CASE e[1] \in visited
    BY <1>2, <2>1 DEF IInv, NothingForgotten
  <2>2. CASE e[1] = head
    <3>1. e = <<head, e[2]>> /\ e[2] \in NStates(nfa)
      BY <1>3, <2>2 DEF IsNfa
    <3>2. e[2] \in EpsilonTargets(head)
      BY <3>1 DEF EpsilonTargets
    <3> QED BY <1>2, <3>2
  <2> QED BY <1>1, <2>1, <2>2
<1>7. Control'
  BY <1>1 DEF IInv, Control
<1>8. Settled'
  BY <1>1, <1>2 DEF IInv, Settled
<1> QED BY <1>4, <1>5, <1>6, <1>7, <1>8 DEF IInv

\* When the queue is empty what was visited is closed.
LEMMA EndTraversalStep == ASSUME IInv, EndTraversal PROVE IInv'
<1>1. /\ nfa' = nfa /\ states' = states /\ pending' = pending /\ queue' = queue
      /\ visited' = visited /\ stage' = "next" /\ stage = "traverse"
      /\ queue = <<>> /\ closure' = closure \cup visited
  BY DEF EndTraversal, UnionOf
<1>2. Queued = {} /\ Queued' = {}
  BY <1>1 DEF Queued
<1>3. TypeOK'
  BY <1>1 DEF IInv, TypeOK
<1>4. OnlyReachable'
  BY <1>1, <1>2 DEF IInv, OnlyReachable
<1>5. NothingForgotten'
  BY <1>1, <1>2 DEF IInv, NothingForgotten
<1>6. Control'
  BY <1>1 DEF IInv, Control
<1>7. Settled'
  <2> SUFFICES ASSUME NEW s \in states \ pending
               PROVE  EpsilonClosure(nfa, {s}) \subseteq closure \cup visited
    BY <1>1 DEF Settled
  <2>1. CASE EpsilonClosure(nfa, {s}) \subseteq closure
    BY <2>1
  <2>2. CASE s \in visited
    <3>1. EpsClosed(nfa, visited)
      BY <1>2 DEF IInv, NothingForgotten, EpsClosed
    <3>2. visited \in SUBSET NStates(nfa) /\ {s} \subseteq visited
      BY <2>2 DEF IInv, TypeOK
    <3>3. EpsilonClosure(nfa, {s}) \subseteq visited
      BY <3>1, <3>2, ClosureLeast
    <3> QED BY <3>3
  <2> QED BY <1>2, <2>1, <2>2 DEF IInv, Settled
<1> QED BY <1>3, <1>4, <1>5, <1>6, <1>7 DEF IInv

\* The call returns when no state is pending.
LEMMA ReturnStep == ASSUME IInv, Return PROVE IInv'
<1>1. /\ nfa' = nfa /\ states' = states /\ pending' = pending /\ queue' = queue
      /\ visited' = visited /\ closure' = closure
      /\ stage' = "return" /\ stage = "next" /\ pending = {}
  BY DEF Return
<1>2. Queued' = Queued
  BY <1>1 DEF Queued
<1> QED BY <1>1, <1>2 DEF IInv, TypeOK, OnlyReachable, NothingForgotten, Control, Settled

\* A stuttering step changes nothing the invariant reads.
LEMMA StutterStep == ASSUME IInv, UNCHANGED vars PROVE IInv'
BY DEF IInv, TypeOK, OnlyReachable, NothingForgotten, Control, Settled, Queued, vars

\* Every step preserves the invariant.
LEMMA NextIInv == ASSUME IInv, [Next]_vars PROVE IInv'
BY BeginStep, VisitStep, EndTraversalStep, ReturnStep, StutterStep DEF Next, Returned

\* The invariant holds throughout.
LEMMA Inductive == Spec => []IInv
BY InitIInv, NextIInv, PTL DEF Spec

-----------------------------------------------------------------------------

\* The queue and the sets hold states of the NFA (nfa.cc:10-45).
THEOREM TypeCorrect == Spec => []TypeOK
<1>1. IInv => TypeOK
  BY DEF IInv
<1> QED BY <1>1, Inductive, PTL

\* No state is visited that epsilon edges do not lead to (nfa.cc:23-28).
THEOREM VisitsOnlyReachable == Spec => []OnlyReachable
<1>1. IInv => OnlyReachable
  BY DEF IInv
<1> QED BY <1>1, Inductive, PTL

\* Whatever was visited has its targets visited or queued (nfa.cc:17-29).
THEOREM ForgetsNothing == Spec => []NothingForgotten
<1>1. IInv => NothingForgotten
  BY DEF IInv
<1> QED BY <1>1, Inductive, PTL

\* A call that returns has computed the least closed set: the union of the
\* closures of single states is closed, and holds nothing else (nfa.cc:34-45).
THEOREM ReturnsTheClosure == Spec => []ClosureExact
<1>1. ASSUME IInv, stage = "return" PROVE closure = EpsilonClosure(nfa, states)
  <2> DEFINE U == UNION {EpsilonClosure(nfa, {s}) : s \in states}
  <2>1. IsNfa(nfa) /\ states \subseteq NStates(nfa)
    BY <1>1 DEF IInv, TypeOK
  <2>2. \A s \in states : EpsilonClosure(nfa, {s}) \subseteq closure
    BY <1>1 DEF IInv, Control, Settled
  <2>3. U \subseteq closure
    BY <2>2
  <2>4. states \subseteq U
    <3> SUFFICES ASSUME NEW s \in states PROVE s \in U
      OBVIOUS
    <3>1. s \in EpsilonClosure(nfa, {s})
      BY <2>1, ClosureContains
    <3> QED BY <3>1
  <2>5. U \in SUBSET NStates(nfa)
    BY DEF EpsilonClosure
  <2>6. EpsClosed(nfa, U)
    <3> SUFFICES ASSUME NEW e \in nfa.eps, e[1] \in U PROVE e[2] \in U
      BY DEF EpsClosed
    <3>1. PICK s \in states : e[1] \in EpsilonClosure(nfa, {s})
      OBVIOUS
    <3>2. e[2] \in EpsilonClosure(nfa, {s})
      BY <2>1, <3>1, ClosureClosed DEF EpsClosed
    <3> QED BY <3>2
  <2> HIDE DEF U
  <2>7. EpsilonClosure(nfa, states) \subseteq closure
    BY <2>3, <2>4, <2>5, <2>6, ClosureLeast
  <2>8. closure \subseteq EpsilonClosure(nfa, states)
    BY <1>1 DEF IInv, OnlyReachable
  <2> QED BY <2>7, <2>8
<1>2. IInv => ClosureExact
  BY <1>1 DEF ClosureExact
<1> QED BY <1>2, Inductive, PTL

=============================================================================
