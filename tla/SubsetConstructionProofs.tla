----------------------- MODULE SubsetConstructionProofs -----------------------
(***************************************************************************)
(* The theorems about SubsetConstruction, for every set of NFAs.           *)
(*                                                                         *)
(* The inductive invariant is the conjunction of the properties of the     *)
(* table under construction with two more facts: nothing is left to do     *)
(* once the construction is done, and the start set has number 0.          *)
(* TranslationsExact makes the numbers of two sets differ, so a new edge   *)
(* disturbs the row of the set in process alone; QueuedOnce makes a set    *)
(* lose its place in the queue when it is popped, so its row is empty      *)
(* then.                                                                   *)
(***************************************************************************)
EXTENDS SubsetConstruction, Induction

-----------------------------------------------------------------------------
(* Closures. *)

\* The closure of a set of states holds the set, and states only.
LEMMA ClosureContains ==
    ASSUME NEW m, NEW S, S \subseteq NStates(m)
    PROVE  S \subseteq EpsilonClosure(m, S) /\ EpsilonClosure(m, S) \subseteq NStates(m)
BY DEF EpsilonClosure

\* No epsilon edge leads out of a closure.
LEMMA ClosureClosed ==
    ASSUME NEW m, IsNfa(m), NEW S
    PROVE  EpsClosed(m, EpsilonClosure(m, S))
<1> SUFFICES ASSUME NEW e \in m.eps, e[1] \in EpsilonClosure(m, S)
             PROVE  e[2] \in EpsilonClosure(m, S)
  BY DEF EpsClosed
<1>1. e[2] \in NStates(m)
  BY DEF IsNfa
<1>2. ASSUME NEW T \in SUBSET NStates(m), S \subseteq T, EpsClosed(m, T)
      PROVE  e[2] \in T
  BY <1>2 DEF EpsilonClosure, EpsClosed
<1> QED BY <1>1, <1>2 DEF EpsilonClosure

\* A closed set that holds S holds the closure of S.
LEMMA ClosureLeast ==
    ASSUME NEW m, NEW S, NEW T \in SUBSET NStates(m), S \subseteq T, EpsClosed(m, T)
    PROVE  EpsilonClosure(m, S) \subseteq T
BY DEF EpsilonClosure

\* The closure of the empty set is empty.
LEMMA ClosureOfNone ==
    ASSUME NEW m PROVE EpsilonClosure(m, {}) = {}
<1>1. EpsClosed(m, {})
  BY DEF EpsClosed
<1> QED BY <1>1, ClosureLeast

\* A larger set has a larger closure.
LEMMA ClosureMonotonic ==
    ASSUME NEW m, NEW S, NEW T, S \subseteq T
    PROVE  EpsilonClosure(m, S) \subseteq EpsilonClosure(m, T)
BY DEF EpsilonClosure

\* The states reached over c from s alone.
MoveFrom(m, s, c) == {q \in NStates(m) : c \in m.edges[s][q]}

\* What one state reaches over c, the set it stands in reaches.
LEMMA StepSetContains ==
    ASSUME NEW m, NEW S, NEW s \in S, NEW c
    PROVE  EpsilonClosure(m, MoveFrom(m, s, c)) \subseteq StepSet(m, S, c)
<1>1. MoveFrom(m, s, c) \subseteq Move(m, S, c)
  BY DEF MoveFrom, Move
<1> QED BY <1>1, ClosureMonotonic DEF StepSet

\* What a set of states is moved to is reached from one state of it.
LEMMA StepSetFrom ==
    ASSUME NEW m, IsNfa(m), NEW S, NEW c, NEW q \in StepSet(m, S, c)
    PROVE  \E s \in S : q \in EpsilonClosure(m, MoveFrom(m, s, c))
<1> DEFINE U == {r \in NStates(m) : \E s \in S : r \in EpsilonClosure(m, MoveFrom(m, s, c))}
<1>1. ASSUME NEW r \in Move(m, S, c) PROVE r \in U
  <2>1. PICK s \in S : c \in m.edges[s][r]
    BY DEF Move
  <2>2. r \in MoveFrom(m, s, c) /\ r \in NStates(m)
    BY <2>1 DEF MoveFrom, Move
  <2>3. MoveFrom(m, s, c) \subseteq NStates(m)
    BY DEF MoveFrom
  <2>4. r \in EpsilonClosure(m, MoveFrom(m, s, c))
    BY <2>2, <2>3, ClosureContains
  <2> QED BY <2>2, <2>4
<1>2. EpsClosed(m, U)
  <2> SUFFICES ASSUME NEW e \in m.eps, e[1] \in U PROVE e[2] \in U
    BY DEF EpsClosed
  <2>1. PICK s \in S : e[1] \in EpsilonClosure(m, MoveFrom(m, s, c))
    OBVIOUS
  <2>2. e[2] \in EpsilonClosure(m, MoveFrom(m, s, c))
    BY <2>1, ClosureClosed DEF EpsClosed
  <2> QED BY <2>2 DEF IsNfa
<1>3. Move(m, S, c) \subseteq U
  BY <1>1
<1>4. U \in SUBSET NStates(m)
  OBVIOUS
<1> HIDE DEF U
<1>5. EpsilonClosure(m, Move(m, S, c)) \subseteq U
  BY <1>2, <1>3, <1>4, ClosureLeast
<1>6. q \in U
  BY <1>5 DEF StepSet
<1> QED BY <1>6 DEF U

\* A step leads to states of the NFA.
LEMMA StepSetInStates ==
    ASSUME NEW m, NEW S, NEW c
    PROVE  StepSet(m, S, c) \subseteq NStates(m)
BY DEF StepSet, EpsilonClosure

\* A character off every edge, or the empty set, leads nowhere.
LEMMA StepSetEmpty ==
    ASSUME NEW m, NEW S, NEW c, Move(m, S, c) = {}
    PROVE  StepSet(m, S, c) = {}
BY ClosureOfNone DEF StepSet

-----------------------------------------------------------------------------
(* Runs. *)

\* p is a run of m over the first k characters of w.
IsNRunTo(m, w, k, p) ==
    /\ p[0] \in EpsilonClosure(m, {NStart})
    /\ \A i \in 1 .. k : p[i] \in EpsilonClosure(m, MoveFrom(m, p[i - 1], w[i]))

NReaches(m, w, k, q) ==
    \E p \in [0 .. k -> NStates(m)] : IsNRunTo(m, w, k, p) /\ p[k] = q

\* The empty word leads to the closure of the start state.
LEMMA NReachesStart ==
    ASSUME NEW m, NEW w, NEW q \in EpsilonClosure(m, {NStart})
    PROVE  NReaches(m, w, 0, q)
<1> DEFINE p == [i \in 0 .. 0 |-> q]
<1>1. q \in NStates(m)
  BY DEF EpsilonClosure
<1>2. p \in [0 .. 0 -> NStates(m)] /\ p[0] = q
  BY <1>1
<1>3. IsNRunTo(m, w, 0, p)
  BY <1>2 DEF IsNRunTo
<1> QED BY <1>2, <1>3 DEF NReaches

\* One more character extends a run by a state it leads to.
LEMMA NReachesNext ==
    ASSUME NEW m, NEW w, NEW k \in Nat, NEW s, NReaches(m, w, k, s),
           NEW q \in EpsilonClosure(m, MoveFrom(m, s, w[k + 1]))
    PROVE  NReaches(m, w, k + 1, q)
<1>1. PICK p \in [0 .. k -> NStates(m)] : IsNRunTo(m, w, k, p) /\ p[k] = s
  BY DEF NReaches
<1> DEFINE r == [i \in 0 .. (k + 1) |-> IF i = k + 1 THEN q ELSE p[i]]
<1>2. q \in NStates(m)
  BY DEF EpsilonClosure
<1>3. r \in [0 .. (k + 1) -> NStates(m)] /\ r[k + 1] = q
  BY <1>1, <1>2
<1>4. \A i \in 0 .. k : r[i] = p[i]
  OBVIOUS
<1> HIDE DEF r
<1>5. ASSUME NEW i \in 1 .. (k + 1)
      PROVE  r[i] \in EpsilonClosure(m, MoveFrom(m, r[i - 1], w[i]))
  <2>1. CASE i = k + 1
    <3>1. r[i] = q /\ r[i - 1] = s /\ w[i] = w[k + 1]
      BY <1>1, <1>3, <1>4, <2>1
    <3> QED BY <3>1
  <2>2. CASE i \in 1 .. k
    <3>1. r[i] = p[i] /\ r[i - 1] = p[i - 1]
      BY <1>4, <2>2
    <3> QED BY <1>1, <2>2, <3>1 DEF IsNRunTo
  <2> QED BY <2>1, <2>2
<1>6. r[0] \in EpsilonClosure(m, {NStart})
  BY <1>1, <1>4 DEF IsNRunTo
<1> QED BY <1>3, <1>5, <1>6 DEF NReaches, IsNRunTo

\* What one more character has led to comes from where the characters before led.
LEMMA NReachesLast ==
    ASSUME NEW m, NEW w, NEW k \in Nat, NEW q, NReaches(m, w, k + 1, q)
    PROVE  \E s \in NStates(m) :
               NReaches(m, w, k, s) /\ q \in EpsilonClosure(m, MoveFrom(m, s, w[k + 1]))
<1>1. PICK p \in [0 .. (k + 1) -> NStates(m)] : IsNRunTo(m, w, k + 1, p) /\ p[k + 1] = q
  BY DEF NReaches
<1> DEFINE r == [i \in 0 .. k |-> p[i]]
<1>2. r \in [0 .. k -> NStates(m)] /\ r[k] = p[k] /\ p[k] \in NStates(m)
  BY <1>1
<1>3. \A i \in 0 .. k : r[i] = p[i]
  OBVIOUS
<1> HIDE DEF r
<1>4. IsNRunTo(m, w, k, r)
  <2>1. ASSUME NEW i \in 1 .. k
        PROVE  r[i] \in EpsilonClosure(m, MoveFrom(m, r[i - 1], w[i]))
    <3>1. r[i] = p[i] /\ r[i - 1] = p[i - 1] /\ i \in 1 .. (k + 1)
      BY <1>3
    <3> QED BY <1>1, <3>1 DEF IsNRunTo
  <2>2. r[0] \in EpsilonClosure(m, {NStart})
    BY <1>1, <1>3 DEF IsNRunTo
  <2> QED BY <2>1, <2>2 DEF IsNRunTo
<1>5. q \in EpsilonClosure(m, MoveFrom(m, p[k], w[k + 1]))
  <2>1. k + 1 \in 1 .. (k + 1) /\ (k + 1) - 1 = k
    OBVIOUS
  <2> QED BY <1>1, <2>1 DEF IsNRunTo
<1> QED BY <1>2, <1>4, <1>5 DEF NReaches

\* A word is accepted if it leads to the stop state.
LEMMA NAcceptsReaches ==
    ASSUME NEW m, NEW w
    PROVE  NAccepts(m, w) <=> NReaches(m, w, Len(w), NStop(m))
BY DEF NAccepts, NReaches, IsNRun, IsNRunTo, MoveFrom

-----------------------------------------------------------------------------
(* The invariant. *)

IInv ==
    /\ TypeOK
    /\ TranslationsExact
    /\ AcceptExact
    /\ QueuedOnce
    /\ EdgesExact
    /\ done => queue = <<>> /\ current = {}
    /\ First(nfa) \in Discovered /\ translations[First(nfa)] = 0

-----------------------------------------------------------------------------
(* The start. *)

\* The construction begins with a set of states that is closed and not empty.
LEMMA FirstFacts ==
    ASSUME NEW m, IsNfa(m)
    PROVE  /\ First(m) \in SUBSET NStates(m)
           /\ First(m) # {}
           /\ EpsClosed(m, First(m))
<1>1. {NStart} \subseteq NStates(m)
  BY DEF NStart, NStates, IsNfa
<1>2. {NStart} \subseteq First(m) /\ First(m) \subseteq NStates(m)
  BY <1>1, ClosureContains DEF First
<1>3. EpsClosed(m, First(m))
  BY ClosureClosed DEF First
<1> QED BY <1>2, <1>3

\* The invariant holds when the construction begins.
LEMMA InitInv == Init => IInv
<1> SUFFICES ASSUME Init PROVE IInv
  OBVIOUS
<1>1. IsNfa(nfa)
  BY NfasAssumption DEF Init
<1> DEFINE F == First(nfa)
<1>2. F \in SUBSET NStates(nfa) /\ F # {} /\ EpsClosed(nfa, F)
  BY <1>1, FirstFacts
<1> HIDE DEF F
<1>3. /\ translations = [S \in {F} |-> 0]
      /\ queue = <<F>> /\ current = {} /\ todo = {} /\ count = 1
      /\ edges = [s \in {0} |-> [t \in {0} |-> {}]]
      /\ acceptStates = AcceptOf(F, 0) /\ done = FALSE
  BY DEF Init, F
<1>4. Discovered = {F} /\ translations[F] = 0
  BY <1>3 DEF Discovered
<1>5. 0 .. (count - 1) = {0}
  BY <1>3
<1>6. TypeOK
  <2>1. translations \in [Discovered -> 0 .. (count - 1)]
    BY <1>3, <1>4, <1>5
  <2>2. edges \in [0 .. (count - 1) -> [0 .. (count - 1) -> SUBSET Char]]
    BY <1>3, <1>5
  <2>3. acceptStates \subseteq 0 .. (count - 1)
    BY <1>3, <1>5 DEF AcceptOf
  <2>4. queue \in Seq(Discovered)
    BY <1>3, <1>4
  <2>5. Discovered \subseteq SUBSET NStates(nfa)
    BY <1>2, <1>4
  <2>6. count \in Nat \ {0}
    BY <1>3
  <2>7. current \in Discovered \cup {{}} /\ todo \subseteq LanguageChars(nfa)
    BY <1>3
  <2>8. done \in BOOLEAN
    BY <1>3
  <2> QED BY <1>1, <2>1, <2>2, <2>3, <2>4, <2>5, <2>6, <2>7, <2>8 DEF TypeOK
<1>7. TranslationsExact
  BY <1>2, <1>4, <1>5 DEF TranslationsExact
<1>8. AcceptExact
  BY <1>3, <1>4 DEF AcceptExact, AcceptOf
<1>9. QueuedOnce
  BY <1>3 DEF QueuedOnce
<1>10. EdgesExact
  <2>1. InQueue(F)
    BY <1>3 DEF InQueue
  <2>2. \A t \in 0 .. (count - 1) : edges[0][t] = {}
    BY <1>3, <1>5
  <2> QED BY <1>4, <2>1, <2>2 DEF EdgesExact, Handled
<1> QED BY <1>3, <1>4, <1>6, <1>7, <1>8, <1>9, <1>10 DEF IInv, F

-----------------------------------------------------------------------------
(* The steps. *)

\* Taking a set from the queue keeps the invariant.
LEMMA PopInv == IInv /\ Pop => IInv'
<1> SUFFICES ASSUME IInv, Pop PROVE IInv'
  OBVIOUS
<1> USE DEF IInv
<1> DEFINE H == Head(queue)
<1>1. /\ H \in Discovered /\ H # {} /\ InQueue(H)
      /\ queue' = Tail(queue) /\ current' = H
      /\ todo' = LanguageChars(nfa)
      /\ translations' = translations /\ edges' = edges /\ count' = count
      /\ nfa' = nfa /\ acceptStates' = acceptStates /\ ~done /\ done' = done
      /\ current = {}
  BY DEF Pop, Rest, TypeOK, TranslationsExact, InQueue
<1>2. Discovered' = Discovered
  BY <1>1 DEF Discovered
<1>3. \A S : InQueue(S)' <=> InQueue(S) /\ S # H
  <2>1. Len(queue) \in Nat /\ queue # <<>> /\ queue \in Seq(Discovered)
    BY DEF Pop, TypeOK
  <2>2. /\ Tail(queue) \in Seq(Discovered) /\ Len(Tail(queue)) = Len(queue) - 1
        /\ \A i \in 1 .. Len(Tail(queue)) : Tail(queue)[i] = queue[i + 1]
        /\ DOMAIN queue = 1 .. Len(queue) /\ DOMAIN Tail(queue) = 1 .. Len(Tail(queue))
        /\ H = queue[1] /\ 1 \in DOMAIN queue
    BY <2>1
  <2>3. \A i \in DOMAIN queue : i # 1 => queue[i] # H
    BY <2>2 DEF QueuedOnce
  <2>4. ASSUME NEW S, NEW i \in DOMAIN Tail(queue), Tail(queue)[i] = S
        PROVE  InQueue(S) /\ S # H
    <3>1. i + 1 \in DOMAIN queue /\ i + 1 # 1 /\ queue[i + 1] = S
      BY <2>1, <2>2, <2>4
    <3> QED BY <3>1, <2>3 DEF InQueue
  <2>5. ASSUME NEW S, NEW i \in DOMAIN queue, queue[i] = S, S # H
        PROVE  \E j \in DOMAIN Tail(queue) : Tail(queue)[j] = S
    <3>1. i - 1 \in DOMAIN Tail(queue) /\ Tail(queue)[i - 1] = queue[(i - 1) + 1]
      BY <2>1, <2>2, <2>5
    <3> QED BY <3>1, <2>1, <2>2, <2>5
  <2> QED BY <1>1, <2>4, <2>5 DEF InQueue
<1>4. TypeOK'
  <2>1. queue' \in Seq(Discovered)
    BY <1>1 DEF TypeOK, Pop
  <2> QED BY <1>1, <1>2, <2>1 DEF TypeOK
<1>5. QueuedOnce'
  <2>1. queue \in Seq(Discovered) /\ queue # <<>> /\ Len(queue) \in Nat
    BY DEF TypeOK, Pop
  <2>2. /\ Len(Tail(queue)) = Len(queue) - 1
        /\ \A i \in 1 .. Len(Tail(queue)) : Tail(queue)[i] = queue[i + 1]
        /\ DOMAIN queue = 1 .. Len(queue) /\ DOMAIN Tail(queue) = 1 .. Len(Tail(queue))
    BY <2>1
  <2>3. ASSUME NEW i \in DOMAIN Tail(queue), NEW j \in DOMAIN Tail(queue),
               Tail(queue)[i] = Tail(queue)[j]
        PROVE  i = j
    <3>1. i + 1 \in DOMAIN queue /\ j + 1 \in DOMAIN queue /\ queue[i + 1] = queue[j + 1]
      BY <2>1, <2>2, <2>3
    <3>2. i + 1 = j + 1
      BY <3>1 DEF QueuedOnce
    <3> QED BY <3>2, <2>1, <2>2
  <2> QED BY <1>1, <1>3, <2>3 DEF QueuedOnce
<1>6. EdgesExact'
  <2>1. ASSUME NEW S \in Discovered, NEW c PROVE Handled(S, c)' <=> Handled(S, c)
    <3>1. S # {}
      BY DEF TranslationsExact
    <3>2. CASE S = H
      BY <1>1, <1>3, <3>2 DEF Handled
    <3>3. CASE S # H
      BY <1>1, <1>3, <3>1, <3>3 DEF Handled
    <3> QED BY <3>2, <3>3
  <2> QED BY <1>1, <1>2, <2>1 DEF EdgesExact
<1>7. TranslationsExact' /\ AcceptExact'
  BY <1>1, <1>2 DEF TranslationsExact, AcceptExact
<1> QED BY <1>1, <1>2, <1>4, <1>5, <1>6, <1>7

\* A state is done when every character of the alphabet has been tried.
LEMMA FinishStateInv == IInv /\ FinishState => IInv'
<1> SUFFICES ASSUME IInv, FinishState PROVE IInv'
  OBVIOUS
<1>1. /\ current' = {} /\ current # {} /\ todo = {} /\ todo' = {}
      /\ UNCHANGED <<nfa, translations, queue, count, edges, acceptStates, done>>
  BY DEF FinishState
<1>2. Discovered' = Discovered /\ \A S : InQueue(S)' <=> InQueue(S)
  BY <1>1 DEF Discovered, InQueue
<1>3. EdgesExact'
  <2>1. ASSUME NEW S \in Discovered, NEW c \in Char
        PROVE  Handled(S, c)' <=> Handled(S, c)
    BY <1>1, <1>2 DEF Handled, IInv, TranslationsExact
  <2> QED BY <1>1, <1>2, <2>1 DEF EdgesExact, IInv
<1> QED BY <1>1, <1>2, <1>3
        DEF IInv, TypeOK, TranslationsExact, AcceptExact, QueuedOnce

\* The construction ends with an empty queue.
LEMMA FinishInv == IInv /\ Finish => IInv'
<1> SUFFICES ASSUME IInv, Finish PROVE IInv'
  OBVIOUS
<1>1. /\ done' = TRUE /\ current = {} /\ queue = <<>>
      /\ UNCHANGED <<nfa, translations, queue, current, todo, count, edges, acceptStates>>
  BY DEF Finish
<1>2. Discovered' = Discovered /\ \A S, c : Handled(S, c)' <=> Handled(S, c)
  BY <1>1 DEF Discovered, Handled, InQueue
<1> QED BY <1>1, <1>2
        DEF IInv, TypeOK, TranslationsExact, AcceptExact, QueuedOnce, EdgesExact, InQueue

\* Moving the set in process by c handles that pair and no other, as long as
\* what is appended to the queue was not discovered before.
LEMMA HandledNext ==
    ASSUME IInv, current # {}, NEW c \in todo,
           todo' = todo \ {c}, current' = current, nfa' = nfa,
           \A S \in Discovered : InQueue(S)' <=> InQueue(S)
    PROVE  /\ current \in Discovered /\ c \in LanguageChars(nfa) /\ c \in Char
           /\ ~Handled(current, c)
           /\ \A S \in Discovered : \A d :
                  Handled(S, d)' <=> Handled(S, d) \/ (S = current /\ d = c)
<1>1. current \in Discovered /\ c \in LanguageChars(nfa) /\ ~InQueue(current)
  BY DEF IInv, TypeOK, QueuedOnce
<1>2. c \in Char
  BY <1>1 DEF LanguageChars
<1>3. ~Handled(current, c)
  BY DEF Handled
<1>4. ASSUME NEW S \in Discovered, NEW d
      PROVE  Handled(S, d)' <=> Handled(S, d) \/ (S = current /\ d = c)
  <2>1. CASE S = current
    BY <1>1, <2>1 DEF Handled
  <2>2. CASE S # current
    BY <1>1, <2>2 DEF Handled
  <2> QED BY <2>1, <2>2
<1> QED BY <1>1, <1>2, <1>3, <1>4

\* A character that leads nowhere is skipped: no edge is missing for it.
LEMMA SkipCharInv ==
    ASSUME IInv, current # {}, NEW c \in todo, todo' = todo \ {c}, SkipChar(c)
    PROVE  IInv'
<1>1. /\ StepSet(nfa, current, c) = {}
      /\ UNCHANGED <<nfa, translations, queue, current, count, edges, acceptStates, done>>
  BY DEF SkipChar
<1>2. Discovered' = Discovered /\ \A S : InQueue(S)' <=> InQueue(S)
  BY <1>1 DEF Discovered, InQueue
<1>3. EdgesExact'
  <2>1. ASSUME NEW S \in Discovered, NEW d \in Char, Handled(S, d)', StepSet(nfa, S, d) # {}
        PROVE  Handled(S, d)
    BY <1>1, <1>2, <2>1, HandledNext
  <2>2. ASSUME NEW S \in Discovered, NEW d \in Char, Handled(S, d)
        PROVE  Handled(S, d)'
    BY <1>1, <1>2, <2>2, HandledNext
  <2> QED BY <1>1, <1>2, <2>1, <2>2 DEF EdgesExact, IInv
<1>4. TypeOK' /\ TranslationsExact' /\ AcceptExact' /\ QueuedOnce'
  BY <1>1, <1>2 DEF IInv, TypeOK, TranslationsExact, AcceptExact, QueuedOnce
<1> QED BY <1>1, <1>2, <1>3, <1>4 DEF IInv

\* An edge to a set that has its number keeps the invariant.
LEMMA ExistingStateInv ==
    ASSUME IInv, current # {}, NEW c \in todo, todo' = todo \ {c}, ExistingState(c)
    PROVE  IInv'
<1> DEFINE D == StepSet(nfa, current, c)
           row == translations[current]
           col == translations[D]
<1>1. /\ D \in Discovered
      /\ edges' = AddEdge(edges, col, c)
      /\ UNCHANGED <<nfa, translations, queue, current, count, acceptStates, done>>
  BY DEF ExistingState
<1>2. Discovered' = Discovered /\ \A S : InQueue(S)' <=> InQueue(S)
  BY <1>1 DEF Discovered, InQueue
<1>3. current \in Discovered /\ c \in Char /\ c \in LanguageChars(nfa)
  BY <1>1, <1>2, HandledNext
<1>4. /\ translations \in [Discovered -> 0 .. (count - 1)]
      /\ edges \in [0 .. (count - 1) -> [0 .. (count - 1) -> SUBSET Char]]
      /\ count \in Nat \ {0}
  BY DEF IInv, TypeOK
<1>5. row \in 0 .. (count - 1) /\ col \in 0 .. (count - 1)
  BY <1>1, <1>3, <1>4
<1>6. \A s, t \in 0 .. (count - 1) :
          edges'[s][t] = IF s = row /\ t = col THEN edges[s][t] \cup {c} ELSE edges[s][t]
  BY <1>1, <1>4, <1>5 DEF AddEdge
<1>7. edges' \in [0 .. (count - 1) -> [0 .. (count - 1) -> SUBSET Char]]
  BY <1>1, <1>3, <1>4, <1>5 DEF AddEdge
<1>8. \A S \in Discovered : translations[S] = row => S = current
  BY <1>3 DEF IInv, TranslationsExact
<1>9. EdgesExact'
  <2> SUFFICES ASSUME NEW S \in Discovered, NEW d \in Char
               PROVE  LET T == StepSet(nfa, S, d)
                      IN  IF Handled(S, d)' /\ T # {}
                          THEN /\ T \in Discovered
                               /\ \A t \in 0 .. (count - 1) :
                                     d \in edges'[translations[S]][t] <=> t = translations[T]
                          ELSE \A t \in 0 .. (count - 1) : d \notin edges'[translations[S]][t]
    BY <1>1, <1>2 DEF EdgesExact
  <2>1. translations[S] \in 0 .. (count - 1)
    BY <1>4
  <2>2. D # {}
    BY <1>1 DEF IInv, TranslationsExact
  <2>3. CASE S = current /\ d = c
    <3>1. Handled(S, d)'
      BY <1>1, <1>2, <2>3, HandledNext
    <3>2. ~Handled(S, d)
      BY <1>1, <1>2, <2>3, HandledNext
    <3>3. \A t \in 0 .. (count - 1) : d \notin edges[row][t]
      BY <2>3, <3>2 DEF IInv, EdgesExact
    <3>4. \A t \in 0 .. (count - 1) : d \in edges'[row][t] <=> t = col
      BY <1>5, <1>6, <2>3, <3>3
    <3> QED BY <1>1, <2>2, <2>3, <3>1, <3>4
  <2>4. CASE ~(S = current /\ d = c)
    <3>1. Handled(S, d)' <=> Handled(S, d)
      BY <1>1, <1>2, <2>4, HandledNext
    <3>2. \A t \in 0 .. (count - 1) :
              d \in edges'[translations[S]][t] <=> d \in edges[translations[S]][t]
      <4>1. CASE S = current
        <5>1. d # c /\ \A X : d \in X \cup {c} <=> d \in X
          BY <2>4, <4>1
        <5>2. \A t \in 0 .. (count - 1) :
                  edges'[translations[S]][t] \in
                      {edges[translations[S]][t], edges[translations[S]][t] \cup {c}}
          BY <1>6, <2>1
        <5> QED BY <5>1, <5>2
      <4>2. CASE S # current
        <5>1. translations[S] # row
          BY <1>8, <4>2
        <5> QED BY <1>6, <2>1, <5>1
      <4> QED BY <4>1, <4>2
    <3> QED BY <3>1, <3>2 DEF IInv, EdgesExact
  <2> QED BY <2>3, <2>4
<1>10. TypeOK'
  <2>1. todo' \subseteq LanguageChars(nfa)
    BY DEF IInv, TypeOK
  <2> QED BY <1>1, <1>2, <1>7, <2>1 DEF IInv, TypeOK
<1>11. TranslationsExact' /\ AcceptExact' /\ QueuedOnce'
  BY <1>1, <1>2 DEF IInv, TranslationsExact, AcceptExact, QueuedOnce
<1> QED BY <1>1, <1>2, <1>9, <1>10, <1>11 DEF IInv

\* A new set gets the next number, a place in the queue and its edge.
LEMMA NewStateInv ==
    ASSUME IInv, current # {}, NEW c \in todo, todo' = todo \ {c}, NewState(c)
    PROVE  IInv'
<1> DEFINE D == StepSet(nfa, current, c)
           row == translations[current]
<1>1. /\ D # {} /\ D \notin Discovered
      /\ translations' = [T \in Discovered \cup {D} |-> IF T = D THEN count ELSE translations[T]]
      /\ acceptStates' = acceptStates \cup AcceptOf(D, count)
      /\ queue' = Append(queue, D)
      /\ edges' = AddEdge(WithState(edges, count), count, c)
      /\ count' = count + 1
      /\ UNCHANGED <<nfa, current, done>>
  BY DEF NewState, NextNumber
<1>2. /\ translations \in [Discovered -> 0 .. (count - 1)]
      /\ edges \in [0 .. (count - 1) -> [0 .. (count - 1) -> SUBSET Char]]
      /\ count \in Nat \ {0} /\ queue \in Seq(Discovered)
      /\ acceptStates \subseteq 0 .. (count - 1)
      /\ current \in Discovered \cup {{}}
  BY DEF IInv, TypeOK
<1>3. /\ Discovered' = Discovered \cup {D}
      /\ translations'[D] = count
      /\ \A S \in Discovered : translations'[S] = translations[S] /\ S # D
  BY <1>1 DEF Discovered
<1>4. \A S : InQueue(S)' <=> InQueue(S) \/ S = D
  <2>1. /\ Len(queue) \in Nat /\ DOMAIN queue = 1 .. Len(queue)
        /\ DOMAIN queue' = 1 .. (Len(queue) + 1)
        /\ \A i \in 1 .. Len(queue) : queue'[i] = queue[i]
        /\ queue'[Len(queue) + 1] = D
    BY <1>1, <1>2
  <2> QED BY <2>1 DEF InQueue
<1>5. \A S \in Discovered : InQueue(S)' <=> InQueue(S)
  BY <1>3, <1>4
<1>6. current \in Discovered /\ c \in Char /\ row \in 0 .. (count - 1)
  <2>1. current \in Discovered /\ c \in Char
    BY <1>1, <1>5, HandledNext
  <2> QED BY <1>2, <2>1
<1>7. 0 .. (count' - 1) = (0 .. (count - 1)) \cup {count}
  BY <1>1, <1>2
<1> DEFINE W == WithState(edges, count)
<1>8. /\ W \in [0 .. (count' - 1) -> [0 .. (count' - 1) -> SUBSET Char]]
      /\ \A s, t \in 0 .. (count' - 1) :
             W[s][t] = IF s = count \/ t = count THEN {} ELSE edges[s][t]
  <2>1. DOMAIN edges = 0 .. (count - 1)
    BY <1>2
  <2>2. W = [s \in 0 .. (count' - 1) |-> [t \in 0 .. (count' - 1) |->
                IF s = count \/ t = count THEN {} ELSE edges[s][t]]]
    BY <1>7, <2>1 DEF WithState
  <2> HIDE DEF W
  <2>3. ASSUME NEW s \in 0 .. (count' - 1), NEW t \in 0 .. (count' - 1)
        PROVE  /\ W[s][t] = IF s = count \/ t = count THEN {} ELSE edges[s][t]
               /\ W[s][t] \subseteq Char
    <3>1. W[s][t] = IF s = count \/ t = count THEN {} ELSE edges[s][t]
      BY <2>2
    <3>2. s # count /\ t # count => s \in 0 .. (count - 1) /\ t \in 0 .. (count - 1)
      BY <1>7
    <3> QED BY <1>2, <3>1, <3>2
  <2> QED BY <2>2, <2>3
<1>9. edges' = [W EXCEPT ![row][count] = @ \cup {c}]
  BY <1>1 DEF AddEdge
<1> HIDE DEF W
<1>10. row \in 0 .. (count' - 1) /\ count \in 0 .. (count' - 1) /\ row # count
  BY <1>6, <1>7, <1>2
<1>11. edges' \in [0 .. (count' - 1) -> [0 .. (count' - 1) -> SUBSET Char]]
  BY <1>6, <1>8, <1>9, <1>10
<1>12. \A s, t \in 0 .. (count' - 1) :
           edges'[s][t] = IF s = row /\ t = count THEN {c}
                          ELSE IF s = count \/ t = count THEN {} ELSE edges[s][t]
  <2>1. \A s, t \in 0 .. (count' - 1) :
            edges'[s][t] = IF s = row /\ t = count THEN W[s][t] \cup {c} ELSE W[s][t]
    BY <1>8, <1>9, <1>10
  <2>2. W[row][count] \cup {c} = {c}
    BY <1>8, <1>10
  <2>3. ASSUME NEW s \in 0 .. (count' - 1), NEW t \in 0 .. (count' - 1)
        PROVE  edges'[s][t] = IF s = row /\ t = count THEN {c}
                              ELSE IF s = count \/ t = count THEN {} ELSE edges[s][t]
    <3>1. CASE s = row /\ t = count
      BY <2>1, <2>2, <3>1
    <3>2. CASE ~(s = row /\ t = count)
      <4>1. edges'[s][t] = W[s][t]
        BY <2>1, <3>2
      <4>2. W[s][t] = IF s = count \/ t = count THEN {} ELSE edges[s][t]
        BY <1>8
      <4> QED BY <3>2, <4>1, <4>2
    <3> QED BY <3>1, <3>2
  <2> QED BY <2>3
<1>13. \A S \in Discovered : translations[S] = row => S = current
  BY <1>6 DEF IInv, TranslationsExact
<1>14. \A S \in Discovered : \A d :
           Handled(S, d)' <=> Handled(S, d) \/ (S = current /\ d = c)
  BY <1>1, <1>5, HandledNext
<1>15. \A S \in Discovered : translations[S] \in 0 .. (count - 1)
  BY <1>2
<1>16. EdgesExact'
  <2>0. nfa' = nfa
    BY <1>1
  <2> SUFFICES ASSUME NEW S \in Discovered', NEW d \in Char
               PROVE  LET T == StepSet(nfa, S, d)
                      IN  IF Handled(S, d)' /\ T # {}
                          THEN /\ T \in Discovered'
                               /\ \A t \in 0 .. (count' - 1) :
                                     d \in edges'[translations'[S]][t] <=> t = translations'[T]
                          ELSE \A t \in 0 .. (count' - 1) : d \notin edges'[translations'[S]][t]
    BY <2>0, Zenon DEF EdgesExact
  <2>1. CASE S = D
    <3>1. ~Handled(S, d)'
      BY <1>4, <2>1 DEF Handled
    <3>2. \A t \in 0 .. (count' - 1) : edges'[count][t] = {}
      BY <1>10, <1>12
    <3> QED BY <1>3, <2>1, <3>1, <3>2
  <2>2. CASE S = current /\ d = c
    <3>1. \A t \in 0 .. (count - 1) : d \notin edges[row][t]
      BY <1>1, <1>5, <1>6, <2>2, HandledNext DEF IInv, EdgesExact
    <3>2. \A t \in 0 .. (count' - 1) : d \in edges'[row][t] <=> t = count
      BY <1>7, <1>10, <1>12, <2>2, <3>1
    <3> QED BY <1>1, <1>3, <1>6, <1>14, <2>2, <3>2
  <2>3. CASE S \in Discovered /\ ~(S = current /\ d = c)
    <3>1. Handled(S, d)' <=> Handled(S, d)
      BY <1>14, <2>3
    <3>2. translations'[S] = translations[S] /\ translations[S] \in 0 .. (count - 1)
      BY <1>3, <1>15, <2>3
    <3>3. d \notin edges'[translations[S]][count]
      <4>1. S # current => translations[S] # row
        BY <1>13, <2>3
      <4>2. S = current => d # c
        BY <2>3
      <4> QED BY <1>7, <1>10, <1>12, <3>2, <4>1, <4>2
    <3>4. \A t \in 0 .. (count - 1) : edges'[translations[S]][t] = edges[translations[S]][t]
      <4>1. count \notin 0 .. (count - 1)
        BY <1>2
      <4> QED BY <1>7, <1>12, <3>2, <4>1
    <3>5. CASE Handled(S, d) /\ StepSet(nfa, S, d) # {}
      <4>1. /\ StepSet(nfa, S, d) \in Discovered
            /\ \A t \in 0 .. (count - 1) :
                   d \in edges[translations[S]][t] <=> t = translations[StepSet(nfa, S, d)]
        BY <2>3, <3>5 DEF IInv, EdgesExact
      <4>2. /\ translations'[StepSet(nfa, S, d)] = translations[StepSet(nfa, S, d)]
            /\ translations[StepSet(nfa, S, d)] # count
        BY <1>2, <1>3, <1>15, <4>1
      <4>3. \A t \in 0 .. (count' - 1) :
                d \in edges'[translations'[S]][t] <=> t = translations'[StepSet(nfa, S, d)]
        BY <1>7, <3>2, <3>3, <3>4, <4>1, <4>2
      <4> QED BY <1>3, <3>1, <3>5, <4>1, <4>3
    <3>6. CASE ~(Handled(S, d) /\ StepSet(nfa, S, d) # {})
      <4>1. \A t \in 0 .. (count - 1) : d \notin edges[translations[S]][t]
        BY <2>3, <3>6 DEF IInv, EdgesExact
      <4>2. \A t \in 0 .. (count' - 1) : d \notin edges'[translations'[S]][t]
        BY <1>7, <3>2, <3>3, <3>4, <4>1
      <4> QED BY <3>1, <3>6, <4>2
    <3> QED BY <3>5, <3>6
  <2> QED BY <1>3, <2>1, <2>2, <2>3
<1>17. D \in SUBSET NStates(nfa) /\ EpsClosed(nfa, D)
  BY StepSetInStates, ClosureClosed DEF IInv, TypeOK, StepSet
<1>18. TypeOK'
  <2>1. translations' \in [Discovered' -> 0 .. (count' - 1)]
    BY <1>1, <1>2, <1>3, <1>7
  <2>2. Discovered' \subseteq SUBSET NStates(nfa) /\ todo' \subseteq LanguageChars(nfa)
    BY <1>3, <1>17 DEF IInv, TypeOK
  <2>3. queue' \in Seq(Discovered')
    BY <1>1, <1>2, <1>3
  <2>4. acceptStates' \subseteq 0 .. (count' - 1)
    BY <1>1, <1>2, <1>7 DEF AcceptOf
  <2>5. count' \in Nat \ {0} /\ current' \in Discovered' \cup {{}}
    BY <1>1, <1>2, <1>3
  <2> QED BY <1>1, <1>11, <2>1, <2>2, <2>3, <2>4, <2>5 DEF IInv, TypeOK
<1>19. TranslationsExact'
  <2>1. ASSUME NEW S \in Discovered', NEW T \in Discovered', translations'[S] = translations'[T]
        PROVE  S = T
    <3>1. \A U \in Discovered : translations'[U] # count
      BY <1>2, <1>3, <1>15
    <3> QED BY <1>3, <2>1, <3>1 DEF IInv, TranslationsExact
  <2>2. ASSUME NEW s \in 0 .. (count' - 1)
        PROVE  \E S \in Discovered' : translations'[S] = s
    BY <1>3, <1>7 DEF IInv, TranslationsExact
  <2>3. \A S \in Discovered' : S # {} /\ EpsClosed(nfa', S)
    BY <1>1, <1>3, <1>17 DEF IInv, TranslationsExact
  <2> QED BY <2>1, <2>2, <2>3 DEF TranslationsExact
<1>20. AcceptExact'
  <2>1. ASSUME NEW S \in Discovered
        PROVE  translations'[S] \in acceptStates' <=> NStop(nfa) \in S
    <3>1. translations[S] # count
      BY <1>2, <1>15
    <3>2. translations'[S] \in acceptStates' <=> translations[S] \in acceptStates
      BY <1>1, <1>3, <3>1 DEF AcceptOf
    <3> QED BY <3>2 DEF IInv, AcceptExact
  <2>2. count \in acceptStates' <=> NStop(nfa) \in D
    <3>1. count \notin acceptStates
      BY <1>2
    <3> QED BY <1>1, <3>1 DEF AcceptOf
  <2> QED BY <1>1, <1>3, <2>1, <2>2 DEF AcceptExact
<1>21. QueuedOnce'
  <2>1. /\ Len(queue) \in Nat /\ DOMAIN queue = 1 .. Len(queue)
        /\ DOMAIN queue' = 1 .. (Len(queue) + 1)
        /\ \A i \in 1 .. Len(queue) : queue'[i] = queue[i]
        /\ queue'[Len(queue) + 1] = D
    BY <1>1, <1>2
  <2>2. \A i \in 1 .. Len(queue) : queue[i] # D
    BY <1>1, <1>2
  <2>3. ASSUME NEW i \in DOMAIN queue', NEW j \in DOMAIN queue', queue'[i] = queue'[j]
        PROVE  i = j
    <3>1. CASE i \in 1 .. Len(queue) /\ j \in 1 .. Len(queue)
      BY <2>1, <2>3, <3>1 DEF IInv, QueuedOnce
    <3>2. CASE ~(i \in 1 .. Len(queue) /\ j \in 1 .. Len(queue))
      BY <2>1, <2>2, <2>3, <3>2
    <3> QED BY <3>1, <3>2
  <2>4. ~InQueue(current)'
    BY <1>1, <1>3, <1>4, <1>6 DEF IInv, QueuedOnce, InQueue
  <2> QED BY <2>3, <2>4 DEF QueuedOnce
<1>22. (done => queue = <<>> /\ current = {})'
  BY <1>1 DEF IInv
<1>23. (First(nfa) \in Discovered /\ translations[First(nfa)] = 0)'
  BY <1>1, <1>3 DEF IInv
<1> QED BY <1>16, <1>18, <1>19, <1>20, <1>21, <1>22, <1>23 DEF IInv

\* Every step preserves the invariant.
LEMMA StepInv == IInv /\ [Next]_vars => IInv'
<1> SUFFICES ASSUME IInv, [Next]_vars PROVE IInv'
  OBVIOUS
<1>1. CASE Pop
  BY <1>1, PopInv
<1>2. CASE ProcessChar
  <2>1. PICK c \in todo : todo' = todo \ {c} /\ (SkipChar(c) \/ ExistingState(c) \/ NewState(c))
    BY <1>2 DEF ProcessChar
  <2>2. current # {}
    BY <1>2 DEF ProcessChar
  <2>3. CASE SkipChar(c)
    BY <2>1, <2>2, <2>3, SkipCharInv
  <2>4. CASE ExistingState(c)
    BY <2>1, <2>2, <2>4, ExistingStateInv
  <2>5. CASE NewState(c)
    BY <2>1, <2>2, <2>5, NewStateInv
  <2> QED BY <2>1, <2>3, <2>4, <2>5
<1>3. CASE FinishState
  BY <1>3, FinishStateInv
<1>4. CASE Finish
  BY <1>4, FinishInv
<1>5. CASE UNCHANGED vars
  <2>1. /\ UNCHANGED <<nfa, translations, queue, current, todo>>
        /\ UNCHANGED <<count, edges, acceptStates, done>>
    BY <1>5 DEF vars
  <2>2. Discovered' = Discovered /\ \A S, c : Handled(S, c)' <=> Handled(S, c)
    BY <2>1 DEF Discovered, Handled, InQueue
  <2>3. TypeOK' /\ TranslationsExact' /\ AcceptExact' /\ QueuedOnce'
    BY <2>1, <2>2
       DEF IInv, TypeOK, TranslationsExact, AcceptExact, QueuedOnce, InQueue
  <2>4. EdgesExact'
    BY <2>1, <2>2 DEF IInv, EdgesExact
  <2> QED BY <2>1, <2>2, <2>3, <2>4 DEF IInv
<1> QED BY <1>1, <1>2, <1>3, <1>4, <1>5 DEF Next, Finished

\* The invariant holds throughout.
LEMMA Inv == Spec => []IInv
BY InitInv, StepInv, PTL DEF Spec

-----------------------------------------------------------------------------
(* The table. *)

\* The variables of DFA::DFA keep their types: states are numbered 0 .. count-1
\* without a gap, and the table has a row and a column for each.
THEOREM TypeCorrect == Spec => []TypeOK
<1>1. IInv => TypeOK
  BY DEF IInv
<1> QED BY <1>1, Inv, PTL

\* However the characters are ordered, equal sets of NFA states share a number
\* and different ones do not.
THEOREM OneStatePerSet == Spec => []TranslationsExact
<1>1. IInv => TranslationsExact
  BY DEF IInv
<1> QED BY <1>1, Inv, PTL

\* The accept states are those whose sets hold the stop state of the NFA.
THEOREM AcceptStatesExact == Spec => []AcceptExact
<1>1. IInv => AcceptExact
  BY DEF IInv
<1> QED BY <1>1, Inv, PTL

\* No set is queued twice or while it is in process.
THEOREM SetsQueuedOnce == Spec => []QueuedOnce
<1>1. IInv => QueuedOnce
  BY DEF IInv
<1> QED BY <1>1, Inv, PTL

\* A character merged into the table makes exactly the transition of the NFA.
THEOREM TransitionsExact == Spec => []EdgesExact
<1>1. IInv => EdgesExact
  BY DEF IInv
<1> QED BY <1>1, Inv, PTL

\* The row of a set has at most one edge with a given character.
LEMMA OneEdgePerChar ==
    ASSUME IInv, NEW S \in Discovered, NEW d \in Char,
           NEW t \in 0 .. (count - 1), d \in edges[translations[S]][t]
    PROVE  /\ StepSet(nfa, S, d) \in Discovered
           /\ t = translations[StepSet(nfa, S, d)]
BY DEF IInv, EdgesExact

\* The table built so far is a deterministic automaton.
LEMMA UsableInv == IInv => DfaUsable
<1> SUFFICES ASSUME IInv PROVE DfaUsable
  OBVIOUS
<1>1. Dfa.n = count /\ Dfa.edges = edges /\ Dfa.accept = acceptStates
  BY DEF Dfa
<1>2. Machine!WellFormed(Dfa)
  BY <1>1 DEF Machine!WellFormed, Machine!States, IInv, TypeOK
<1>3. ASSUME NEW s \in 0 .. (count - 1), NEW t \in 0 .. (count - 1),
             NEW u \in 0 .. (count - 1), NEW d \in edges[s][t], d \in edges[s][u]
      PROVE  t = u
  <2>1. PICK S \in Discovered : translations[S] = s
    BY DEF IInv, TranslationsExact
  <2>2. d \in Char
    BY DEF IInv, TypeOK
  <2> QED BY <1>3, <2>1, <2>2, OneEdgePerChar
<1>4. Machine!Deterministic(Dfa)
  BY <1>1, <1>3 DEF Machine!Deterministic, Machine!States
<1> QED BY <1>2, <1>4 DEF DfaUsable

\* What Matcher assumes of a machine (MachinesAssumption) holds of every DFA the
\* constructor builds, and at every moment of its construction.
THEOREM DfaIsUsable == Spec => []DfaUsable
BY UsableInv, Inv, PTL

-----------------------------------------------------------------------------
(* The language. *)

\* When the constructor returns, every set has been moved by every character.
LEMMA TableDone ==
    ASSUME IInv, done, NEW S \in Discovered, NEW c \in Char, c \notin Skipped
    PROVE  /\ StepSet(nfa, S, c) # {} => StepSet(nfa, S, c) \in Discovered
           /\ \A t \in 0 .. (count - 1) :
                  c \in edges[translations[S]][t] <=>
                      /\ StepSet(nfa, S, c) \in Discovered
                      /\ t = translations[StepSet(nfa, S, c)]
<1>1. S # {} /\ {} \notin Discovered /\ S \subseteq NStates(nfa)
  BY DEF IInv, TranslationsExact, TypeOK
<1>2. CASE c \in LanguageChars(nfa)
  <2>1. Handled(S, c)
    BY <1>1, <1>2 DEF IInv, Handled, InQueue
  <2> QED BY <1>1, <2>1 DEF IInv, EdgesExact
<1>3. CASE c \notin LanguageChars(nfa)
  <2>1. Move(nfa, S, c) = {}
    BY <1>1, <1>3 DEF Move, LanguageChars
  <2>2. StepSet(nfa, S, c) = {}
    BY <2>1, StepSetEmpty
  <2> QED BY <1>1, <2>2 DEF IInv, EdgesExact
<1> QED BY <1>2, <1>3

\* Every state of the NFA in the set a run of the DFA has reached is reached by
\* a run of the NFA.
LEMMA DfaRunIsNfaRun ==
    ASSUME IInv, NEW w \in Seq(Char),
           NEW P \in Machine!Runs(Dfa, w, 0, Len(w)),
           NEW S \in Discovered, translations[S] = P[Len(w)], NEW q \in S
    PROVE  NReaches(nfa, w, Len(w), q)
<1> DEFINE n == Len(w)
           K == {k \in 0 .. n : \A T \in Discovered : translations[T] = P[k] =>
                                    \A r \in T : NReaches(nfa, w, k, r)}
<1>1. n \in Nat /\ \A k \in 1 .. n : w[k] \in Char
  OBVIOUS
<1>2. /\ P \in [0 .. n -> 0 .. (count - 1)] /\ P[0] = 0
      /\ \A k \in 0 .. (n - 1) : w[k + 1] \in edges[P[k]][P[k + 1]]
  BY DEF Machine!Runs, Machine!IsRun, Machine!States, Machine!StartState, Dfa
<1>3. 0 \in K
  <2>1. ASSUME NEW T \in Discovered, translations[T] = P[0], NEW r \in T
        PROVE  NReaches(nfa, w, 0, r)
    <3>1. T = First(nfa)
      BY <1>2, <2>1 DEF IInv, TranslationsExact
    <3> QED BY <2>1, <3>1, NReachesStart DEF First
  <2> QED BY <1>1, <2>1
<1>4. ASSUME NEW k \in 0 .. (n - 1), k \in K PROVE k + 1 \in K
  <2>1. ASSUME NEW T \in Discovered, translations[T] = P[k + 1], NEW r \in T
        PROVE  NReaches(nfa, w, k + 1, r)
    <3>1. k \in 0 .. n /\ k + 1 \in 0 .. n /\ k + 1 \in 1 .. n
      BY <1>1
    <3>2. PICK U \in Discovered : translations[U] = P[k]
      BY <1>2, <3>1 DEF IInv, TranslationsExact
    <3>3. w[k + 1] \in edges[translations[U]][P[k + 1]]
      BY <1>2, <3>2
    <3>4. T = StepSet(nfa, U, w[k + 1])
      <4>1. w[k + 1] \in Char /\ P[k + 1] \in 0 .. (count - 1)
        BY <1>1, <1>2, <3>1
      <4>2. /\ StepSet(nfa, U, w[k + 1]) \in Discovered
            /\ translations[T] = translations[StepSet(nfa, U, w[k + 1])]
        BY <2>1, <3>3, <4>1, OneEdgePerChar
      <4> QED BY <4>2 DEF IInv, TranslationsExact
    <3>5. PICK s \in U : r \in EpsilonClosure(nfa, MoveFrom(nfa, s, w[k + 1]))
      BY <2>1, <3>4, StepSetFrom DEF IInv, TypeOK
    <3>6. NReaches(nfa, w, k, s)
      BY <1>4, <3>2
    <3> QED BY <3>1, <3>5, <3>6, NReachesNext
  <2> QED BY <1>1, <2>1
<1> HIDE DEF K
<1>5. n \in K
  <2>1. \A k \in 0 .. (n - 1) : k \in K => k + 1 \in K
    BY <1>4
  <2> HIDE DEF n
  <2>2. 0 .. n \subseteq K
    BY <1>1, <1>3, <2>1, UpTo
  <2> QED BY <1>1, <2>2
<1> QED BY <1>5 DEF K

\* A run of the NFA stays in the sets of a run of the DFA.
LEMMA NfaRunIsDfaRun ==
    ASSUME IInv, done, NEW w \in Seq(Char), \A k \in DOMAIN w : w[k] \notin Skipped,
           NEW p \in [0 .. Len(w) -> NStates(nfa)], IsNRunTo(nfa, w, Len(w), p)
    PROVE  \E P \in Machine!Runs(Dfa, w, 0, Len(w)), S \in Discovered :
               translations[S] = P[Len(w)] /\ p[Len(w)] \in S
<1> DEFINE n == Len(w)
           DRuns(k) == Machine!Runs(Dfa, w, 0, k)
           K == {k \in 0 .. n : \E P \in DRuns(k), S \in Discovered :
                                    translations[S] = P[k] /\ p[k] \in S}
<1>1. n \in Nat /\ \A k \in 1 .. n : w[k] \in Char /\ w[k] \notin Skipped
  OBVIOUS
<1>2. \A k, P : P \in DRuns(k) <=>
          /\ P \in [0 .. k -> 0 .. (count - 1)] /\ P[0] = 0
          /\ \A i \in 0 .. (k - 1) : w[i + 1] \in edges[P[i]][P[i + 1]]
  BY DEF Machine!Runs, Machine!IsRun, Machine!States, Machine!StartState, Dfa
<1> HIDE DEF DRuns
<1>3. 0 \in K
  <2> DEFINE P0 == [k \in 0 .. 0 |-> 0]
  <2>1. P0 \in DRuns(0)
    <3>1. P0 \in [0 .. 0 -> 0 .. (count - 1)]
      BY DEF IInv, TypeOK
    <3>2. P0[0] = 0 /\ \A i \in 0 .. (0 - 1) : FALSE
      OBVIOUS
    <3> QED BY <1>2, <3>1, <3>2
  <2>2. First(nfa) \in Discovered /\ translations[First(nfa)] = P0[0]
    BY DEF IInv
  <2>3. p[0] \in First(nfa)
    BY DEF IsNRunTo, First
  <2> QED BY <1>1, <2>1, <2>2, <2>3
<1>4. ASSUME NEW k \in 0 .. (n - 1), k \in K PROVE k + 1 \in K
  <2>1. k \in Nat /\ k + 1 \in 0 .. n /\ k + 1 \in 1 .. n
    BY <1>1
  <2>2. PICK P \in DRuns(k), S \in Discovered : translations[S] = P[k] /\ p[k] \in S
    BY <1>4
  <2> DEFINE c == w[k + 1]
             T == StepSet(nfa, S, c)
             t == translations[T]
             Q == [i \in 0 .. (k + 1) |-> IF i = k + 1 THEN t ELSE P[i]]
  <2>3. p[k + 1] \in T
    <3>1. p[k + 1] \in EpsilonClosure(nfa, MoveFrom(nfa, p[(k + 1) - 1], w[k + 1]))
      BY <2>1 DEF IsNRunTo
    <3>2. p[(k + 1) - 1] = p[k]
      BY <2>1
    <3> QED BY <2>2, <3>1, <3>2, StepSetContains
  <2>4. c \in Char /\ c \notin Skipped
    BY <1>1, <2>1
  <2>5. T \in Discovered
    BY <2>3, <2>4, TableDone
  <2>6. t \in 0 .. (count - 1)
    BY <2>5 DEF IInv, TypeOK
  <2>7. c \in edges[P[k]][t]
    BY <2>2, <2>4, <2>5, <2>6, TableDone
  <2>8. /\ P \in [0 .. k -> 0 .. (count - 1)] /\ P[0] = 0
        /\ \A i \in 0 .. (k - 1) : w[i + 1] \in edges[P[i]][P[i + 1]]
    BY <1>2, <2>2
  <2> HIDE DEF c, T, t
  <2>9. /\ Q \in [0 .. (k + 1) -> 0 .. (count - 1)]
        /\ Q[k + 1] = t /\ \A i \in 0 .. k : Q[i] = P[i]
    BY <2>1, <2>6, <2>8
  <2> HIDE DEF Q
  <2>10. ASSUME NEW i \in 0 .. k PROVE w[i + 1] \in edges[Q[i]][Q[i + 1]]
    <3>1. CASE i = k
      <4>1. Q[i] = P[k] /\ Q[i + 1] = t /\ w[i + 1] = c
        BY <2>1, <2>9, <3>1 DEF c
      <4> QED BY <2>7, <4>1
    <3>2. CASE i \in 0 .. (k - 1)
      <4>1. Q[i] = P[i] /\ Q[i + 1] = P[i + 1]
        BY <2>1, <2>9, <3>2
      <4> QED BY <2>8, <3>2, <4>1
    <3> QED BY <2>1, <3>1, <3>2
  <2>11. Q[0] = 0 /\ (k + 1) - 1 = k
    BY <2>1, <2>8, <2>9
  <2>12. Q \in DRuns(k + 1)
    BY <1>2, <2>9, <2>10, <2>11
  <2>13. translations[T] = Q[k + 1]
    BY <2>9 DEF t
  <2> QED BY <2>1, <2>3, <2>5, <2>12, <2>13
<1> HIDE DEF K
<1>5. n \in K
  <2>1. \A k \in 0 .. (n - 1) : k \in K => k + 1 \in K
    BY <1>4
  <2> HIDE DEF n
  <2>2. 0 .. n \subseteq K
    BY <1>1, <1>3, <2>1, UpTo
  <2> QED BY <1>1, <2>2
<1> QED BY <1>5 DEF K, DRuns

\* When the constructor returns, the DFA and the NFA accept the same strings.
LEMMA LanguageInv == IInv => LanguagePreserved
<1> SUFFICES ASSUME IInv, done, NEW w \in Subjects, \A k \in DOMAIN w : w[k] \notin Skipped
             PROVE  Machine!Accepts(Dfa, w, 0, Len(w)) <=> NAccepts(nfa, w)
  BY DEF LanguagePreserved
<1>1. w \in Seq(Char) /\ Len(w) \in Nat
  BY SubjectsAssumption
<1>2. ASSUME Machine!Accepts(Dfa, w, 0, Len(w)) PROVE NAccepts(nfa, w)
  <2>1. PICK P \in Machine!Runs(Dfa, w, 0, Len(w)) : P[Len(w)] \in acceptStates
    BY <1>2 DEF Machine!Accepts, Dfa
  <2>2. PICK S \in Discovered : translations[S] = P[Len(w)]
    BY <2>1 DEF IInv, TypeOK, TranslationsExact
  <2>3. NStop(nfa) \in S
    BY <2>1, <2>2 DEF IInv, AcceptExact
  <2>4. NReaches(nfa, w, Len(w), NStop(nfa))
    BY <1>1, <2>1, <2>2, <2>3, DfaRunIsNfaRun
  <2> QED BY <2>4, NAcceptsReaches
<1>3. ASSUME NAccepts(nfa, w) PROVE Machine!Accepts(Dfa, w, 0, Len(w))
  <2>1. PICK p \in [0 .. Len(w) -> NStates(nfa)] :
            IsNRunTo(nfa, w, Len(w), p) /\ p[Len(w)] = NStop(nfa)
    BY <1>3, NAcceptsReaches DEF NReaches
  <2>2. PICK P \in Machine!Runs(Dfa, w, 0, Len(w)), S \in Discovered :
            translations[S] = P[Len(w)] /\ p[Len(w)] \in S
    BY <1>1, <2>1, NfaRunIsDfaRun
  <2>3. P[Len(w)] \in acceptStates
    BY <2>1, <2>2 DEF IInv, AcceptExact
  <2> QED BY <2>2, <2>3 DEF Machine!Accepts, Dfa
<1> QED BY <1>2, <1>3

\* Every NFA is determinized rightly: over the characters languageChars lists,
\* the DFA the constructor returns accepts the strings the NFA accepts.
THEOREM DfaAcceptsTheLanguage == Spec => []LanguagePreserved
BY LanguageInv, Inv, PTL

-----------------------------------------------------------------------------
(* Dead leaves. *)

\* A set from which no character of the language leads anywhere, and which is
\* closed, is left by no edge of the NFA: were the stop state outside it, the
\* states outside would hold all that leads to the stop state.
LEMMA ClosedTrap ==
    ASSUME NEW m, IsNfa(m), Trim(m), NEW S \in SUBSET NStates(m), S # {},
           EpsClosed(m, S),
           \A c \in Char \ Skipped : StepSet(m, S, c) = {}
    PROVE  NStop(m) \in S
<1> SUFFICES ASSUME NStop(m) \notin S PROVE FALSE
  OBVIOUS
<1> DEFINE R == NStates(m) \ S
<1>1. NStop(m) \in R
  BY DEF IsNfa, NStop, NStates
<1>2. ASSUME NEW s \in S, NEW t \in R PROVE <<s, t>> \notin m.eps
  BY <1>2 DEF EpsClosed
<1>3. ASSUME NEW s \in S, NEW t \in R, NEW c \in m.edges[s][t], c \notin Skipped
      PROVE  FALSE
  <2>1. c \in Char /\ t \in NStates(m)
    BY <1>3 DEF IsNfa
  <2>2. t \in Move(m, S, c) /\ Move(m, S, c) \subseteq NStates(m)
    BY <1>3, <2>1 DEF Move
  <2>3. t \in StepSet(m, S, c)
    BY <2>2, ClosureContains DEF StepSet
  <2> QED BY <1>3, <2>1, <2>3
<1>4. \A s \in NStates(m), t \in R :
          <<s, t>> \in m.eps \/ m.edges[s][t] \ Skipped # {} => s \in R
  BY <1>2, <1>3
<1>5. R = NStates(m)
  <2>1. R \in SUBSET NStates(m)
    OBVIOUS
  <2> HIDE DEF R
  <2> QED BY <1>1, <1>4, <2>1 DEF Trim
<1> QED BY <1>5

\* When the constructor returns, no leaf of the DFA of such an NFA rejects.
LEMMA LiveInv == IInv => LiveNfaLiveDfa
<1> SUFFICES ASSUME IInv, done, Trim(nfa), NEW s \in 0 .. (count - 1),
                    \A t \in 0 .. (count - 1) : edges[s][t] = {}
             PROVE  s \in acceptStates
  BY DEF LiveNfaLiveDfa, Dfa, Machine!NoDeadLeaf, Machine!DeadLeaf, Machine!IsLeaf,
         Machine!IsAcceptState, Machine!States
<1>1. PICK S \in Discovered : translations[S] = s
  BY DEF IInv, TranslationsExact
<1>2. IsNfa(nfa) /\ S \in SUBSET NStates(nfa) /\ S # {} /\ EpsClosed(nfa, S)
  BY DEF IInv, TranslationsExact, TypeOK
<1>3. ASSUME NEW c \in Char \ Skipped PROVE StepSet(nfa, S, c) = {}
  <2>1. ASSUME StepSet(nfa, S, c) # {} PROVE FALSE
    <3> DEFINE t == translations[StepSet(nfa, S, c)]
    <3>1. StepSet(nfa, S, c) \in Discovered
      BY <2>1, TableDone
    <3>2. t \in 0 .. (count - 1)
      BY <3>1 DEF IInv, TypeOK
    <3>3. c \in edges[translations[S]][t]
      BY <3>1, <3>2, TableDone
    <3> QED BY <1>1, <3>2, <3>3
  <2> QED BY <2>1
<1>4. NStop(nfa) \in S
  BY <1>2, <1>3, ClosedTrap
<1> QED BY <1>1, <1>4 DEF IInv, AcceptExact

\* Of an NFA every state of which leads to the stop state over characters of
\* the language, the constructor makes a DFA on which the hazards of Matcher
\* do not arise: no leaf of it rejects.
THEOREM NoDeadLeafMade == Spec => []LiveNfaLiveDfa
BY LiveInv, Inv, PTL

=============================================================================
