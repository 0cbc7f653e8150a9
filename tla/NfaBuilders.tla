---------------------------- MODULE NfaBuilders ----------------------------
(***************************************************************************)
(* The functions that build NFAs (fa/nfa_builders.cc), as operators on the *)
(* records of Nfa.tla.  Unlike an NFA that is determinised, the value of a *)
(* builder may have no states: NFA() is what zero repetitions make.        *)
(*                                                                         *)
(* An edge is an Edge object: an epsilon edge is one without ranges, and   *)
(* TransitionTable::addEdge merges a new edge into the one that is there,  *)
(* so an epsilon edge that meets a character edge disappears.              *)
(***************************************************************************)
EXTENDS Nfa

NoStates == [n |-> 0, eps |-> {}, edges |-> <<>>]

\* What a builder returns.
IsFragment(m) == m = NoStates \/ IsNfa(m)

\* m after k calls of addState.
Grown(m, k) ==
    [n     |-> m.n + k,
     eps   |-> m.eps,
     edges |-> [s \in 0 .. (m.n + k - 1) |-> [t \in 0 .. (m.n + k - 1) |->
                   IF s < m.n /\ t < m.n THEN m.edges[s][t] ELSE {}]]]

\* m after addEdge(s, t, Edge()) for each of the pairs.
WithEpsilons(m, pairs) ==
    [m EXCEPT !.eps = @ \cup {e \in pairs : m.edges[e[1]][e[2]] = {}}]

\* Two states and an edge that accepts the characters C.
TwoStates(C) ==
    [n |-> 2, eps |-> {},
     edges |-> [s \in 0 .. 1 |-> [t \in 0 .. 1 |->
                   IF s = 0 /\ t = 1 THEN C ELSE {}]]]

Epsilon == WithEpsilons(TwoStates({}), {<<0, 1>>})

\* singleChar, characterClass and dot: what the characters of the edge are is
\* EdgeRanges.tla's matter.
CharacterClass(C) == TwoStates(C)

-----------------------------------------------------------------------------
(* concat_helper. *)

\* rightStateTranslations: the start state of the right NFA becomes `zero',
\* the others the new states from `base' on.
TranslationAfterBase(zero, base, i) == IF i = 0 THEN zero ELSE base + i
Translation(zero, base, i) == IF i = 0 THEN zero ELSE base + i - 1

\* left with the edges of right moved into it.
Moved(left, right, zero, base) ==
    LET Image == {zero} \cup {s \in NStates(left) : s >= base}
        Back(s) == IF s = zero THEN 0 ELSE s - base + 1
        edges == [s \in NStates(left) |-> [t \in NStates(left) |->
                     left.edges[s][t] \cup
                         (IF s \in Image /\ t \in Image
                          THEN right.edges[Back(s)][Back(t)] ELSE {})]]
        eps == left.eps \cup
                   {<<Translation(zero, base, e[1]), Translation(zero, base, e[2])>> :
                       e \in right.eps}
        taken == {e \in NStates(left) \X NStates(left) : edges[e[1]][e[2]] # {}}
    IN  [n |-> left.n, eps |-> eps \ taken, edges |-> edges]

\* Both NFAs have states.
Joined(left, right, leftStart, startEpsilon) ==
    IF startEpsilon
    THEN LET zero == left.n
             grown == WithEpsilons(Grown(left, right.n), {<<leftStart, zero>>})
         IN  Moved(grown, right, zero, zero + 1)
    ELSE Moved(Grown(left, right.n - 1), right, leftStart, left.n)

ConcatHelper(left, right, leftStart, startEpsilon) ==
    IF right.n = 0 THEN left
    ELSE IF left.n = 0 THEN right
    ELSE Joined(left, right, leftStart, startEpsilon)

-----------------------------------------------------------------------------
(* The combinators. *)

Concat(left, right) == ConcatHelper(left, right, NStop(left), FALSE)

\* nfas is not empty.
ConcatMany(nfas) ==
    LET total[k \in 1 .. Len(nfas)] ==
            IF k = 1 THEN nfas[1] ELSE Concat(total[k - 1], nfas[k])
    IN  total[Len(nfas)]

\* The branches hang off one start state; branch k ends where the NFA ends
\* after it was added.
FinalsOfLast(alter, k) == {NStop(alter[k])}
Finals(alter, k) == {NStop(alter[i]) : i \in 1 .. k}

Alternation(nfas) ==
    LET one == [n |-> 1, eps |-> {}, edges |-> [s \in {0} |-> [t \in {0} |-> {}]]]
        alter[k \in 0 .. Len(nfas)] ==
            IF k = 0 THEN one ELSE ConcatHelper(alter[k - 1], nfas[k], NStart, TRUE)
        all == alter[Len(nfas)]
    IN  IF Len(nfas) = 1 THEN nfas[1]
        ELSE WithEpsilons(Grown(all, 1), {<<s, all.n>> : s \in Finals(alter, Len(nfas))})

\* The edges star adds around the NFA it encloses.
StarEdgesRequired(end, final) == {<<end, 1>>, <<end, final>>}
StarEdgesInside(end, final) == {<<end, 1>>, <<1, end>>, <<end, final>>}
StarEdges(end, final) == {<<end, 1>>, <<NStart, final>>, <<end, final>>}

Star(m) ==
    LET one == [n |-> 1, eps |-> {}, edges |-> [s \in {0} |-> [t \in {0} |-> {}]]]
        star == ConcatHelper(one, m, NStart, TRUE)
    IN  WithEpsilons(Grown(star, 1), StarEdges(NStop(star), star.n))

Plus(m) == Concat(m, Star(m))

QuestionMark(m) == Alternation(<<Epsilon, m>>)

\* k copies in a row.
Copies(m, k) ==
    LET branch[i \in 0 .. k] == IF i = 0 THEN NoStates ELSE Concat(branch[i - 1], m)
    IN  branch[k]

NumberBounded(m, lower, higher) ==
    LET quantified[k \in lower .. higher] ==
            IF k = lower THEN Copies(m, lower)
            ELSE Alternation(<<quantified[k - 1], Copies(m, k)>>)
    IN  quantified[higher]

-----------------------------------------------------------------------------
(* How NFA::simulate would decide a word, by sets of states: the closure   *)
(* and the language of Nfa.tla in a form that can be computed for NFAs of  *)
(* twenty states.                                                          *)

Closed(m, S) ==
    LET close[T \in SUBSET NStates(m)] ==
            LET U == T \cup {e[2] : e \in {d \in m.eps : d[1] \in T}}
            IN  IF U = T THEN T ELSE close[U]
    IN  close[S]

\* The states m may be in after the word w.
After(m, w) ==
    LET states[k \in 0 .. Len(w)] ==
            IF k = 0 THEN Closed(m, {NStart})
            ELSE Closed(m, Move(m, states[k - 1], w[k]))
    IN  states[Len(w)]

\* Those of the words that m accepts; an NFA without states has no language.
LanguageOf(m, words) == IF m.n = 0 THEN {} ELSE {w \in words : NStop(m) \in After(m, w)}

=============================================================================
