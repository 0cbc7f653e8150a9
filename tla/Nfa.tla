-------------------------------- MODULE Nfa --------------------------------
(***************************************************************************)
(* The nondeterministic automata Thompson's construction builds            *)
(* (fa/nfa.h, fa/transition_table.h).                                      *)
(*                                                                         *)
(* A record [n, eps, edges]: states 0 .. n-1, the first the start state    *)
(* and the last the stop state; eps holds the pairs <<s, t>> joined by an  *)
(* Edge without ranges, edges[s][t] the characters of any other Edge.      *)
(***************************************************************************)
EXTENDS Integers, Sequences

CONSTANTS
    Char,           \* the alphabet of patterns and subjects
    Skipped         \* the characters languageChars does not enumerate: its
                    \* loop counts an unsigned char up to a signed bound, so
                    \* it yields none of the bytes above 127

NStates(m) == 0 .. (m.n - 1)
NStart == 0
NStop(m) == m.n - 1

IsNfa(m) ==
    /\ m.n \in Nat \ {0}
    /\ m.eps \subseteq NStates(m) \X NStates(m)
    /\ m.edges \in [NStates(m) -> [NStates(m) -> SUBSET Char]]

\* T is closed under the epsilon edges of m.
EpsClosed(m, T) == \A e \in m.eps : e[1] \in T => e[2] \in T

\* NFA::epsilonClosure: the least closed set that holds S.
EpsilonClosure(m, S) ==
    {q \in NStates(m) :
        \A T \in SUBSET NStates(m) : S \subseteq T /\ EpsClosed(m, T) => q \in T}

\* TransitionTable::move.
MoveOfAll(m, S, c) ==
    {q \in NStates(m) : S # {} /\ \A s \in S : c \in m.edges[s][q]}
Move(m, S, c) ==
    {q \in NStates(m) : \E s \in S : c \in m.edges[s][q]}

\* TransitionTable::languageChars.
LanguageChars(m) ==
    {c \in Char \ Skipped : \E s, t \in NStates(m) : c \in m.edges[s][t]}

\* Every state of m leads to the stop state over characters languageChars
\* enumerates.
Trim(m) ==
    \A R \in SUBSET NStates(m) :
        /\ NStop(m) \in R
        /\ \A s \in NStates(m), t \in R :
               <<s, t>> \in m.eps \/ m.edges[s][t] \ Skipped # {} => s \in R
        => R = NStates(m)

\* Where c leads from the set S, as the subset construction computes it.
StepSetUnclosed(m, S, c) == Move(m, S, c)
StepSet(m, S, c) == EpsilonClosure(m, Move(m, S, c))

-----------------------------------------------------------------------------
(* The language of an NFA, as NFA::simulate decides it. *)

\* p names a state at each position of w: reached over the character before
\* the position and any epsilon edges after it.
IsNRun(m, w, p) ==
    /\ p[0] \in EpsilonClosure(m, {NStart})
    /\ \A k \in 1 .. Len(w) :
           p[k] \in EpsilonClosure(m, {q \in NStates(m) : w[k] \in m.edges[p[k - 1]][q]})

NAccepts(m, w) ==
    \E p \in [0 .. Len(w) -> NStates(m)] : IsNRun(m, w, p) /\ p[Len(w)] = NStop(m)

=============================================================================
