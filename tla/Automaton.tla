----------------------------- MODULE Automaton -----------------------------
(***************************************************************************)
(* The deterministic automaton a compiled matcher is generated from        *)
(* (fa/dfa.h, fa/transition_table.h) and the language it stands for.       *)
(*                                                                         *)
(* A machine is a record [n, edges, accept]: states are 0 .. n-1, as       *)
(* indices of TransitionTable::transitions; edges[s][t] is the set of      *)
(* characters of the Edge from s to t, {} where the unordered_map has no   *)
(* entry for t; accept is DFA::acceptStates.                               *)
(*                                                                         *)
(* What a machine accepts is stated without recursion: a run over          *)
(* w[i+1 .. j] is a function that names the state at each of the positions *)
(* i .. j.                                                                 *)
(***************************************************************************)
EXTENDS Integers, Sequences

CONSTANT Char       \* the alphabet of patterns and subjects

States(m) == 0 .. (m.n - 1)

\* DFA::getStartState.
StartState == 0

WellFormed(m) ==
    /\ m.n \in Nat \ {0}
    /\ m.edges \in [States(m) -> [States(m) -> SUBSET Char]]
    /\ m.accept \in SUBSET States(m)

\* No character labels two edges out of one state.
Deterministic(m) ==
    \A s, t, u \in States(m) :
        t # u => m.edges[s][t] \cap m.edges[s][u] = {}

IsAcceptState(m, s) == s \in m.accept

\* TransitionTable::isLeaf: the state has no outgoing edge.
IsLeaf(m, s) == \A t \in States(m) : m.edges[s][t] = {}

\* The destinations whose edge holds c: at most one when Deterministic(m).
Successors(m, s, c) == {t \in States(m) : c \in m.edges[s][t]}

\* A leaf from which nothing is accepted.  DFA::DFA makes one when all the
\* edges out of a set of NFA states hold characters that languageChars skips
\* (bytes above 127, ranges whose bounds are reversed).
DeadLeaf(m, s) == IsLeaf(m, s) /\ ~IsAcceptState(m, s)

NoDeadLeaf(m) == \A s \in States(m) : ~DeadLeaf(m, s)

\* Every edge out of an accept state ends in an accept state: once accepting,
\* an attempt stays so until it gets stuck.
AcceptsPersist(m) ==
    \A s \in m.accept, t \in States(m) : m.edges[s][t] # {} => t \in m.accept

-----------------------------------------------------------------------------
(* Runs. *)

\* p is a run of m over the characters of w between positions i and j.
IsRun(m, w, i, j, p) ==
    /\ p[i] = StartState
    /\ \A k \in i .. (j - 1) : w[k + 1] \in m.edges[p[k]][p[k + 1]]

Runs(m, w, i, j) == {p \in [i .. j -> States(m)] : IsRun(m, w, i, j, p)}

\* Some run over w[i+1 .. j] ends in s.
Reaches(m, w, i, j, s) == \E p \in Runs(m, w, i, j) : p[j] = s

\* m accepts w[i+1 .. j].
Accepts(m, w, i, j) == \E p \in Runs(m, w, i, j) : p[j] \in m.accept

=============================================================================
