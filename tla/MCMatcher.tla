----------------------------- MODULE MCMatcher -----------------------------
(***************************************************************************)
(* Instances of Matcher for TLC: machines over two characters, and every   *)
(* subject up to a length.                                                 *)
(***************************************************************************)
EXTENDS Matcher, FiniteSets

CONSTANTS
    MaxStates,      \* machines have at most this many states
    MaxLen          \* subjects have at most this many characters

MCChar == {"a", "b"}

MCSubjects == UNION {[1 .. l -> MCChar] : l \in 0 .. MaxLen}

\* A transition function of n states, -1 where there is no edge, as a table of
\* edges.
Machine(n, delta, accept) ==
    [n      |-> n,
     edges  |-> [s \in 0 .. (n - 1) |-> [t \in 0 .. (n - 1) |->
                    {c \in MCChar : delta[s, c] = t}]],
     accept |-> accept]

\* As DFA::DFA numbers them: each state but the first has an edge from an
\* earlier one.
InDiscoveryOrder(m) ==
    \A t \in 1 .. (m.n - 1) : \E s \in 0 .. (t - 1) : m.edges[s][t] # {}

AllMachines ==
    {m \in UNION {{Machine(n, delta, accept) :
                       delta \in [(0 .. (n - 1)) \X MCChar -> -1 .. (n - 1)],
                       accept \in SUBSET (0 .. (n - 1))} : n \in 1 .. MaxStates} :
        InDiscoveryOrder(m)}

\* A machine whose states form a line, state i going to i+1 on word[i+1].
Line(word, accept) ==
    Machine(Len(word) + 1,
            [e \in (0 .. Len(word)) \X MCChar |->
                IF e[1] < Len(word) /\ e[2] = word[e[1] + 1]
                THEN e[1] + 1 ELSE -1],
            accept)

\* /ab/.
Literal == {Line(<<"a", "b">>, {2})}

\* /a(bab)?/: an accept state is left for one that is not.
Optional == {Line(<<"a", "b", "a", "b">>, {1, 4})}

\* An alternation of a pattern whose second character is outside languageChars,
\* a dead leaf after "a", and of /b/.
HalfDead ==
    {Machine(3, [e \in (0 .. 2) \X MCChar |->
                    IF e[1] > 0 THEN -1 ELSE IF e[2] = "a" THEN 1 ELSE 2],
             {2})}

CheckedMachines == AllMachines \cup Literal \cup Optional \cup HalfDead

=============================================================================
