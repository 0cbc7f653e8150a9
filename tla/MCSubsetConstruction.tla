------------------------ MODULE MCSubsetConstruction ------------------------
(***************************************************************************)
(* Instances of SubsetConstruction for TLC: NFAs in the shape Thompson's   *)
(* construction gives them (no edge into the start state, none out of the  *)
(* stop state), without the epsilon cycles on which NFA::epsilonClosure    *)
(* does not return (EpsilonClosure.tla).                                   *)
(***************************************************************************)
EXTENDS SubsetConstruction, FiniteSets

CONSTANTS
    N,              \* states of an NFA
    MaxEdges,       \* edges of an NFA
    MaxLen          \* length of a subject

MCChar == {"a", "b", "x"}

\* The edges there may be, and what may be on them.
Slots == (0 .. (N - 2)) \X (1 .. (N - 1))

\* A layout says which of the slots are edges, and which of these are epsilon
\* or hold which characters.
Layouts ==
    UNION {[D -> {<<>>} \cup {<<{"a"}>>, <<{"b", "x"}>>}] :
              D \in {E \in SUBSET Slots : Cardinality(E) <= MaxEdges}}

MCNfa(layout) ==
    [n     |-> N,
     eps   |-> {e \in DOMAIN layout : layout[e] = <<>>},
     edges |-> [s \in 0 .. (N - 1) |-> [t \in 0 .. (N - 1) |->
                   IF <<s, t>> \in DOMAIN layout /\ layout[<<s, t>>] # <<>>
                   THEN layout[<<s, t>>][1] ELSE {}]]]

\* A closed proper superset of its successors tells that s is on no cycle.
EpsAcyclic(m) ==
    \A s \in NStates(m) :
        s \notin EpsilonClosure(m, {e[2] : e \in {d \in m.eps : d[1] = s}})

MCNfas == {m \in {MCNfa(l) : l \in Layouts} : EpsAcyclic(m)}

MCSubjects == UNION {[1 .. l -> MCChar] : l \in 0 .. MaxLen}

=============================================================================
