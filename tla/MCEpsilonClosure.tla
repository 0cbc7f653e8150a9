-------------------------- MODULE MCEpsilonClosure --------------------------
(***************************************************************************)
(* Instances of EpsilonClosure for TLC.                                    *)
(***************************************************************************)
EXTENDS EpsilonClosure

CONSTANT N              \* states of an NFA

MCChar == {"a"}

\* Every set of epsilon edges from lower to higher numbers (every acyclic
\* graph is one of these but for the names of its states), and one edge over a
\* character anywhere.
Forward == {e \in (0 .. (N - 1)) \X (0 .. (N - 1)) : e[1] < e[2]}

MCNfa(eps, s, t) ==
    [n |-> N, eps |-> eps,
     edges |-> [i \in 0 .. (N - 1) |-> [j \in 0 .. (N - 1) |->
                   IF i = s /\ j = t THEN {"a"} ELSE {}]]]

MCNfas ==
    {MCNfa(eps, s, t) : eps \in SUBSET Forward, s \in 0 .. (N - 1), t \in {0, N - 1}}

\* What nfa_builders::star makes of its own result for the pattern (a*)*.
MCStarOfStar ==
    {[n |-> 6,
      eps |-> {<<0, 1>>, <<1, 2>>, <<3, 2>>, <<1, 4>>, <<3, 4>>,
               <<4, 1>>, <<0, 5>>, <<4, 5>>},
      edges |-> [i \in 0 .. 5 |-> [j \in 0 .. 5 |->
                    IF i = 2 /\ j = 3 THEN {"a"} ELSE {}]]]}

=============================================================================
