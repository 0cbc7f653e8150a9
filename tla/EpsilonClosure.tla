--------------------------- MODULE EpsilonClosure ---------------------------
(***************************************************************************)
(* A call of NFA::epsilonClosure with a set of states: each of them is     *)
(* closed by a traversal with a queue, and what the traversals visit is    *)
(* united.  A traversal enters the destinations of a state in the queue    *)
(* each time it visits the state; it does not ask whether it has been      *)
(* there before.                                                           *)
(*                                                                         *)
(* Nfa.tla gives the result as the least closed set; this module says how  *)
(* it is computed, and on which NFAs the computation ends.                 *)
(*                                                                         *)
(* The union is written std::set_union(closureStates, found, inserter into *)
(* closureStates), over ranges that are not sorted and one of which grows  *)
(* meanwhile: every branch of its loop that moves on in `found' inserts    *)
(* the element, so the order does not change the result.                   *)
(***************************************************************************)
EXTENDS Nfa, FiniteSets

CONSTANT Nfas           \* the NFAs asked

VARIABLES
    nfa, states,        \* the NFA, and the argument of the call
    pending,            \* the states of the argument not yet traversed from
    queue,              \* traversalQueue
    visited,            \* `states' of the traversal in progress
    closure,            \* closureStates
    stage               \* "next", "traverse" or "return"

vars == <<nfa, states, pending, queue, visited, closure, stage>>

ASSUME NfasAssumption == \A m \in Nfas : IsNfa(m)

Queued == {queue[i] : i \in DOMAIN queue}

\* The sequences an iteration over the set S may yield.
IterationsOf(S) ==
    {f \in [1 .. Cardinality(S) -> S] : \A x \in S : \E i \in DOMAIN f : f[i] = x}

-----------------------------------------------------------------------------

Init ==
    /\ nfa \in Nfas
    /\ states \in SUBSET NStates(nfa)
    /\ pending = states
    /\ queue = <<>>
    /\ visited = {}
    /\ closure = states
    /\ stage = "next"

\* The traversal of the next state begins.
Begin ==
    /\ stage = "next"
    /\ \E s \in pending :
           /\ pending' = pending \ {s}
           /\ queue' = <<s>>
    /\ visited' = {}
    /\ stage' = "traverse"
    /\ UNCHANGED <<nfa, states, closure>>

\* The states an edge without ranges leads to.
EpsilonTargetsAny(s) ==
    {t \in NStates(nfa) : <<s, t>> \in nfa.eps \/ nfa.edges[s][t] # {}}
EpsilonTargets(s) == {t \in NStates(nfa) : <<s, t>> \in nfa.eps}

\* One round of the while loop; an unordered_map yields the edges in any order.
VisitUnpopped ==
    /\ stage = "traverse"
    /\ queue # <<>>
    /\ visited' = visited \cup {Head(queue)}
    /\ queue' = queue
    /\ UNCHANGED <<nfa, states, pending, closure, stage>>
Visit ==
    /\ stage = "traverse"
    /\ queue # <<>>
    /\ visited' = visited \cup {Head(queue)}
    /\ \E order \in IterationsOf(EpsilonTargets(Head(queue))) :
           queue' = Tail(queue) \o order
    /\ UNCHANGED <<nfa, states, pending, closure, stage>>

UnionOfLast(S, T) == T
UnionOf(S, T) == S \cup T

\* The queue is empty: what was visited is united with the closure.
EndTraversal ==
    /\ stage = "traverse"
    /\ queue = <<>>
    /\ closure' = UnionOf(closure, visited)
    /\ stage' = "next"
    /\ UNCHANGED <<nfa, states, pending, queue, visited>>

Return ==
    /\ stage = "next"
    /\ pending = {}
    /\ stage' = "return"
    /\ UNCHANGED <<nfa, states, pending, queue, visited, closure>>

Returned == stage = "return" /\ UNCHANGED vars

Next == Begin \/ Visit \/ EndTraversal \/ Return \/ Returned

Spec == Init /\ [][Next]_vars /\ WF_vars(Next)

-----------------------------------------------------------------------------
(* Properties. *)

\* The queue and the sets hold states of the NFA.
TypeOK ==
    /\ IsNfa(nfa)
    /\ states \subseteq NStates(nfa)
    /\ pending \subseteq states
    /\ queue \in Seq(NStates(nfa))
    /\ visited \subseteq NStates(nfa)
    /\ closure \subseteq NStates(nfa)
    /\ stage \in {"next", "traverse", "return"}

\* Nothing is visited, queued or returned that epsilon edges do not lead to.
OnlyReachable ==
    visited \cup Queued \cup closure \subseteq EpsilonClosure(nfa, states)

\* A traversal that has visited a state has visited, or will visit, whatever
\* an epsilon edge leads to from it.
NothingForgotten ==
    \A e \in nfa.eps : e[1] \in visited => e[2] \in visited \cup Queued

\* The call returns the least closed set (the definition in Nfa.tla that the
\* subset construction is modelled with).
ClosureExact == stage = "return" => closure = EpsilonClosure(nfa, states)

\* No epsilon edges form a cycle: every set of states has one that none leads
\* from to the set.
EpsAcyclic(m) ==
    \A S \in (SUBSET NStates(m)) \ {{}} :
        \E s \in S : \A t \in S : <<s, t>> \notin m.eps

\* An NFA whose epsilon edges form no cycle is closed in finite time.
ReturnsIfAcyclic == EpsAcyclic(nfa) ~> stage = "return"

(* What the documentation says and the code does not do. *)

\* nfa.h:40: the "Set of all states accessible from starting state via epsilon
\* transitions" is returned, whatever the NFA.
EveryCallReturns == <>(stage = "return")

=============================================================================
