----------------------------- MODULE HirProgram -----------------------------
(***************************************************************************)
(* The high-level instructions of compiler/instruction.h and what the      *)
(* three DFA compilers emit: buildSetup once, buildState for each state.   *)
(* The edges of a state come in the order an unordered_map iterates over   *)
(* them, so a state has one block for each order of its destinations.      *)
(***************************************************************************)
EXTENDS Automaton, FiniteSets

-----------------------------------------------------------------------------
(* Instructions. *)

DeclareVar(name) == [op |-> "DECLARE_VAR", name |-> name]
StoreVar(dest, source) == [op |-> "STORE_VAR", dest |-> dest, source |-> source]
BeginState(s, isAccept) == [op |-> "START_STATE", id |-> s, isAccept |-> isAccept]
CheckEnd(onTrue) == [op |-> "CHECK_END", onTrue |-> onTrue]
Consume == [op |-> "CONSUME"]
GoTo(s) == [op |-> "GOTO", dest |-> s, conditional |-> FALSE, edge |-> {}]
GoToIf(s, edge) == [op |-> "GOTO", dest |-> s, conditional |-> TRUE, edge |-> edge]
Accept == [op |-> "ACCEPT"]
Reject == [op |-> "REJECT"]

-----------------------------------------------------------------------------
(* Compilers. *)

\* FullMatchDFACompiler::buildSetup, which SearchDFACompiler extends.
BuildSetup(kind) ==
    <<DeclareVar("counter"), DeclareVar("cursor")>> \o
    IF kind = "search" THEN <<DeclareVar("start_pos"), DeclareVar("end_pos")>>
                       ELSE <<>>

\* The states s has an edge to.
Destinations(m, s) == {t \in States(m) : m.edges[s][t] # {}}

\* The orders in which edgesForState may be iterated over.
Orders(m, s) ==
    LET n == Cardinality(Destinations(m, s))
    IN  {o \in [1 .. n -> Destinations(m, s)] :
            \A i, j \in 1 .. n : i # j => o[i] # o[j]}

OnEnd(m, s) == IF IsAcceptState(m, s) THEN Accept ELSE Reject

Tests(m, s, order) ==
    [i \in DOMAIN order |-> GoToIf(order[i], m.edges[s][order[i]])]

EdgesUnconsumed(m, s, order) == Tests(m, s, order)

\* A leaf has no edge to test, and consumes nothing.
Edges(m, s, order) ==
    IF IsLeaf(m, s) THEN <<>> ELSE <<Consume>> \o Tests(m, s, order)

OtherwiseUnstored(kind, m, s) ==
    CASE kind = "full" -> <<Reject>>
      [] kind # "full" /\ IsAcceptState(m, s) -> <<Accept>>
      [] OTHER -> <<GoTo(StartState)>>

\* What ends a block, when no edge was taken.
Otherwise(kind, m, s) ==
    CASE kind = "full" -> <<Reject>>
      [] kind # "full" /\ IsAcceptState(m, s) -> <<Accept>>
      [] kind = "sub" /\ ~IsAcceptState(m, s) -> <<GoTo(StartState)>>
      [] kind = "search" /\ ~IsAcceptState(m, s) ->
             <<StoreVar("start_pos", "counter"), GoTo(StartState)>>

\* buildState.
BuildState(kind, m, s, order) ==
    <<BeginState(s, IsAcceptState(m, s)), CheckEnd(OnEnd(m, s))>>
        \o Edges(m, s, order)
        \o Otherwise(kind, m, s)

=============================================================================
