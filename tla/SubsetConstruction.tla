------------------------- MODULE SubsetConstruction -------------------------
(***************************************************************************)
(* DFA::DFA(const NFA &): the DFA states are discovered as sets of NFA     *)
(* states, numbered in the order of discovery, and processed from a queue, *)
(* one character of the language after the other.  languageChars returns   *)
(* an unordered_set, so the characters come in any order.                  *)
(***************************************************************************)
EXTENDS Nfa

CONSTANTS
    Nfas,           \* the NFAs determinized
    Subjects        \* the strings on which the languages are compared

VARIABLES
    nfa,            \* the constructor's argument
    translations,   \* dfaStateTranslations: number of each discovered set
    queue,          \* dfaStateQueue
    current,        \* the set in process, {} between two iterations
    todo,           \* the characters it has yet to be moved by
    count,          \* transitions.size() of the DFA
    edges,          \* TransitionTable::transitions of the DFA
    acceptStates,
    done            \* the constructor has returned

vars ==
    <<nfa, translations, queue, current, todo, count, edges, acceptStates, done>>

ASSUME NfasAssumption == \A m \in Nfas : IsNfa(m)
ASSUME SubjectsAssumption == \A w \in Subjects : w \in Seq(Char)

Discovered == DOMAIN translations

\* The DFA built so far, as Automaton.tla describes machines.
Dfa == [n |-> count, edges |-> edges, accept |-> acceptStates]

InQueue(S) == \E i \in DOMAIN queue : queue[i] = S

-----------------------------------------------------------------------------

\* The set of the start state.
FirstUnclosed(m) == {NStart}
First(m) == EpsilonClosure(m, {NStart})

\* A state whose set holds the stop state is entered as an accept state.
AcceptOfFirst(S, number) == IF NStop(nfa) \in S /\ number = 0 THEN {number} ELSE {}
AcceptOf(S, number) == IF NStop(nfa) \in S THEN {number} ELSE {}

Init ==
    /\ nfa \in Nfas
    /\ translations = [S \in {First(nfa)} |-> 0]
    /\ queue = <<First(nfa)>>
    /\ current = {}
    /\ todo = {}
    /\ count = 1
    /\ edges = [s \in {0} |-> [t \in {0} |-> {}]]
    /\ acceptStates = AcceptOf(First(nfa), 0)
    /\ done = FALSE

RestUnpopped == queue
Rest == Tail(queue)

Pop ==
    /\ ~done
    /\ current = {}
    /\ queue # <<>>
    /\ current' = Head(queue)
    /\ queue' = Rest
    /\ todo' = LanguageChars(nfa)
    /\ UNCHANGED <<nfa, translations, count, edges, acceptStates, done>>

\* addEdge merges the character into the edge from current, in the table tbl.
AddEdgeOverwriting(tbl, dest, c) ==
    [tbl EXCEPT ![translations[current]][dest] = {c}]
AddEdgeOfTodo(tbl, dest, c) ==
    [tbl EXCEPT ![translations[current]][dest] = @ \cup {c} \cup todo]
AddEdge(tbl, dest, c) ==
    [tbl EXCEPT ![translations[current]][dest] = @ \cup {c}]

\* addState: a row and a column without edges.
WithState(tbl, s) ==
    [r \in DOMAIN tbl \cup {s} |-> [t \in DOMAIN tbl \cup {s} |->
        IF r = s \/ t = s THEN {} ELSE tbl[r][t]]]

\* The number addState returns.
NextNumber == count

\* No state is reached by c.
SkipChar(c) ==
    /\ StepSet(nfa, current, c) = {}
    /\ UNCHANGED <<nfa, translations, queue, current, count, edges, acceptStates, done>>

\* c leads to a set that has been discovered before.
ExistingState(c) ==
    LET S == StepSet(nfa, current, c)
    IN  /\ S \in Discovered
        /\ edges' = AddEdge(edges, translations[S], c)
        /\ UNCHANGED <<nfa, translations, queue, current, count, acceptStates, done>>

\* c leads to a set not seen before: it is numbered, entered and queued.
NewState(c) ==
    LET S == StepSet(nfa, current, c)
    IN  /\ S # {}
        /\ S \notin Discovered
        /\ translations' = [T \in Discovered \cup {S} |->
                               IF T = S THEN NextNumber ELSE translations[T]]
        /\ acceptStates' = acceptStates \cup AcceptOf(S, NextNumber)
        /\ queue' = Append(queue, S)
        /\ edges' = AddEdge(WithState(edges, NextNumber), NextNumber, c)
        /\ count' = count + 1
        /\ UNCHANGED <<nfa, current, done>>

ProcessChar ==
    /\ current # {}
    /\ \E c \in todo :
           /\ todo' = todo \ {c}
           /\ SkipChar(c) \/ ExistingState(c) \/ NewState(c)

FinishState ==
    /\ current # {}
    /\ todo = {}
    /\ current' = {}
    /\ UNCHANGED <<nfa, translations, queue, todo, count, edges, acceptStates, done>>

\* The queue is empty.  The loop over the edges that follows rewrites their
\* lists of ranges (optimizeRanges), not the characters they hold.
Finish ==
    /\ ~done
    /\ current = {}
    /\ queue = <<>>
    /\ done' = TRUE
    /\ UNCHANGED <<nfa, translations, queue, current, todo, count, edges, acceptStates>>

Finished == done /\ UNCHANGED vars

Next == Pop \/ ProcessChar \/ FinishState \/ Finish \/ Finished

Spec == Init /\ [][Next]_vars /\ WF_vars(Next)

-----------------------------------------------------------------------------
(* Properties. *)

Machine == INSTANCE Automaton

TypeOK ==
    /\ IsNfa(nfa)
    /\ count \in Nat \ {0}
    /\ translations \in [Discovered -> 0 .. (count - 1)]
    /\ Discovered \subseteq SUBSET NStates(nfa)
    /\ queue \in Seq(Discovered)
    /\ current \in Discovered \cup {{}}
    /\ todo \subseteq LanguageChars(nfa)
    /\ edges \in [0 .. (count - 1) -> [0 .. (count - 1) -> SUBSET Char]]
    /\ acceptStates \subseteq 0 .. (count - 1)
    /\ done \in BOOLEAN

\* Two sets never share a number, every number has its set, and a set is the
\* closure of itself: equal sets of NFA states are one DFA state.
TranslationsExact ==
    /\ \A S, T \in Discovered : translations[S] = translations[T] => S = T
    /\ \A s \in 0 .. (count - 1) : \E S \in Discovered : translations[S] = s
    /\ \A S \in Discovered : S # {} /\ EpsClosed(nfa, S)

\* A DFA state accepts iff its set holds the stop state, whichever of the two
\* places it was entered at.
AcceptExact ==
    \A S \in Discovered : translations[S] \in acceptStates <=> NStop(nfa) \in S

\* The sets still to be processed are queued once.
QueuedOnce ==
    /\ \A i, j \in DOMAIN queue : queue[i] = queue[j] => i = j
    /\ current # {} => ~InQueue(current)

\* Set S has been moved by c.
Handled(S, c) ==
    /\ c \in LanguageChars(nfa)
    /\ ~InQueue(S)
    /\ S = current => c \notin todo

\* A set moved by c has exactly the edge c leads over, and no set has an edge
\* before it is processed: merging edges loses and invents no transition.
EdgesExact ==
    \A S \in Discovered, c \in Char :
        LET T == StepSet(nfa, S, c)
        IN  IF Handled(S, c) /\ T # {}
            THEN /\ T \in Discovered
                 /\ \A t \in 0 .. (count - 1) :
                        c \in edges[translations[S]][t] <=> t = translations[T]
            ELSE \A t \in 0 .. (count - 1) : c \notin edges[translations[S]][t]

\* What Matcher.tla assumes of the machines it is given.
DfaUsable == Machine!WellFormed(Dfa) /\ Machine!Deterministic(Dfa)

\* The DFA of such an NFA has no dead leaf: the hazards of Matcher.tla need a
\* pattern with characters that languageChars skips.
LiveNfaLiveDfa == done /\ Trim(nfa) => Machine!NoDeadLeaf(Dfa)

\* Over the characters of the language the DFA accepts what the NFA accepts.
LanguagePreserved ==
    done => \A w \in Subjects :
                (\A k \in DOMAIN w : w[k] \notin Skipped) =>
                    (Machine!Accepts(Dfa, w, 0, Len(w)) <=> NAccepts(nfa, w))

\* The constructor returns.
Terminates == <>done

=============================================================================
