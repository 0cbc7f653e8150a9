------------------------------ MODULE Matcher ------------------------------
(***************************************************************************)
(* One call of a generated function <label>_full_match, _sub_match or      *)
(* _search, at the granularity of the code generated for a state: the      *)
(* instructions that FullMatchDFACompiler, SubMatchDFACompiler and         *)
(* SearchDFACompiler::buildState emit for it, executed from START_STATE to *)
(* the branch that leaves the block.  HirMachine.tla executes the same     *)
(* code one instruction at a time and implements this module.              *)
(*                                                                         *)
(* A block does one of three things:                                       *)
(*   - CHECK_END holds: accept or reject by the kind of the state          *)
(*     (AcceptAtEnd, RejectAtEnd);                                         *)
(*   - an edge holds the consumed character: GOTO its state (TakeEdge);    *)
(*   - otherwise the block is stuck, having consumed a character unless    *)
(*     the state is a leaf, and what follows depends on the compiler       *)
(*     (RejectStuck, AcceptStuck, Restart).                                *)
(*                                                                         *)
(* A definition that stands directly before another of the same comment,   *)
(* like AtEndEarly before AtEnd, is a faulty variant of it: with the       *)
(* variant in its place some property below is violated (see the README).  *)
(***************************************************************************)
EXTENDS Automaton

CONSTANTS
    Machines,       \* the machines functions are compiled from
    Subjects,       \* the strings they are called with
    SizeMod         \* size_t arithmetic is modulo SizeMod (2^64 in the code)

VARIABLES
    dfa,            \* the machine of the function called
    kind,           \* the compiler that built it: "full", "sub" or "search"
    subject,        \* parameters subject and subject_len
    wants,          \* which of start_pos and end_pos are non-null pointers
    state,          \* the state whose block is about to run
    counter,        \* characters consumed so far
    start_pos,      \* where the present attempt began ("search" only)
    end_pos,        \* GOTOs taken ("search" only)
    result,         \* "pending" until the call returns
    outStart,       \* the caller's *start_pos
    outEnd          \* the caller's *end_pos

call == <<dfa, kind, subject, wants>>
vars == <<call, state, counter, start_pos, end_pos, result, outStart, outEnd>>

Contract == INSTANCE MatchContract

Kinds == {"full", "sub", "search"}
Untouched == Contract!Untouched
Size == 0 .. (SizeMod - 1)

\* Unsigned increment.
Inc(i) == IF i + 1 = SizeMod THEN 0 ELSE i + 1

ASSUME MachinesAssumption ==
    \A m \in Machines : WellFormed(m) /\ Deterministic(m)

ASSUME SubjectsAssumption == Subjects \subseteq Seq(Char)

ASSUME SizeAssumption ==
    /\ SizeMod \in Nat
    /\ \A w \in Subjects : Len(w) < SizeMod

-----------------------------------------------------------------------------

Pending == result = "pending"

\* CHECK_END.
AtEndEarly == counter + 1 >= Len(subject)
AtEnd == counter = Len(subject)

Cursor == subject[counter + 1]

\* The state of the block is an accept state.
AcceptingUnlessStart == state # StartState /\ IsAcceptState(dfa, state)
AcceptingIfLeaf == IsLeaf(dfa, state) \/ IsAcceptState(dfa, state)
Accepting == IsAcceptState(dfa, state)

\* No GOTO of the block is taken: a leaf has none, and consumes nothing.
StuckBeforeTests == TRUE
Stuck == Successors(dfa, state, Cursor) = {}

\* What a stuck block has consumed.
ConsumedNothing == 0
Consumed == IF IsLeaf(dfa, state) THEN 0 ELSE 1

\* SearchTranslator::makeGoToInst: every GOTO taken increments end_pos.
CountGoTo == end_pos' = IF kind = "search" THEN Inc(end_pos) ELSE end_pos

\* STORE_VAR start_pos counter, of a search that restarts.
NewStartUnstored == start_pos
NewStartSkipping == IF kind = "search" THEN counter' + 1 ELSE start_pos
NewStart == IF kind = "search" THEN counter' ELSE start_pos

\* SearchTranslator::createNonNullStore: a position is stored through a
\* pointer that is not null.
StoredAlways(name, pos, out) == IF kind = "search" THEN pos ELSE out
Stored(name, pos, out) == IF kind = "search" /\ name \in wants THEN pos ELSE out

\* SearchTranslator::makeAcceptInst: the positions are stored, then the accept
\* block returns true.
ReturnAccept ==
    /\ result' = "accept"
    /\ outStart' = Stored("start", start_pos, outStart)
    /\ outEnd' = Stored("end", end_pos, outEnd)
    /\ UNCHANGED <<call, state, start_pos, end_pos>>

ReturnReject ==
    /\ result' = "reject"
    /\ UNCHANGED <<call, state, start_pos, end_pos, outStart, outEnd>>

-----------------------------------------------------------------------------

\* DECLARE_VAR stores 0 in every variable; the entry block branches to the
\* block of state 0.
Init ==
    /\ dfa \in Machines
    /\ kind \in Kinds
    /\ subject \in Subjects
    /\ wants \in SUBSET {"start", "end"}
    /\ kind # "search" => wants = {}
    /\ state = StartState
    /\ counter = 0
    /\ start_pos = 0
    /\ end_pos = 0
    /\ result = "pending"
    /\ outStart = Untouched
    /\ outEnd = Untouched

AcceptAtEnd ==
    /\ Pending
    /\ AtEnd
    /\ Accepting
    /\ ReturnAccept
    /\ UNCHANGED counter

RejectAtEnd ==
    /\ Pending
    /\ AtEnd
    /\ ~Accepting
    /\ ReturnReject
    /\ UNCHANGED counter

TakeEdge ==
    /\ Pending
    /\ ~AtEnd
    /\ state' \in Successors(dfa, state, Cursor)
    /\ counter' = counter + 1
    /\ CountGoTo
    /\ UNCHANGED <<call, start_pos, result, outStart, outEnd>>

\* A full match cannot be completed: there is a character, and no edge for it.
RejectStuck ==
    /\ Pending
    /\ ~AtEnd
    /\ Stuck
    /\ kind = "full"
    /\ counter' = counter + Consumed
    /\ ReturnReject

AcceptStuck ==
    /\ Pending
    /\ ~AtEnd
    /\ Stuck
    /\ kind # "full"
    /\ Accepting
    /\ counter' = counter + Consumed
    /\ ReturnAccept

\* The attempt is given up and a new one begins in state 0 after the
\* characters it consumed, the one it got stuck on included.
Restart ==
    /\ Pending
    /\ ~AtEnd
    /\ Stuck
    /\ kind # "full"
    /\ ~Accepting
    /\ counter' = counter + Consumed
    /\ start_pos' = NewStart
    /\ state' = StartState
    /\ CountGoTo
    /\ UNCHANGED <<call, result, outStart, outEnd>>

\* The call has returned.
Returned == ~Pending /\ UNCHANGED vars

Next ==
    \/ AcceptAtEnd
    \/ RejectAtEnd
    \/ TakeEdge
    \/ RejectStuck
    \/ AcceptStuck
    \/ Restart
    \/ Returned

\* The processor goes on executing the function.
Fairness == WF_vars(Next)

Spec == Init /\ [][Next]_vars /\ Fairness

-----------------------------------------------------------------------------
(* Properties. *)

\* The cursors stay within a subject that is shorter than a size_t counts.
TypeOK ==
    /\ WellFormed(dfa) /\ Deterministic(dfa)
    /\ kind \in Kinds
    /\ subject \in Seq(Char) /\ Len(subject) < SizeMod
    /\ wants \in SUBSET {"start", "end"}
    /\ state \in States(dfa)
    /\ counter \in 0 .. Len(subject)
    /\ start_pos \in 0 .. counter
    /\ end_pos \in Size
    /\ result \in {"pending", "accept", "reject"}
    /\ outStart \in Size \cup {Untouched}
    /\ outEnd \in Size \cup {Untouched}

\* README: anchored matching returns true "if the entire input string matches
\* the pattern", and only then: the verdict of a full match is membership of
\* the whole subject in the language.
FullMatchExact ==
    kind = "full" /\ ~Pending =>
        (result = "accept" <=> Accepts(dfa, subject, 0, Len(subject)))

\* A sub match or a search never accepts a subject without a submatch, however
\* often it restarted.
AcceptJustified ==
    kind # "full" /\ result = "accept" =>
        \E i, j \in 0 .. Len(subject) : i <= j /\ Accepts(dfa, subject, i, j)

\* The span a search reports is a match, and the longest from its first
\* character: end_pos, counted one GOTO at a time, has not drifted from the
\* characters consumed since the attempt began at start_pos.
SpanIsLongestMatch ==
    kind = "search" /\ result = "accept" /\ NoDeadLeaf(dfa) =>
        /\ start_pos <= end_pos
        /\ Accepts(dfa, subject, start_pos, end_pos)
        /\ \A j \in (end_pos + 1) .. Len(subject) :
               ~Accepts(dfa, subject, start_pos, j)

\* When no edge leads from an accept state back to another state, a match
\* beginning with the first character is never missed: only what a failed
\* attempt consumed is lost.
PrefixNeverMissed ==
    kind # "full" /\ result = "reject" /\ AcceptsPersist(dfa) =>
        \A j \in 0 .. Len(subject) : ~Accepts(dfa, subject, 0, j)

\* A search moves start_pos always forward; and when no edge leads from an accept
\* state back to another state, only away from a position where no match begins.
\* On other automata it does leave a match behind: /a|abc/ accepts "a", goes on
\* over the b of "abx" and restarts behind the x.
AbandonedStartHasNoMatch ==
    [][start_pos' # start_pos =>
           /\ start_pos' > start_pos
           /\ AcceptsPersist(dfa) =>
                  \A j \in start_pos .. Len(subject) :
                      ~Accepts(dfa, subject, start_pos, j)]_vars

\* Every call returns, unless it restarts for ever in a start state that is a
\* dead leaf.
Terminates ==
    (kind = "full" \/ ~DeadLeaf(dfa, StartState)) => <>~Pending

\* The call implements the contract of MatchContract.tla.
ImplementsContract == Contract!Spec

(* What the documentation says and the code does not do. *)

\* README: un-anchored matching "returns true if there is some submatch within
\* the input text".
SubmatchFound ==
    kind # "full" /\ result = "reject" =>
        \A i, j \in 0 .. Len(subject) :
            i <= j => ~Accepts(dfa, subject, i, j)

\* search_program_info_provider.cc: the two extra pointers "are for where the
\* string begins and ends": whatever the machine, the span is in the subject.
SpanWithinSubject ==
    result = "accept" => outEnd <= Len(subject)

=============================================================================
