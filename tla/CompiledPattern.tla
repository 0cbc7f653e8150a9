-------------------------- MODULE CompiledPattern --------------------------
(***************************************************************************)
(* A pattern all the way: the parser builds an NFA (PatternParser), main   *)
(* makes a DFA of it (SubsetConstruction), compiles the DFA three times    *)
(* and a program calls one of the functions generated (Matcher).  Each     *)
(* component runs as its own module describes it, on what the one before   *)
(* has made.                                                               *)
(*                                                                         *)
(* What the pattern means comes from the parser's side, as a set of words; *)
(* what the call answers, from the function's.                             *)
(***************************************************************************)
EXTENDS PatternParser

CONSTANTS
    MaxCompiled,    \* patterns of at most this many tokens are compiled
    Subjects,       \* the strings the functions are called with
    SizeMod         \* size_t arithmetic is modulo SizeMod

VARIABLES
    pattern,        \* the pattern compiled, as the parser knows it
    \* DFA::DFA
    nfa, translations, queue, current, todo, count, edges, acceptStates, done,
    \* the call
    dfa, kind, subject, wants, state, counter, start_pos, end_pos, verdict,
    outStart, outEnd

parser == <<frames, atom, tokens, result>>
construction ==
    <<nfa, translations, queue, current, todo, count, edges, acceptStates, done>>
call == <<dfa, kind, subject, wants, state, counter, start_pos, end_pos, verdict,
          outStart, outEnd>>
pipeline == <<parser, stage, pattern, construction, call>>

Construction == INSTANCE SubsetConstruction WITH Nfas <- {}
Function == INSTANCE Matcher WITH Machines <- {}, result <- verdict

ASSUME MaxCompiledAssumption == MaxCompiled \in Nat
ASSUME SubjectsAssumption == Subjects \subseteq Words
ASSUME SizeAssumption == SizeMod \in Nat /\ MaxLen < SizeMod

NoMachine == [n |-> 0, edges |-> <<>>, accept |-> {}]

-----------------------------------------------------------------------------

NoConstruction ==
    /\ nfa = NoStates /\ translations = <<>> /\ queue = <<>> /\ current = {}
    /\ todo = {} /\ count = 0 /\ edges = <<>> /\ acceptStates = {} /\ done = FALSE

PipelineInit ==
    /\ Init
    /\ pattern = NoAtom
    /\ NoConstruction
    /\ dfa = NoMachine /\ kind = "full" /\ subject = <<>> /\ wants = {}
    /\ state = 0 /\ counter = 0 /\ start_pos = 0 /\ end_pos = 0
    /\ verdict = "pending"
    /\ outStart = Function!Untouched /\ outEnd = Function!Untouched

Parse == Next /\ UNCHANGED <<pattern, construction, call>>

\* main: dfa(nfa).  An NFA without states has no start state to begin with, and
\* on one with a cycle of epsilon edges epsilonClosure does not return.
Determinize ==
    /\ stage = "parsed" /\ tokens <= MaxCompiled
    /\ result.nfa.n > 0 /\ ~result.loops
    /\ stage' = "determinize"
    /\ pattern' = result
    /\ result' = NoAtom
    /\ nfa' = result.nfa
    /\ LET first == Construction!First(result.nfa)
       IN  /\ translations' = [S \in {first} |-> 0]
           /\ queue' = <<first>>
           /\ acceptStates' = IF NStop(result.nfa) \in first THEN {0} ELSE {}
    /\ current' = {} /\ todo' = {} /\ count' = 1 /\ done' = FALSE
    /\ edges' = [s \in {0} |-> [t \in {0} |-> {}]]
    /\ UNCHANGED <<frames, atom, tokens, call>>

Construct ==
    /\ stage = "determinize" /\ ~done
    /\ Construction!Next
    /\ UNCHANGED <<parser, stage, pattern, call>>

\* One of the functions compiled from the DFA is called; a search is given
\* both pointers.
Call ==
    /\ stage = "determinize" /\ done
    /\ stage' = "call"
    /\ dfa' = Construction!Dfa
    /\ kind' \in Function!Kinds
    /\ subject' \in Subjects
    /\ wants' = IF kind' = "search" THEN {"start", "end"} ELSE {}
    /\ nfa' = NoStates /\ translations' = <<>> /\ queue' = <<>> /\ current' = {}
    /\ todo' = {} /\ count' = 0 /\ edges' = <<>> /\ acceptStates' = {} /\ done' = FALSE
    /\ UNCHANGED <<parser, pattern, state, counter, start_pos, end_pos, verdict,
                   outStart, outEnd>>

Run ==
    /\ stage = "call"
    /\ Function!Next
    /\ UNCHANGED <<parser, stage, pattern, construction>>

PipelineNext == Parse \/ Determinize \/ Construct \/ Call \/ Run

\* The processor goes on executing the function called.
PipelineSpec == PipelineInit /\ [][PipelineNext]_pipeline /\ WF_pipeline(Run)

-----------------------------------------------------------------------------
(* Properties. *)

Returned == stage = "call" /\ verdict # "pending"

\* languageChars enumerates every character of the word.
Listed(w) == \A k \in DOMAIN w : w[k] \notin Skipped

\* README: anchored matching returns true "if the entire input string matches
\* the pattern".  From tokens to verdict: parser, determinization and generated
\* code agree on what the pattern means, unless a branch was lost or the subject
\* has characters that no DFA has edges for.
FullMatchMeansPattern ==
    Returned /\ kind = "full" /\ ~pattern.lost /\ Listed(subject) =>
        (verdict = "accept" <=> subject \in pattern.lang)

Slice(i, j) == SubSeq(subject, i + 1, j)

\* A sub match accepts only a subject with a match in it; and if languageChars
\* lists a character of every atom of the pattern, the span a search reports is
\* a match and the longest from its start: no such pattern yields a DFA on which
\* the positions drift, as that of /a[z-a]|b/ does.  Both unless a branch was
\* lost or the subject has characters that no DFA has edges for.
SpanMeansPattern ==
    Returned /\ verdict = "accept" /\ ~pattern.lost /\ Listed(subject) =>
        /\ kind = "sub" => \E i, j \in 0 .. Len(subject) : Slice(i, j) \in pattern.lang
        /\ kind = "search" /\ AtomsListed(pattern) =>
               /\ outStart <= outEnd /\ outEnd <= Len(subject)
               /\ Slice(outStart, outEnd) \in pattern.lang
               /\ \A j \in (outEnd + 1) .. Len(subject) :
                      Slice(outStart, j) \notin pattern.lang

\* Every call of a full match returns, and every call of a function made from a
\* pattern of atoms languageChars lists a character of: no such pattern yields a
\* start state that a sub match or a search restarts in for ever.  Others do: a
\* byte above 127 alone and [z-a] give a DFA of one state, which neither accepts
\* nor has an edge.
CallReturns == stage = "call" /\ (kind = "full" \/ AtomsListed(pattern)) ~> Returned

=============================================================================
