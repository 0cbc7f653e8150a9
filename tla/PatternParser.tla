--------------------------- MODULE PatternParser ---------------------------
(***************************************************************************)
(* The parser of a pattern (parser/re_grammar.yy) and the NFAs its actions *)
(* build.  The parse stack is a sequence of frames, one for the pattern    *)
(* and one for each open group: the branches reduced so far and the        *)
(* elements of the branch in progress.  An atom waits for the token after  *)
(* it, which may be a quantifier.                                          *)
(*                                                                         *)
(* Next to the NFA each semantic value carries, for the properties, what   *)
(* regular expressions mean: `lang' the words of the pattern read that are *)
(* no longer than MaxLen, `loops' whether a star was put on something that *)
(* accepts the empty word, `lost' whether a branch that is not the first   *)
(* is an NFA without states, as zero repetitions are, and `atoms' the      *)
(* atoms there are in it.                                                  *)
(*                                                                         *)
(* The grammar does not ask for the bounds of a range in order: [z-a] is   *)
(* an atom of no characters.  Its edge has a range and is no epsilon edge, *)
(* but nothing takes it; it is modelled as no edge.                        *)
(*                                                                         *)
(* The quantifiers {n,} and {n,m} of the grammar are left out: no pattern  *)
(* reaches them, the lexer makes no COMMA.                                 *)
(***************************************************************************)
EXTENDS NfaBuilders, FiniteSets, SequencesExt

CONSTANTS
    Atoms,          \* the sets of characters single atoms stand for
    MaxLen,         \* words of a language kept apart
    MaxTokens,      \* bound on the tokens of a pattern
    Counts          \* the numbers n of a quantifier {n}

VARIABLES
    frames,         \* the parse stack
    atom,           \* the atom just reduced, or NoAtom
    tokens,         \* tokens read
    stage,          \* "parsing", "parsed" or "error"
    result          \* resulting_nfa, once parsed

vars == <<frames, atom, tokens, stage, result>>

ASSUME AtomsAssumption == Atoms \subseteq SUBSET Char
ASSUME CountsAssumption == Counts \subseteq Nat
ASSUME BoundsAssumption == MaxLen \in Nat /\ MaxTokens \in Nat

NoAtom == [nfa |-> NoStates, lang |-> {}, loops |-> FALSE, lost |-> FALSE, atoms |-> {}]
Frame == [alternation |-> <<>>, expr |-> <<>>]

-----------------------------------------------------------------------------
(* What regular expressions mean, for words of at most MaxLen characters.  *)

Words == UNION {[1 .. k -> Char] : k \in 0 .. MaxLen}

ConcatWords(A, B) == {u \o v : u \in A, v \in B} \cap Words
RepeatWords(A, k) ==
    LET power[i \in 0 .. k] == IF i = 0 THEN {<<>>} ELSE ConcatWords(power[i - 1], A)
    IN  power[k]
StarWords(A) == UNION {RepeatWords(A, k) : k \in 0 .. MaxLen}
AllWords(parts) ==
    LET total[k \in 0 .. Len(parts)] ==
            IF k = 0 THEN {<<>>} ELSE ConcatWords(total[k - 1], parts[k].lang)
    IN  total[Len(parts)]

Loops(parts) == \E i \in DOMAIN parts : parts[i].loops
Lost(parts) == \E i \in DOMAIN parts : parts[i].lost
AtomsOf(parts) == UNION {parts[i].atoms : i \in DOMAIN parts}
NfasOf(parts) == [i \in DOMAIN parts |-> parts[i].nfa]

-----------------------------------------------------------------------------
(* The semantic actions. *)

\* alternation: expr
Branch(expr) ==
    [nfa   |-> ConcatMany(NfasOf(expr)),
     lang  |-> AllWords(expr),
     loops |-> Loops(expr),
     lost  |-> Lost(expr),
     atoms |-> AtomsOf(expr)]

\* parse: alternation;  capture and non_capture: OPEN_GROUP alternation ...
Alternatives(alternation) ==
    [nfa   |-> Alternation(NfasOf(alternation)),
     lang  |-> UNION {alternation[i].lang : i \in DOMAIN alternation},
     loops |-> Loops(alternation),
     lost  |-> Lost(alternation) \/ \E i \in DOMAIN alternation :
                                        i > 1 /\ alternation[i].nfa.n = 0,
     atoms |-> AtomsOf(alternation)]

\* atom: literal, character_class, DOT, WORD_CHARS, ...
Single(C) ==
    [nfa   |-> CharacterClass(C),
     lang  |-> {<<c>> : c \in C} \cap Words,
     loops |-> FALSE,
     lost  |-> FALSE,
     atoms |-> {C}]

\* A star on f makes a cycle of epsilon edges.
LoopsIfStarred(f) == f.loops \/ (<<>> \in f.lang /\ f.nfa.n # 0)

\* element: atom quantifier
Starred(f) ==
    [f EXCEPT !.nfa = Star(f.nfa), !.lang = StarWords(f.lang), !.loops = LoopsIfStarred(f)]
Repeated(f) ==
    [f EXCEPT !.nfa = Plus(f.nfa),
              !.lang = ConcatWords(f.lang, StarWords(f.lang)),
              !.loops = LoopsIfStarred(f)]
Optional(f) ==
    [f EXCEPT !.nfa = QuestionMark(f.nfa), !.lang = f.lang \cup {<<>>}]
Counted(f, n) ==
    [nfa   |-> NumberBounded(f.nfa, n, n),
     lang  |-> RepeatWords(f.lang, n),
     loops |-> f.loops /\ n > 0,
     lost  |-> f.lost /\ n > 0,
     atoms |-> IF n > 0 THEN f.atoms ELSE {}]

Quantified(f) ==
    {Starred(f), Repeated(f), Optional(f)} \cup {Counted(f, n) : n \in Counts}

-----------------------------------------------------------------------------
(* The parser. *)

Init ==
    /\ frames = <<Frame>>
    /\ atom = NoAtom
    /\ tokens = 0
    /\ stage = "parsing"
    /\ result = NoAtom

Top == Last(frames)
WithTop(f) == [frames EXCEPT ![Len(frames)] = f]
WaitingAtom == atom # NoAtom

\* One token is read (a quantifier in braces counts as one).
Read ==
    /\ stage = "parsing"
    /\ tokens < MaxTokens
    /\ tokens' = tokens + 1
    /\ UNCHANGED <<stage, result>>

\* The frames once the waiting atom has become an element of the top branch.
Settled ==
    IF WaitingAtom THEN WithTop([Top EXCEPT !.expr = Append(@, atom)]) ELSE frames

Character ==
    /\ Read
    /\ frames' = Settled
    /\ \E C \in Atoms : atom' = Single(C)

OpenGroup ==
    /\ Read
    /\ frames' = Append(Settled, Frame)
    /\ atom' = NoAtom

Quantifier ==
    /\ Read
    /\ WaitingAtom
    /\ \E f \in Quantified(atom) :
           frames' = WithTop([Top EXCEPT !.expr = Append(@, f)])
    /\ atom' = NoAtom

\* The branch in progress is reduced; it has at least one element.
ReducedTop ==
    LET f == Last(Settled)
    IN  [alternation |-> Append(f.alternation, Branch(f.expr)), expr |-> <<>>]
BranchComplete == Last(Settled).expr # <<>>

Pipe ==
    /\ Read
    /\ BranchComplete
    /\ frames' = WithTop(ReducedTop)
    /\ atom' = NoAtom

CloseGroup ==
    /\ Read
    /\ Len(frames) > 1
    /\ BranchComplete
    /\ atom' = Alternatives(ReducedTop.alternation)
    /\ frames' = Front(frames)

\* The end of the pattern.
EndOfPattern ==
    /\ stage = "parsing"
    /\ Len(frames) = 1
    /\ BranchComplete
    /\ result' = Alternatives(ReducedTop.alternation)
    /\ stage' = "parsed"
    /\ frames' = <<>>
    /\ atom' = NoAtom
    /\ UNCHANGED tokens

\* A token, or the end, that the grammar does not allow here: parse throws.
SyntaxError ==
    /\ stage = "parsing"
    /\ stage' = "error"
    /\ frames' = <<>>
    /\ atom' = NoAtom
    /\ UNCHANGED <<tokens, result>>

Ended == stage \in {"parsed", "error"} /\ UNCHANGED vars

Next ==
    \/ Character \/ OpenGroup \/ Quantifier \/ Pipe \/ CloseGroup
    \/ EndOfPattern \/ SyntaxError \/ Ended

Spec == Init /\ [][Next]_vars

-----------------------------------------------------------------------------
(* Properties. *)

\* Every atom in the pattern read has a character languageChars enumerates: not
\* so a byte above 127, nor [z-a].
AtomsListed(f) == \A C \in f.atoms : C \ Skipped # {}

\* The NFAs on the parse stack, and the result.
Stacked ==
    UNION {{frames[i].expr[j].nfa : j \in DOMAIN frames[i].expr}
               \cup {frames[i].alternation[j].nfa : j \in DOMAIN frames[i].alternation} :
           i \in DOMAIN frames}
Built == Stacked \cup {atom.nfa, result.nfa}

\* The value the last action made; whatever else is on the stack was the
\* newest once.
Newest ==
    IF stage = "parsed" THEN {result}
    ELSE IF WaitingAtom THEN {atom}
    ELSE IF frames = <<>> THEN {}
    ELSE IF Top.expr # <<>> THEN {Last(Top.expr)}
    ELSE IF Top.alternation # <<>> THEN {Last(Top.alternation)}
    ELSE {}

\* No edge leads into the start state or out of the stop state, and these two
\* differ: what concat_helper relies on when it lets two states coincide.
ThompsonShape(m) ==
    m.n # 0 =>
        /\ m.n > 1
        /\ \A s \in NStates(m) :
               /\ <<s, NStart>> \notin m.eps /\ m.edges[s][NStart] = {}
               /\ <<NStop(m), s>> \notin m.eps /\ m.edges[NStop(m)][s] = {}
\* What is on the stack are NFAs of that shape whose edges join states they have.
ShapeKept == \A m \in Built : IsFragment(m) /\ ThompsonShape(m)

\* The NFA accepts what the part of the pattern it was built from means, unless
\* a branch was lost.
LanguageExact ==
    \A f \in Newest :
        IF f.nfa.n = 0 THEN f.lang = {<<>>}
        ELSE ~f.lost => LanguageOf(f.nfa, Words) = f.lang

\* Every state lies on a way from the start state to the stop state, unless an
\* atom of no characters stands in the way.  A DFA follows only the characters
\* languageChars lists: that it has no dead leaf, on which the generated matchers
\* misbehave, takes AtomsListed(f) in addition.
NoDeadEnd ==
    \A f \in Newest : f.nfa.n # 0 /\ {} \notin f.atoms =>
        LET m == f.nfa
            ways == {e \in NStates(m) \X NStates(m) : e \in m.eps \/ m.edges[e[1]][e[2]] # {}}
            back == {<<e[2], e[1]>> : e \in ways}
        IN  /\ Closed([m EXCEPT !.eps = ways], {NStart}) = NStates(m)
            /\ Closed([m EXCEPT !.eps = back], {NStop(m)}) = NStates(m)

\* Epsilon edges form a cycle exactly if a star was put on something that
\* accepts the empty word: on every other pattern epsilonClosure returns.
CycleOnlyFromStar ==
    \A f \in Newest : ~f.lost =>
        (f.loops <=>
            \E s \in NStates(f.nfa) :
                s \in Closed(f.nfa, {e[2] : e \in {d \in f.nfa.eps : d[1] = s}}))

=============================================================================
