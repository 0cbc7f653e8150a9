----------------------------- MODULE EdgeRanges -----------------------------
(***************************************************************************)
(* The ranges of one edge (class Edge).  An edge of an NFA is made by one  *)
(* call of nfa_builders::characterClass: the ranges of a character class   *)
(* are added one by one (addRange), sorted and collapsed in place          *)
(* (optimizeRanges), complemented when the class is negated (complement)   *)
(* and merged into the edge of a transition table (merge).  An edge of a   *)
(* DFA is grown by DFA::DFA: the characters of languageChars, each once    *)
(* and in any order, are merged into it one by one before it is optimized. *)
(*                                                                         *)
(* A char is a number from MinChar to MaxChar, as the signed type of the   *)
(* source; only generateAllCharacters starts at 0.  Two users of an edge   *)
(* take its chars for unsigned bytes: languageChars, which tells the       *)
(* subset construction what characters an NFA's edges hold, and the code   *)
(* generated for an edge of a DFA.                                         *)
(***************************************************************************)
EXTENDS Integers, Sequences, FiniteSetsExt, SequencesExt

CONSTANTS
    NegativeChars,      \* how many chars are below 0
    MaxChar,            \* numeric_limits<char>::max()
    Classes,            \* the ranges a class may have
    MaxAdds             \* and at most how many of them

VARIABLES
    grower,         \* "characterClass" or "DFA"
    negated,        \* the class begins with a caret
    stage,          \* "add", "scan", "optimized", "merge", "done" or "undefined"
    added,          \* number of ranges added
    asked,          \* the characters of the ranges added so far
    proper,         \* no range added so far had its bounds reversed
    inverted,       \* ranges are those of the complemented edge
    ranges,         \* Edge::ranges
    first, second   \* the iterators of optimizeRanges

vars == <<grower, negated, stage, added, asked, proper, inverted, ranges, first,
          second>>

\* numeric_limits<char>::min().
MinChar == -NegativeChars

ASSUME BoundsAssumption ==
    /\ NegativeChars \in Nat \ {0} /\ MaxChar \in Nat
    /\ Classes \subseteq [lo : MinChar .. MaxChar, hi : MinChar .. MaxChar]

Join(low, high) == [lo |-> low.lo, hi |-> high.hi]

\* Edge::accept.
Holds(rs, c) == \E i \in DOMAIN rs : rs[i].lo <= c /\ c <= rs[i].hi
Chars(rs) == {c \in MinChar .. MaxChar : Holds(rs, c)}

-----------------------------------------------------------------------------
(* addRange. *)

Inside(n, r) == n.lo >= r.lo /\ n.hi <= r.hi
EndsBefore(n, r) == n.hi = r.lo - 1
StartsAfter(n, r) == n.lo = r.hi + 1
OverlapsLow(n, r) == n.hi > r.lo /\ n.hi < r.hi
OverlapsHigh(n, r) == n.lo < r.hi /\ n.lo > r.lo
Covers(n, r) == n.lo < r.lo /\ n.hi > r.hi

CanFold(n, r) ==
    \/ Inside(n, r) \/ EndsBefore(n, r) \/ StartsAfter(n, r)
    \/ OverlapsLow(n, r) \/ OverlapsHigh(n, r) \/ Covers(n, r)

\* The first test that holds decides.
FoldedSwapped(n, r) ==
    IF Inside(n, r) THEN r
    ELSE IF EndsBefore(n, r) \/ OverlapsHigh(n, r) THEN Join(n, r)
    ELSE IF StartsAfter(n, r) \/ OverlapsLow(n, r) THEN Join(r, n)
    ELSE n
Folded(n, r) ==
    IF Inside(n, r) THEN r
    ELSE IF EndsBefore(n, r) THEN Join(n, r)
    ELSE IF StartsAfter(n, r) THEN Join(r, n)
    ELSE IF OverlapsLow(n, r) THEN Join(n, r)
    ELSE IF OverlapsHigh(n, r) THEN Join(r, n)
    ELSE n

\* The list rs after addRange(n).
WithRange(rs, n) ==
    LET hits == {i \in DOMAIN rs : CanFold(n, rs[i])}
    IN  IF hits = {} THEN Append(rs, n)
        ELSE [rs EXCEPT ![Min(hits)] = Folded(n, @)]

\* The list of an edge after addRange of each of rs, as complement and
\* Edge::merge call it.
AddAll(rs) ==
    LET after[i \in 0 .. Len(rs)] ==
            IF i = 0 THEN <<>> ELSE WithRange(after[i - 1], rs[i])
    IN  after[Len(rs)]

AddRange ==
    /\ stage = "add"
    /\ grower = "characterClass"
    /\ added < MaxAdds
    /\ \E n \in Classes :
           /\ ranges' = WithRange(ranges, n)
           /\ asked' = asked \cup Chars(<<n>>)
           /\ proper' = (proper /\ n.lo <= n.hi)
    /\ added' = added + 1
    /\ UNCHANGED <<grower, negated, stage, inverted, first, second>>

\* TransitionTable::addEdge with an edge of one character.
AddChar ==
    /\ stage = "add"
    /\ grower = "DFA"
    /\ \E c \in (0 .. MaxChar) \ asked :
           /\ ranges' = WithRange(ranges, [lo |-> c, hi |-> c])
           /\ asked' = asked \cup {c}
    /\ added' = added + 1
    /\ UNCHANGED <<grower, negated, stage, proper, inverted, first, second>>

-----------------------------------------------------------------------------
(* optimizeRanges. *)

\* RangeCompare, which orders no two ranges that overlap.
Before(l, r) == l.hi < r.lo

\* std::sort is an insertion sort on so few elements: an element goes to the
\* front when before the first, else behind the last it is not before.
SortInsert(rs, v) ==
    IF rs # <<>> /\ Before(v, rs[1]) THEN <<v>> \o rs
    ELSE InsertAt(rs, Max({0} \cup {i \in DOMAIN rs : ~Before(v, rs[i])}) + 1, v)

Sorted(rs) ==
    LET sorted[i \in 0 .. Len(rs)] ==
            IF i = 0 THEN <<>> ELSE SortInsert(sorted[i - 1], rs[i])
    IN  sorted[Len(rs)]

\* What a pair is collapsed into, <<>> when it is left alone.
CollapsedOverlapOnly(f, s) ==
    IF f.hi > s.lo /\ f.hi < s.hi THEN <<Join(f, s)>> ELSE <<>>
Collapsed(f, s) ==
    IF s.lo > f.lo /\ s.hi < f.hi THEN <<f>>
    ELSE IF f.lo > s.lo /\ f.hi < s.hi THEN <<s>>
    ELSE IF f.hi > s.lo /\ f.hi < s.hi THEN <<Join(f, s)>>
    ELSE IF s.hi > f.lo /\ s.hi < f.hi THEN <<Join(s, f)>>
    ELSE IF f.hi + 1 = s.lo THEN <<Join(f, s)>>
    ELSE IF s.hi + 1 = f.lo THEN <<Join(s, f)>>
    ELSE IF s.hi <= f.lo THEN <<Join(s, f)>>
    ELSE <<>>

Optimize ==
    /\ stage = "add"
    /\ added > 0
    /\ stage' = "scan"
    /\ ranges' = Sorted(ranges)
    /\ first' = 1
    /\ second' = 2
    /\ UNCHANGED <<grower, negated, added, asked, proper, inverted>>

\* The element erased gives its place to the next one.
CollapsePair ==
    /\ stage = "scan"
    /\ second <= Len(ranges)
    /\ LET c == Collapsed(ranges[first], ranges[second])
       IN  /\ c # <<>>
           /\ ranges' = RemoveAt([ranges EXCEPT ![first] = c[1]], second)
    /\ UNCHANGED <<grower, negated, stage, added, asked, proper, inverted, first, second>>

KeepPair ==
    /\ stage = "scan"
    /\ second <= Len(ranges)
    /\ Collapsed(ranges[first], ranges[second]) = <<>>
    /\ second' = second + 1
    /\ UNCHANGED <<grower, negated, stage, added, asked, proper, inverted, ranges, first>>

FirstUnmoved == first
FirstMoved == first + 1

NextFirst ==
    /\ stage = "scan"
    /\ second > Len(ranges)
    /\ first <= Len(ranges)
    /\ first' = FirstMoved
    /\ second' = first + 2
    /\ UNCHANGED <<grower, negated, stage, added, asked, proper, inverted, ranges>>

EndScan ==
    /\ stage = "scan"
    /\ first > Len(ranges)
    /\ stage' = IF grower = "DFA" THEN "done"
                ELSE IF negated /\ ~inverted THEN "optimized" ELSE "merge"
    /\ UNCHANGED <<grower, negated, added, asked, proper, inverted, ranges, first, second>>

-----------------------------------------------------------------------------
(* complement. *)

\* generateAllCharacters, which leaves the greatest out.
AllCharacters == 0 .. (MaxChar - 1)
Remaining == {c \in AllCharacters : ~Holds(ranges, c)}

\* The maximal intervals of S, in ascending order.
Clumps(S) ==
    LET R == {r \in [lo : S, hi : S] :
                 /\ r.lo .. r.hi \subseteq S /\ r.lo <= r.hi
                 /\ r.lo - 1 \notin S /\ r.hi + 1 \notin S}
    IN  [i \in 1 .. Cardinality(R) |->
            CHOOSE r \in R : Cardinality({q \in R : q.lo < r.lo}) = i - 1]

\* The first clump counts from 0 wherever it begins.
ComplementedShort == Clumps(Remaining \ {Max(Remaining)})
Complemented ==
    LET clumps == Clumps(Remaining)
    IN  [clumps EXCEPT ![1] = [lo |-> 0, hi |-> @.hi - @.lo]]

Complement ==
    /\ stage = "optimized"
    /\ Remaining # {}
    /\ ranges' = Sorted(AddAll(Complemented))
    /\ inverted' = TRUE
    /\ stage' = "scan"
    /\ first' = 1
    /\ second' = 2
    /\ UNCHANGED <<grower, negated, added, asked, proper>>

\* With no character left the loop ends one before the begin of the vector.
ComplementNothing ==
    /\ stage = "optimized"
    /\ Remaining = {}
    /\ stage' = "undefined"
    /\ UNCHANGED <<grower, negated, added, asked, proper, inverted, ranges, first, second>>

\* TransitionTable::addEdge, into an edge without ranges.
Merge ==
    /\ stage = "merge"
    /\ ranges' = AddAll(ranges)
    /\ stage' = "done"
    /\ UNCHANGED <<grower, negated, added, asked, proper, inverted, first, second>>

-----------------------------------------------------------------------------
(* Chars as bytes. *)

\* Conversion to unsigned char, and to the i8 of LLVM IR.
Byte(c) == IF c < 0 THEN c + NegativeChars + MaxChar + 1 ELSE c

\* TransitionTable::languageChars, for one edge: an unsigned char counts from
\* the lower bound, converted, to the upper one, which is not.
LanguageCharsBelow(rs) == UNION {Byte(rs[i].lo) .. (rs[i].hi - 1) : i \in DOMAIN rs}
LanguageChars(rs) == UNION {Byte(rs[i].lo) .. rs[i].hi : i \in DOMAIN rs}

\* FullMatchTranslator::makeTestEdgeInst: the byte b passes the test generated.
TestEdgeStrict(rs, b) ==
    \E i \in DOMAIN rs : Byte(rs[i].lo) <= b /\ b < Byte(rs[i].hi)
TestEdge(rs, b) ==
    \E i \in DOMAIN rs :
        IF rs[i].lo = rs[i].hi THEN b = Byte(rs[i].lo)
        ELSE Byte(rs[i].lo) <= b /\ b <= Byte(rs[i].hi)

-----------------------------------------------------------------------------

Init ==
    /\ grower \in {"characterClass", "DFA"}
    /\ negated \in IF grower = "DFA" THEN {FALSE} ELSE BOOLEAN
    /\ stage = "add"
    /\ added = 0
    /\ asked = {}
    /\ proper = TRUE
    /\ inverted = FALSE
    /\ ranges = <<>>
    /\ first = 1
    /\ second = 2

Ended == stage \in {"done", "undefined"} /\ UNCHANGED vars

Next ==
    \/ AddRange \/ AddChar
    \/ Optimize \/ CollapsePair \/ KeepPair \/ NextFirst \/ EndScan
    \/ Complement \/ ComplementNothing
    \/ Merge
    \/ Ended

Spec == Init /\ [][Next]_vars /\ WF_vars(Next)

-----------------------------------------------------------------------------
(* Properties. *)

\* Folding, sorting with an order that is no weak order, collapsing and merging
\* neither lose nor invent a character, at no step, unless a range of the class
\* has its bounds reversed, which the grammar does not check: of [e-ab-c] the
\* second range is folded into the first and lost; collapsing may also invent
\* some.
CharsKept == proper /\ ~inverted => Chars(ranges) = asked

\* An edge of a finished DFA has ranges that neither overlap nor touch, in
\* whatever order its characters came.
Minimal ==
    grower = "DFA" /\ stage = "done" =>
        \A i, j \in DOMAIN ranges : i < j => ranges[i].hi + 1 < ranges[j].lo

\* A negated class holds the characters from 0 up to the last but one that the
\* class does not, unless the class holds character 0; and the complement is
\* undefined for a class of all characters only.  Both of classes whose ranges
\* have their bounds in order.
ComplementExact ==
    /\ stage = "done" /\ negated /\ proper /\ 0 \notin asked =>
           Chars(ranges) = AllCharacters \ asked
    /\ stage = "undefined" /\ proper => AllCharacters \subseteq asked

\* The subset construction hears of no character below 0, and of every other
\* one of an edge, unless the edge holds all characters from -1 up to it: a
\* class within ASCII is explored whole, however its ranges were folded.
AlphabetExact ==
    stage = "done" =>
        /\ LanguageChars(ranges) \subseteq Chars(ranges) \cap Nat
        /\ \A c \in Chars(ranges) \cap Nat :
               ~((-1) .. c \subseteq Chars(ranges)) => c \in LanguageChars(ranges)

\* Of all bytes, those that pass the test generated for an edge of a DFA are
\* the characters the subset construction grew the edge from: a byte of a
\* subject that is a char below 0 passes none.
GeneratedTestExact ==
    grower = "DFA" /\ stage = "done" =>
        {b \in 0 .. (NegativeChars + MaxChar) : TestEdge(ranges, b)} = asked

\* Growing, folding and complementing an edge come to an end.
Terminates == <>(stage \in {"done", "undefined"})

(* What the documentation says and the code does not do. *)

\* tests/unit/fa/edge_test.cc:13: the complement is "everything above and everything below".
ComplementIsEverythingElse ==
    stage = "done" /\ negated => Chars(ranges) = (0 .. MaxChar) \ asked

=============================================================================
