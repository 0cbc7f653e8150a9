--------------------------- MODULE MatchContract ---------------------------
(***************************************************************************)
(* What a generated function promises its caller, with nothing of how it   *)
(* does it: one call, pending until it returns, whose verdict and outputs  *)
(* agree with the language of the machine it was compiled from.            *)
(*                                                                         *)
(* "full" accepts exactly the subjects the machine accepts.  "sub" and     *)
(* "search" promise less than the README's "true if there is some submatch *)
(* within the input text": an accepting verdict is always justified by a   *)
(* submatch, and when accepting persists (AcceptsPersist) a match at the   *)
(* beginning of the subject is never missed.  The end of a reported span   *)
(* is promised only for machines without a dead leaf.  Runs of Matcher.tla *)
(* show that the stronger sentences of the documentation do not hold.      *)
(***************************************************************************)
EXTENDS Automaton

VARIABLES
    dfa,            \* the machine of the function called
    kind,           \* "full", "sub" or "search"
    subject,        \* the caller's string
    wants,          \* which of "start" and "end" are non-null pointers
    result,         \* "pending", "accept" or "reject"
    outStart,       \* the caller's *start_pos: a position, or Untouched
    outEnd          \* the caller's *end_pos

contractVars == <<dfa, kind, subject, wants, result, outStart, outEnd>>

Kinds == {"full", "sub", "search"}
Untouched == -1

Positions(w) == 0 .. Len(w)

Init ==
    /\ WellFormed(dfa) /\ Deterministic(dfa)
    /\ kind \in Kinds
    /\ subject \in Seq(Char)
    /\ wants \subseteq {"start", "end"}
    /\ result = "pending"
    /\ outStart = Untouched
    /\ outEnd = Untouched

\* The verdicts that may be returned.
MayAccept ==
    IF kind = "full"
    THEN Accepts(dfa, subject, 0, Len(subject))
    ELSE \E i, j \in Positions(subject) : i <= j /\ Accepts(dfa, subject, i, j)

MayReject ==
    IF kind = "full"
    THEN ~Accepts(dfa, subject, 0, Len(subject))
    ELSE AcceptsPersist(dfa) =>
             \A j \in Positions(subject) : ~Accepts(dfa, subject, 0, j)

\* The span a caller may be given: an accepted substring that is no prefix of
\* a longer one accepted from the same position.
IsSpan(i, j) ==
    /\ i <= j
    /\ Accepts(dfa, subject, i, j)
    /\ \A k \in (j + 1) .. Len(subject) : ~Accepts(dfa, subject, i, k)

\* A search writes a position through each pointer that is not null; nothing
\* else of the caller's changes.
Writes(name) == kind = "search" /\ name \in wants

ReturnAccept ==
    /\ result = "pending"
    /\ MayAccept
    /\ result' = "accept"
    /\ \E i, j \in Positions(subject) :
           /\ kind = "search" => IsSpan(i, j)
           /\ outStart' = IF Writes("start") THEN i ELSE outStart
           /\ IF Writes("end")
              THEN outEnd' \in Nat /\ (NoDeadLeaf(dfa) => outEnd' = j)
              ELSE UNCHANGED outEnd
    /\ UNCHANGED <<dfa, kind, subject, wants>>

ReturnReject ==
    /\ result = "pending"
    /\ MayReject
    /\ result' = "reject"
    /\ UNCHANGED <<dfa, kind, subject, wants, outStart, outEnd>>

Next == ReturnAccept \/ ReturnReject

Spec == Init /\ [][Next]_contractVars

=============================================================================
