--------------------------- MODULE MatcherProofs ---------------------------
(***************************************************************************)
(* The theorems about Matcher, for every set of well-formed deterministic  *)
(* machines and every set of subjects shorter than the range of size_t.    *)
(*                                                                         *)
(* The inductive invariant says what a pending call knows: the characters  *)
(* consumed since the present attempt began spell a run into `state', that *)
(* run is the only one, and nothing accepted was abandoned on the way.     *)
(***************************************************************************)
EXTENDS Matcher, TLAPS

-----------------------------------------------------------------------------
(* How runs of a machine grow, shrink and agree, one character at a time. *)

\* Every run over w[i+1 .. j] ends in s.
AllRunsEndIn(m, w, i, j, s) == \A p \in Runs(m, w, i, j) : p[j] = s

\* The empty run stays in the start state, and is the only one.
LEMMA RunEmpty ==
    ASSUME NEW m, WellFormed(m), NEW w, NEW i \in Nat
    PROVE  /\ Reaches(m, w, i, i, StartState)
           /\ AllRunsEndIn(m, w, i, i, StartState)
<1> DEFINE p == [k \in i .. i |-> StartState]
<1>1. StartState \in States(m)
  BY DEF WellFormed, States, StartState
<1>2. p \in [i .. i -> States(m)] /\ p[i] = StartState
  BY <1>1
<1>3. p \in Runs(m, w, i, i)
  BY <1>2 DEF Runs, IsRun
<1>4. Reaches(m, w, i, i, StartState)
  BY <1>2, <1>3 DEF Reaches
<1>5. AllRunsEndIn(m, w, i, i, StartState)
  BY DEF AllRunsEndIn, Runs, IsRun
<1> QED BY <1>4, <1>5

\* A run followed by an edge that holds the next character is a run.
LEMMA RunExtend ==
    ASSUME NEW m, WellFormed(m), NEW w, NEW i \in Nat, NEW j \in Nat, i <= j,
           NEW s, Reaches(m, w, i, j, s),
           NEW t \in Successors(m, s, w[j + 1])
    PROVE  Reaches(m, w, i, j + 1, t)
<1>1. PICK p \in Runs(m, w, i, j) : p[j] = s
  BY DEF Reaches
<1> DEFINE q == [k \in i .. (j + 1) |-> IF k = j + 1 THEN t ELSE p[k]]
<1>2. /\ p \in [i .. j -> States(m)]
      /\ p[i] = StartState
      /\ \A k \in i .. (j - 1) : w[k + 1] \in m.edges[p[k]][p[k + 1]]
  BY DEF Runs, IsRun
<1>3. t \in States(m) /\ w[j + 1] \in m.edges[s][t]
  BY DEF Successors
<1>4. q \in [i .. (j + 1) -> States(m)]
  BY <1>2, <1>3
<1>5. q[i] = StartState /\ q[j + 1] = t
  BY <1>2
<1>6. ASSUME NEW k \in i .. ((j + 1) - 1)
      PROVE  w[k + 1] \in m.edges[q[k]][q[k + 1]]
  <2>1. CASE k = j
    <3>1. q[k] = s /\ q[k + 1] = t
      BY <1>1, <2>1
    <3> QED BY <3>1, <1>3, <2>1
  <2>2. CASE k \in i .. (j - 1)
    <3>1. q[k] = p[k] /\ q[k + 1] = p[k + 1]
      BY <2>2
    <3> QED BY <3>1, <1>2, <2>2
  <2> QED BY <2>1, <2>2
<1>7. q \in Runs(m, w, i, j + 1)
  BY <1>4, <1>5, <1>6 DEF Runs, IsRun
<1> QED BY <1>5, <1>7 DEF Reaches

\* A run without its last characters is a run.
LEMMA RunRestrict ==
    ASSUME NEW m, NEW w, NEW i \in Nat, NEW j \in Nat, NEW k \in i .. j,
           NEW p \in Runs(m, w, i, j)
    PROVE  /\ [l \in i .. k |-> p[l]] \in Runs(m, w, i, k)
           /\ p[k] \in States(m)
<1> DEFINE q == [l \in i .. k |-> p[l]]
<1>1. /\ p \in [i .. j -> States(m)]
      /\ p[i] = StartState
      /\ \A l \in i .. (j - 1) : w[l + 1] \in m.edges[p[l]][p[l + 1]]
  BY DEF Runs, IsRun
<1>2. q \in [i .. k -> States(m)] /\ q[i] = StartState
  BY <1>1
<1>3. ASSUME NEW l \in i .. (k - 1)
      PROVE  w[l + 1] \in m.edges[q[l]][q[l + 1]]
  <2>1. q[l] = p[l] /\ q[l + 1] = p[l + 1] /\ l \in i .. (j - 1)
    OBVIOUS
  <2> QED BY <2>1, <1>1
<1>4. q \in Runs(m, w, i, k)
  BY <1>2, <1>3 DEF Runs, IsRun
<1> QED BY <1>1, <1>4

\* The last step of a run takes an edge that holds the last character.
LEMMA RunLastStep ==
    ASSUME NEW m, NEW w, NEW i \in Nat, NEW j \in Nat, i <= j,
           NEW p \in Runs(m, w, i, j + 1)
    PROVE  p[j + 1] \in Successors(m, p[j], w[j + 1])
<1>1. /\ p \in [i .. (j + 1) -> States(m)]
      /\ \A l \in i .. ((j + 1) - 1) : w[l + 1] \in m.edges[p[l]][p[l + 1]]
  BY DEF Runs, IsRun
<1>2. j \in i .. ((j + 1) - 1) /\ j + 1 \in i .. (j + 1)
  OBVIOUS
<1> QED BY <1>1, <1>2 DEF Successors

\* In a deterministic machine the runs over one more character agree again.
LEMMA RunsAgree ==
    ASSUME NEW m, WellFormed(m), Deterministic(m),
           NEW w, NEW i \in Nat, NEW j \in Nat, i <= j,
           NEW s \in States(m), AllRunsEndIn(m, w, i, j, s),
           NEW t \in Successors(m, s, w[j + 1])
    PROVE  AllRunsEndIn(m, w, i, j + 1, t)
<1> SUFFICES ASSUME NEW p \in Runs(m, w, i, j + 1)
             PROVE  p[j + 1] = t
  BY DEF AllRunsEndIn
<1> DEFINE q == [l \in i .. j |-> p[l]]
<1>1. j \in i .. (j + 1)
  OBVIOUS
<1>2. q \in Runs(m, w, i, j)
  BY <1>1, RunRestrict
<1>3. p[j] = s
  BY <1>2 DEF AllRunsEndIn
<1>4. p[j + 1] \in Successors(m, s, w[j + 1])
  BY <1>3, RunLastStep
<1> QED BY <1>4 DEF Successors, Deterministic

\* Where every run ends in a state with no edge for the next character, no run
\* goes further.
LEMMA RunsStop ==
    ASSUME NEW m, NEW w, NEW i \in Nat, NEW j \in Nat, i <= j,
           NEW s, AllRunsEndIn(m, w, i, j, s),
           Successors(m, s, w[j + 1]) = {},
           NEW k \in Nat, k > j
    PROVE  Runs(m, w, i, k) = {}
<1> SUFFICES ASSUME NEW p \in Runs(m, w, i, k) PROVE FALSE
  OBVIOUS
<1> DEFINE q == [l \in i .. (j + 1) |-> p[l]]
<1>1. j + 1 \in i .. k /\ j \in i .. k /\ j \in i .. (j + 1)
  OBVIOUS
<1>2. q \in Runs(m, w, i, j + 1)
  BY <1>1, RunRestrict
<1>3. q[j + 1] \in Successors(m, q[j], w[j + 1])
  BY <1>2, RunLastStep
<1>4. [l \in i .. j |-> p[l]] \in Runs(m, w, i, j)
  BY <1>1, RunRestrict
<1>5. q[j] = s
  BY <1>4 DEF AllRunsEndIn
<1> QED BY <1>3, <1>5

-----------------------------------------------------------------------------
(* What a pending call knows. *)

NoMatchFrom(i) ==
    \A j \in i .. Len(subject) : ~Accepts(dfa, subject, i, j)

\* An attempt that began at position i of w is in state s at position j.
AttemptAt(m, w, i, j, s) ==
    /\ Reaches(m, w, i, j, s)
    /\ AllRunsEndIn(m, w, i, j, s)
    /\ AcceptsPersist(m) =>
           \A k \in i .. j : Accepts(m, w, i, k) => IsAcceptState(m, s)

Attempt(i) == AttemptAt(dfa, subject, i, counter, state)

\* The attempt in progress: at the first character for a full match, where
\* start_pos says for a search.
InAttempt ==
    \E i \in 0 .. counter :
        /\ kind = "full" => i = 0
        /\ kind = "search" => i = start_pos
        /\ Attempt(i)
        /\ i # 0 /\ AcceptsPersist(dfa) => NoMatchFrom(0)

EndPosInStep == kind = "search" /\ NoDeadLeaf(dfa) => end_pos = counter

Verdicts ==
    /\ FullMatchExact
    /\ AcceptJustified
    /\ SpanIsLongestMatch
    /\ PrefixNeverMissed

IInv ==
    /\ TypeOK
    /\ Pending => InAttempt /\ EndPosInStep
    /\ Verdicts

-----------------------------------------------------------------------------
(* Attempts. *)

\* At the position of an attempt, the machine accepts iff its state does.
LEMMA AttemptDecides ==
    ASSUME NEW m, NEW w, NEW i, NEW j, NEW s, AttemptAt(m, w, i, j, s)
    PROVE  Accepts(m, w, i, j) <=> IsAcceptState(m, s)
BY DEF AttemptAt, Accepts, Reaches, AllRunsEndIn, IsAcceptState

\* Wherever it begins, an attempt begins in the start state.
LEMMA AttemptBegins ==
    ASSUME NEW m, WellFormed(m), NEW w, NEW i \in Nat
    PROVE  AttemptAt(m, w, i, i, StartState)
<1>1. /\ Reaches(m, w, i, i, StartState)
      /\ AllRunsEndIn(m, w, i, i, StartState)
  BY RunEmpty
<1>2. Accepts(m, w, i, i) => IsAcceptState(m, StartState)
  BY <1>1 DEF Accepts, AllRunsEndIn, IsAcceptState
<1>3. \A k \in i .. i : k = i
  OBVIOUS
<1> QED BY <1>1, <1>2, <1>3 DEF AttemptAt

\* Taking an edge that holds the next character continues the attempt.
LEMMA AttemptAdvances ==
    ASSUME NEW m, WellFormed(m), Deterministic(m),
           NEW w, NEW i \in Nat, NEW j \in Nat, i <= j,
           NEW s \in States(m), AttemptAt(m, w, i, j, s),
           NEW t \in Successors(m, s, w[j + 1])
    PROVE  AttemptAt(m, w, i, j + 1, t)
<1>1. Reaches(m, w, i, j + 1, t)
  BY RunExtend DEF AttemptAt
<1>2. AllRunsEndIn(m, w, i, j + 1, t)
  BY RunsAgree DEF AttemptAt
<1>3. ASSUME AcceptsPersist(m), NEW k \in i .. (j + 1), Accepts(m, w, i, k)
      PROVE  IsAcceptState(m, t)
  <2>1. CASE k = j + 1
    BY <1>2, <1>3, <2>1 DEF Accepts, AllRunsEndIn, IsAcceptState
  <2>2. CASE k \in i .. j
    <3>1. s \in m.accept
      BY <1>3, <2>2 DEF AttemptAt, IsAcceptState
    <3>2. t \in States(m) /\ m.edges[s][t] # {}
      BY DEF Successors
    <3> QED BY <1>3, <3>1, <3>2 DEF AcceptsPersist, IsAcceptState
  <2> QED BY <2>1, <2>2
<1> QED BY <1>1, <1>2, <1>3 DEF AttemptAt

\* A stuck attempt: the machine accepts nothing longer, and, if accepting
\* persists and the state does not accept, nothing at all from there.
LEMMA AttemptFails ==
    ASSUME NEW m, NEW w, NEW i \in Nat, NEW j \in Nat, i <= j,
           NEW s, AttemptAt(m, w, i, j, s),
           Successors(m, s, w[j + 1]) = {}
    PROVE  /\ \A k \in Nat : k > j => ~Accepts(m, w, i, k)
           /\ AcceptsPersist(m) /\ ~IsAcceptState(m, s) =>
                  \A k \in Nat : k >= i => ~Accepts(m, w, i, k)
<1>1. ASSUME NEW k \in Nat, k > j
      PROVE  ~Accepts(m, w, i, k)
  <2>1. Runs(m, w, i, k) = {}
    BY <1>1, RunsStop DEF AttemptAt
  <2> QED BY <2>1 DEF Accepts
<1>2. ASSUME AcceptsPersist(m), ~IsAcceptState(m, s), NEW k \in i .. j
      PROVE  ~Accepts(m, w, i, k)
  BY <1>2 DEF AttemptAt
<1>3. \A k \in Nat : k >= i => k \in i .. j \/ k > j
  OBVIOUS
<1> QED BY <1>1, <1>2, <1>3

-----------------------------------------------------------------------------
(* Type correctness. *)

\* A state without a next edge is a leaf, or consumes the character.
LEMMA ConsumedIsBit == Consumed \in {0, 1}
BY DEF Consumed

\* A call begins with values of the right types.
LEMMA InitTypeOK == Init => TypeOK
  BY MachinesAssumption, SubjectsAssumption, SizeAssumption
  DEF Init, TypeOK, WellFormed, States, StartState, Size, Kinds, Untouched

\* Every step keeps the types: the cursors stay within the subject.
LEMMA StepTypeOK == TypeOK /\ [Next]_vars => TypeOK'
<1> SUFFICES ASSUME TypeOK, [Next]_vars PROVE TypeOK'
  OBVIOUS
<1> USE SizeAssumption DEF TypeOK
<1>1. Len(subject) \in Nat
  OBVIOUS
<1>2. CASE AcceptAtEnd
  BY <1>2, <1>1 DEF AcceptAtEnd, ReturnAccept, Stored, call, Size
<1>3. CASE RejectAtEnd
  BY <1>3, <1>1 DEF RejectAtEnd, ReturnReject, call
<1>4. CASE TakeEdge
  BY <1>4, <1>1 DEF TakeEdge, CountGoTo, Inc, Size, Successors, AtEnd, call
<1>5. CASE RejectStuck
  BY <1>5, <1>1, ConsumedIsBit DEF RejectStuck, ReturnReject, AtEnd, call
<1>6. CASE AcceptStuck
  BY <1>6, <1>1, ConsumedIsBit DEF AcceptStuck, ReturnAccept, Stored, AtEnd, Size, call
<1>7. CASE Restart
  BY <1>7, <1>1, ConsumedIsBit
  DEF Restart, NewStart, CountGoTo, Inc, Size, AtEnd, WellFormed, States, StartState, call
<1>8. CASE Returned
  BY <1>8 DEF Returned, vars, call
<1>9. CASE UNCHANGED vars
  BY <1>9 DEF vars, call
<1> QED BY <1>2, <1>3, <1>4, <1>5, <1>6, <1>7, <1>8, <1>9 DEF Next

\* The entry block and the block of every state keep the variables in range:
\* in particular nothing is read at or past subject_len.
THEOREM TypeCorrect == Spec => []TypeOK
BY InitTypeOK, StepTypeOK, PTL DEF Spec

-----------------------------------------------------------------------------
(* The inductive invariant. *)

\* The invariant holds when the call begins.
LEMMA InitIInv == Init => IInv
<1> SUFFICES ASSUME Init PROVE IInv
  OBVIOUS
<1>1. TypeOK
  BY InitTypeOK
<1>2. Attempt(0)
  BY <1>1, AttemptBegins DEF Init, Attempt, TypeOK
<1>3. InAttempt
  BY <1>2 DEF Init, InAttempt
<1> QED BY <1>1, <1>3
        DEF Init, IInv, EndPosInStep, Pending, Verdicts, FullMatchExact,
            AcceptJustified, SpanIsLongestMatch, PrefixNeverMissed

\* At the end of the subject the attempt in progress decides.
LEMMA EndDecides ==
    ASSUME IInv, Pending, AtEnd
    PROVE  /\ kind = "full" =>
                  (IsAcceptState(dfa, state) <=>
                       Accepts(dfa, subject, 0, Len(subject)))
           /\ kind = "search" =>
                  (IsAcceptState(dfa, state) <=>
                       Accepts(dfa, subject, start_pos, Len(subject)))
           /\ IsAcceptState(dfa, state) =>
                  \E i \in 0 .. Len(subject) :
                      Accepts(dfa, subject, i, Len(subject))
           /\ ~IsAcceptState(dfa, state) /\ AcceptsPersist(dfa) =>
                  NoMatchFrom(0)
<1>1. PICK i \in 0 .. counter :
          /\ kind = "full" => i = 0
          /\ kind = "search" => i = start_pos
          /\ Attempt(i)
          /\ i # 0 /\ AcceptsPersist(dfa) => NoMatchFrom(0)
  BY DEF IInv, InAttempt
<1>2. counter = Len(subject)
  BY DEF AtEnd
<1>3. Accepts(dfa, subject, i, Len(subject)) <=> IsAcceptState(dfa, state)
  BY <1>1, <1>2, AttemptDecides DEF Attempt
<1>4. ASSUME ~IsAcceptState(dfa, state), AcceptsPersist(dfa)
      PROVE  NoMatchFrom(0)
  BY <1>1, <1>2, <1>4 DEF Attempt, AttemptAt, NoMatchFrom
<1> QED BY <1>1, <1>2, <1>3, <1>4

\* A stuck block decides whether its attempt accepted what it read.
LEMMA StuckDecides ==
    ASSUME IInv, Pending, ~AtEnd, Stuck
    PROVE  /\ kind = "full" => ~Accepts(dfa, subject, 0, Len(subject))
           /\ kind = "search" =>
                  /\ IsAcceptState(dfa, state) =>
                         Accepts(dfa, subject, start_pos, counter)
                  /\ \A k \in (counter + 1) .. Len(subject) :
                         ~Accepts(dfa, subject, start_pos, k)
                  /\ ~IsAcceptState(dfa, state) /\ AcceptsPersist(dfa) =>
                         NoMatchFrom(start_pos)
           /\ IsAcceptState(dfa, state) =>
                  \E i \in 0 .. counter : Accepts(dfa, subject, i, counter)
           /\ ~IsAcceptState(dfa, state) /\ AcceptsPersist(dfa) =>
                  NoMatchFrom(0)
<1>1. PICK i \in 0 .. counter :
          /\ kind = "full" => i = 0
          /\ kind = "search" => i = start_pos
          /\ Attempt(i)
          /\ i # 0 /\ AcceptsPersist(dfa) => NoMatchFrom(0)
  BY DEF IInv, InAttempt
<1>2. counter \in Nat /\ Len(subject) \in Nat /\ counter < Len(subject)
  BY DEF IInv, TypeOK, AtEnd
<1>3. AttemptAt(dfa, subject, i, counter, state)
  BY <1>1 DEF Attempt
<1>4. Successors(dfa, state, subject[counter + 1]) = {}
  BY DEF Stuck, Cursor
<1>5. i \in Nat /\ i <= counter
  BY <1>1, <1>2
<1>6. /\ \A k \in Nat : k > counter => ~Accepts(dfa, subject, i, k)
      /\ AcceptsPersist(dfa) /\ ~IsAcceptState(dfa, state) =>
             \A k \in Nat : k >= i => ~Accepts(dfa, subject, i, k)
  BY <1>2, <1>3, <1>4, <1>5, AttemptFails
<1>7. Accepts(dfa, subject, i, counter) <=> IsAcceptState(dfa, state)
  BY <1>3, AttemptDecides
<1>8. ASSUME ~IsAcceptState(dfa, state), AcceptsPersist(dfa)
      PROVE  NoMatchFrom(i) /\ NoMatchFrom(0)
  BY <1>1, <1>2, <1>6, <1>8 DEF NoMatchFrom
<1>9. \A k \in (counter + 1) .. Len(subject) :
          k \in Nat /\ k > counter /\ ~Accepts(dfa, subject, i, k)
  BY <1>2, <1>6
<1> QED BY <1>1, <1>2, <1>6, <1>7, <1>8, <1>9

\* A call in progress stays in an attempt.
LEMMA TakeEdgeIInv == IInv /\ TakeEdge => IInv'
<1> SUFFICES ASSUME IInv, TakeEdge PROVE IInv'
  OBVIOUS
<1>1. TypeOK /\ TypeOK'
  BY StepTypeOK DEF IInv, Next
<1>2. PICK i \in 0 .. counter :
          /\ kind = "full" => i = 0
          /\ kind = "search" => i = start_pos
          /\ Attempt(i)
          /\ i # 0 /\ AcceptsPersist(dfa) => NoMatchFrom(0)
  BY DEF IInv, InAttempt, TakeEdge
<1>3. /\ UNCHANGED <<dfa, kind, subject, wants, start_pos, result>>
      /\ counter' = counter + 1
      /\ counter \in Nat /\ counter < Len(subject) /\ i \in Nat /\ i <= counter
  BY <1>1, <1>2 DEF TakeEdge, TypeOK, AtEnd, call
<1>4. AttemptAt(dfa, subject, i, counter + 1, state')
  <2>1. state' \in Successors(dfa, state, subject[counter + 1])
    BY DEF TakeEdge, Cursor
  <2>2. AttemptAt(dfa, subject, i, counter, state) /\ state \in States(dfa)
    BY <1>1, <1>2 DEF Attempt, TypeOK
  <2>3. WellFormed(dfa) /\ Deterministic(dfa)
    BY <1>1 DEF TypeOK
  <2> QED BY <1>3, <2>1, <2>2, <2>3, AttemptAdvances
<1>5. Attempt(i)'
  BY <1>3, <1>4 DEF Attempt
<1>6. InAttempt'
  BY <1>2, <1>3, <1>5 DEF InAttempt, NoMatchFrom
<1>7. EndPosInStep'
  BY <1>1, <1>3 DEF IInv, EndPosInStep, TakeEdge, CountGoTo, Inc, TypeOK
<1>8. Pending'
  BY DEF TakeEdge, Pending
<1>9. Verdicts'
  BY <1>8 DEF Pending, Verdicts, FullMatchExact, AcceptJustified,
              SpanIsLongestMatch, PrefixNeverMissed
<1> QED BY <1>1, <1>6, <1>7, <1>9 DEF IInv

\* A restart keeps the invariant: the start it leaves has been ruled out.
LEMMA RestartIInv == IInv /\ Restart => IInv'
<1> SUFFICES ASSUME IInv, Restart PROVE IInv'
  OBVIOUS
<1>1. TypeOK /\ TypeOK'
  BY StepTypeOK DEF IInv, Next
<1>2. /\ UNCHANGED <<dfa, kind, subject, wants, result>>
      /\ kind # "full"
      /\ kind = "search" => start_pos' = counter'
      /\ state' = StartState
      /\ counter' \in Nat
  BY <1>1 DEF Restart, NewStart, TypeOK, call
<1>3. Attempt(counter)'
  BY <1>1, <1>2, AttemptBegins DEF Attempt, TypeOK
<1>4. AcceptsPersist(dfa) => NoMatchFrom(0)
  BY StuckDecides DEF Restart, Accepting
<1>5. InAttempt'
  BY <1>2, <1>3, <1>4 DEF InAttempt, NoMatchFrom
<1>6. EndPosInStep'
  <2> SUFFICES ASSUME kind = "search", NoDeadLeaf(dfa)
               PROVE  end_pos' = counter'
    BY <1>2 DEF EndPosInStep
  <2>1. ~IsLeaf(dfa, state)
    BY <1>1 DEF Restart, NoDeadLeaf, DeadLeaf, TypeOK, Accepting
  <2>2. counter' = counter + 1
    BY <2>1 DEF Restart, Consumed
  <2>3. end_pos = counter
    BY DEF IInv, EndPosInStep, Restart
  <2> QED BY <1>1, <2>2, <2>3 DEF Restart, CountGoTo, Inc, TypeOK
<1>7. Pending'
  BY DEF Restart, Pending
<1>8. Verdicts'
  BY <1>7 DEF Pending, Verdicts, FullMatchExact, AcceptJustified,
              SpanIsLongestMatch, PrefixNeverMissed
<1> QED BY <1>1, <1>5, <1>6, <1>8 DEF IInv

\* A returning call has justified its verdict.
LEMMA AtEndIInv == IInv /\ (AcceptAtEnd \/ RejectAtEnd) => IInv'
<1> SUFFICES ASSUME IInv, AcceptAtEnd \/ RejectAtEnd PROVE IInv'
  OBVIOUS
<1>1. TypeOK /\ TypeOK'
  BY StepTypeOK DEF IInv, Next
<1>2. UNCHANGED <<dfa, kind, subject, start_pos, end_pos>>
  BY DEF AcceptAtEnd, RejectAtEnd, ReturnAccept, ReturnReject, call
<1>3. Pending /\ AtEnd /\ ~Pending' /\ (result' = "accept" <=> IsAcceptState(dfa, state))
  BY DEF AcceptAtEnd, RejectAtEnd, ReturnAccept, ReturnReject, Pending, Accepting
<1>4. Len(subject) \in Nat /\ counter = Len(subject)
  BY <1>1, <1>3 DEF TypeOK, AtEnd
<1>5. FullMatchExact'
  BY <1>2, <1>3, EndDecides DEF FullMatchExact
<1>6. AcceptJustified'
  BY <1>2, <1>3, <1>4, EndDecides DEF AcceptJustified
<1>7. SpanIsLongestMatch'
  <2>1. kind = "search" /\ NoDeadLeaf(dfa) => end_pos = counter
    BY <1>3 DEF IInv, EndPosInStep
  <2>2. start_pos <= counter
    BY <1>1 DEF TypeOK
  <2>3. \A j \in (Len(subject) + 1) .. Len(subject) : FALSE
    BY <1>4
  <2> QED BY <1>2, <1>3, <1>4, <2>1, <2>2, <2>3, EndDecides DEF SpanIsLongestMatch
<1>8. PrefixNeverMissed'
  <2>1. result' = "reject" => ~IsAcceptState(dfa, state)
    BY <1>3
  <2> QED BY <1>2, <1>3, <2>1, EndDecides DEF PrefixNeverMissed, NoMatchFrom
<1> QED BY <1>1, <1>3, <1>5, <1>6, <1>7, <1>8 DEF IInv, Verdicts

\* A function that returns where no edge fits keeps the invariant.
LEMMA StuckIInv == IInv /\ (AcceptStuck \/ RejectStuck) => IInv'
<1> SUFFICES ASSUME IInv, AcceptStuck \/ RejectStuck PROVE IInv'
  OBVIOUS
<1>1. TypeOK /\ TypeOK'
  BY StepTypeOK DEF IInv, Next
<1>2. UNCHANGED <<dfa, kind, subject, start_pos, end_pos>>
  BY DEF AcceptStuck, RejectStuck, ReturnAccept, ReturnReject, call
<1>3. /\ Pending /\ ~AtEnd /\ Stuck /\ ~Pending'
      /\ kind = "full" => result' = "reject"
      /\ kind # "full" => result' = "accept" /\ IsAcceptState(dfa, state)
  BY DEF AcceptStuck, RejectStuck, ReturnAccept, ReturnReject, Pending, Accepting
<1>4. Len(subject) \in Nat /\ counter \in 0 .. Len(subject)
  BY <1>1 DEF TypeOK
<1>5. FullMatchExact'
  BY <1>2, <1>3, StuckDecides DEF FullMatchExact
<1>6. AcceptJustified'
  <2>1. kind # "full" => \E i \in 0 .. counter : Accepts(dfa, subject, i, counter)
    BY <1>3, StuckDecides
  <2> QED BY <1>2, <1>4, <2>1 DEF AcceptJustified
<1>7. SpanIsLongestMatch'
  <2>1. kind = "search" /\ NoDeadLeaf(dfa) => end_pos = counter
    BY <1>3 DEF IInv, EndPosInStep
  <2>2. start_pos <= counter
    BY <1>1 DEF TypeOK
  <2> QED BY <1>2, <1>3, <1>4, <2>1, <2>2, StuckDecides DEF SpanIsLongestMatch
<1>8. PrefixNeverMissed'
  BY <1>2, <1>3 DEF PrefixNeverMissed
<1> QED BY <1>1, <1>3, <1>5, <1>6, <1>7, <1>8 DEF IInv, Verdicts

\* Every step preserves the invariant.
LEMMA StepIInv == IInv /\ [Next]_vars => IInv'
<1> SUFFICES ASSUME IInv, [Next]_vars PROVE IInv'
  OBVIOUS
<1>1. CASE Returned \/ UNCHANGED vars
  <2>1. UNCHANGED vars
    BY <1>1 DEF Returned
  <2>2. TypeOK'
    BY <2>1, StepTypeOK DEF IInv
  <2>3. UNCHANGED <<dfa, kind, subject, state, counter, start_pos, end_pos, result>>
    BY <2>1 DEF vars, call
  <2>4. Pending' => (InAttempt /\ EndPosInStep)'
    BY <2>3 DEF IInv, Pending, InAttempt, EndPosInStep, Attempt,
                NoMatchFrom
  <2>5. Verdicts'
    BY <2>3 DEF IInv, Verdicts, Pending, FullMatchExact, AcceptJustified,
                SpanIsLongestMatch, PrefixNeverMissed
  <2> QED BY <2>2, <2>4, <2>5 DEF IInv
<1> QED BY <1>1, TakeEdgeIInv, RestartIInv, AtEndIInv, StuckIInv DEF Next

\* The invariant holds throughout.
LEMMA Invariance == Spec => []IInv
BY InitIInv, StepIInv, PTL DEF Spec

-----------------------------------------------------------------------------
(* The theorems. *)

\* A full match accepts exactly the subjects in the language of the machine.
THEOREM FullMatchCorrect == Spec => []FullMatchExact
<1>1. IInv => FullMatchExact
  BY DEF IInv, Verdicts
<1> QED BY <1>1, Invariance, PTL

\* An accepting sub match or search is justified by a submatch.
THEOREM SubMatchSound == Spec => []AcceptJustified
<1>1. IInv => AcceptJustified
  BY DEF IInv, Verdicts
<1> QED BY <1>1, Invariance, PTL

\* Without dead leaves, a search reports a longest match from its start.
THEOREM SearchSpanCorrect == Spec => []SpanIsLongestMatch
<1>1. IInv => SpanIsLongestMatch
  BY DEF IInv, Verdicts
<1> QED BY <1>1, Invariance, PTL

\* A match at the first character is never missed when accepting persists.
THEOREM PrefixFound == Spec => []PrefixNeverMissed
<1>1. IInv => PrefixNeverMissed
  BY DEF IInv, Verdicts
<1> QED BY <1>1, Invariance, PTL

\* A search moves its start forward only, and where accepting persists gives a
\* start up only if no match begins there.
THEOREM StartAbandonedRightly == Spec => AbandonedStartHasNoMatch
<1>1. ASSUME IInv, [Next]_vars, start_pos' # start_pos
      PROVE  /\ start_pos' > start_pos
             /\ AcceptsPersist(dfa) => NoMatchFrom(start_pos)
  <2>1. Restart /\ kind = "search"
    BY <1>1 DEF Next, AcceptAtEnd, RejectAtEnd, TakeEdge, RejectStuck,
                AcceptStuck, Restart, Returned, ReturnAccept, ReturnReject, NewStart, vars
  <2>2. AcceptsPersist(dfa) => NoMatchFrom(start_pos)
    BY <1>1, <2>1, StuckDecides DEF Restart, Accepting
  <2>3. start_pos' = counter + Consumed /\ start_pos \in 0 .. counter /\ counter \in Nat
    BY <1>1, <2>1 DEF Restart, NewStart, IInv, TypeOK
  <2> QED BY <1>1, <2>2, <2>3, ConsumedIsBit
<1>2. IInv /\ [Next]_vars => [start_pos' # start_pos =>
           /\ start_pos' > start_pos
           /\ AcceptsPersist(dfa) =>
                  \A j \in start_pos .. Len(subject) :
                      ~Accepts(dfa, subject, start_pos, j)]_vars
  BY <1>1 DEF NoMatchFrom
<1> QED BY <1>2, Invariance, PTL DEF Spec, AbandonedStartHasNoMatch

-----------------------------------------------------------------------------
(* Refinement of the contract. *)

\* The contract and the matcher mean the same by a machine and its language.
LEMMA SameLanguage ==
    /\ \A m, w, i, j : Contract!Accepts(m, w, i, j) <=> Accepts(m, w, i, j)
    /\ \A m : Contract!AcceptsPersist(m) <=> AcceptsPersist(m)
    /\ \A m : Contract!NoDeadLeaf(m) <=> NoDeadLeaf(m)
    /\ \A m : Contract!WellFormed(m) <=> WellFormed(m)
    /\ \A m : Contract!Deterministic(m) <=> Deterministic(m)
BY DEF Contract!Accepts, Contract!Runs, Contract!IsRun, Contract!States,
       Contract!StartState, Contract!AcceptsPersist, Contract!NoDeadLeaf,
       Contract!DeadLeaf, Contract!IsLeaf, Contract!IsAcceptState,
       Contract!WellFormed, Contract!Deterministic,
       Accepts, Runs, IsRun, States, StartState, AcceptsPersist, NoDeadLeaf,
       DeadLeaf, IsLeaf, IsAcceptState, WellFormed, Deterministic

\* An accepting return is one the contract allows.
LEMMA AcceptRefines ==
    ASSUME IInv, AcceptAtEnd \/ AcceptStuck
    PROVE  Contract!ReturnAccept
<1>1. /\ Pending /\ result' = "accept" /\ IsAcceptState(dfa, state)
      /\ UNCHANGED <<dfa, kind, subject, wants>>
      /\ outStart' = IF kind = "search" /\ "start" \in wants THEN start_pos ELSE outStart
      /\ outEnd' = IF kind = "search" /\ "end" \in wants THEN end_pos ELSE outEnd
      /\ AtEnd \/ (~AtEnd /\ Stuck /\ kind # "full")
  BY DEF AcceptAtEnd, AcceptStuck, ReturnAccept, Stored, Accepting, call
<1>2. /\ Len(subject) \in Nat /\ counter \in 0 .. Len(subject)
      /\ start_pos \in 0 .. counter /\ end_pos \in Nat
  BY DEF IInv, TypeOK, Size
<1>3. kind = "full" => Accepts(dfa, subject, 0, Len(subject))
  BY <1>1, EndDecides
<1>4. \E i \in 0 .. counter : Accepts(dfa, subject, i, counter)
  <2>1. CASE AtEnd
    BY <1>1, <2>1, EndDecides DEF AtEnd
  <2>2. CASE ~AtEnd
    BY <1>1, <2>2, StuckDecides
  <2> QED BY <2>1, <2>2
<1>5. Contract!MayAccept
  BY <1>2, <1>3, <1>4, SameLanguage DEF Contract!MayAccept, Contract!Positions
<1>6. ASSUME kind = "search"
      PROVE  Contract!IsSpan(start_pos, counter)
  <2>1. CASE AtEnd
    <3>1. Accepts(dfa, subject, start_pos, counter)
      BY <1>1, <1>6, <2>1, EndDecides DEF AtEnd
    <3>2. \A k \in (counter + 1) .. Len(subject) : FALSE
      BY <1>2, <2>1 DEF AtEnd
    <3> QED BY <1>2, <3>1, <3>2, SameLanguage DEF Contract!IsSpan
  <2>2. CASE ~AtEnd
    BY <1>1, <1>2, <1>6, <2>2, StuckDecides, SameLanguage DEF Contract!IsSpan
  <2> QED BY <2>1, <2>2
<1>7. kind = "search" /\ NoDeadLeaf(dfa) => end_pos = counter
  BY <1>1 DEF IInv, EndPosInStep
<1>8. /\ Contract!Writes("start") <=> kind = "search" /\ "start" \in wants
      /\ Contract!Writes("end") <=> kind = "search" /\ "end" \in wants
  BY DEF Contract!Writes
<1>9. \E i, j \in 0 .. Len(subject) :
           /\ kind = "search" => Contract!IsSpan(i, j)
           /\ outStart' = IF Contract!Writes("start") THEN i ELSE outStart
           /\ IF Contract!Writes("end")
              THEN outEnd' \in Nat /\ (Contract!NoDeadLeaf(dfa) => outEnd' = j)
              ELSE UNCHANGED outEnd
  <2>1. start_pos \in 0 .. Len(subject) /\ counter \in 0 .. Len(subject)
    BY <1>2
  <2>2. outStart' = IF Contract!Writes("start") THEN start_pos ELSE outStart
    BY <1>1, <1>8
  <2>3. IF Contract!Writes("end")
        THEN outEnd' \in Nat /\ (Contract!NoDeadLeaf(dfa) => outEnd' = counter)
        ELSE UNCHANGED outEnd
    BY <1>1, <1>2, <1>7, <1>8, SameLanguage
  <2> QED BY <1>6, <2>1, <2>2, <2>3
<1> QED BY <1>1, <1>5, <1>9
        DEF Contract!ReturnAccept, Contract!Positions, Pending

\* A rejecting return is one the contract allows.
LEMMA RejectRefines ==
    ASSUME IInv, RejectAtEnd \/ RejectStuck
    PROVE  Contract!ReturnReject
<1>1. /\ Pending /\ result' = "reject"
      /\ UNCHANGED <<dfa, kind, subject, wants, outStart, outEnd>>
      /\ \/ AtEnd /\ ~IsAcceptState(dfa, state)
         \/ ~AtEnd /\ Stuck /\ kind = "full"
  BY DEF RejectAtEnd, RejectStuck, ReturnReject, call, Accepting
<1>2. kind = "full" => ~Accepts(dfa, subject, 0, Len(subject))
  BY <1>1, EndDecides, StuckDecides
<1>3. kind # "full" /\ AcceptsPersist(dfa) => NoMatchFrom(0)
  BY <1>1, EndDecides
<1>4. Contract!MayReject
  BY <1>2, <1>3, SameLanguage
  DEF Contract!MayReject, Contract!Positions, NoMatchFrom
<1> QED BY <1>1, <1>4 DEF Contract!ReturnReject, Pending

\* Every call returns a verdict and a span the contract allows, and changes
\* nothing of the caller's otherwise.
THEOREM MatcherImplementsContract == Spec => Contract!Spec
<1>1. Init => Contract!Init
  BY MachinesAssumption, SubjectsAssumption, SameLanguage
  DEF Init, Contract!Init, Kinds, Contract!Kinds, Untouched
<1>2. IInv /\ [Next]_vars => [Contract!Next]_(Contract!contractVars)
  <2> SUFFICES ASSUME IInv, [Next]_vars
               PROVE  Contract!Next \/ UNCHANGED Contract!contractVars
    OBVIOUS
  <2>1. CASE TakeEdge \/ Restart \/ Returned \/ UNCHANGED vars
    BY <2>1 DEF TakeEdge, Restart, Returned, vars, call, Contract!contractVars
  <2>2. CASE AcceptAtEnd \/ AcceptStuck
    BY <2>2, AcceptRefines DEF Contract!Next
  <2>3. CASE RejectAtEnd \/ RejectStuck
    BY <2>3, RejectRefines DEF Contract!Next
  <2> QED BY <2>1, <2>2, <2>3 DEF Next
<1> QED BY <1>1, <1>2, Invariance, PTL DEF Spec, Contract!Spec

=============================================================================
