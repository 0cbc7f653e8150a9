----------------------------- MODULE HirMachine -----------------------------
(***************************************************************************)
(* A regular expression on its way from a DFA to a running function:       *)
(* Program::compile appends the instructions of one state after another,   *)
(* ProgramTranslator::translate renders them in basic blocks of LLVM IR,   *)
(* and the function generated is called and runs them, one instruction of  *)
(* IR at a time.                                                           *)
(*                                                                         *)
(* The function implements Matcher.tla, one of whose steps is the way from *)
(* one state's block to the next one's, or to the return.                  *)
(***************************************************************************)
EXTENDS IrTranslation

CONSTANTS
    Machines,       \* the machines compiled
    Subjects,       \* the strings the functions are called with
    SizeMod         \* size_t arithmetic is modulo SizeMod

VARIABLES
    dfa, kind,      \* what is compiled, and by which compiler
    subject, wants, \* the call: subject, and the non-null output pointers
    stage,          \* "compile", "setup", "translate", "run", "return" or "error"
    program,        \* Program::instructions
    instIter,       \* index of the instruction to translate
    function,       \* the translator, its blocks those of the function
    pc,             \* the block and the index in it of the instruction to execute
    locals,         \* the variables allocated, with their contents
    entered,        \* history: the last state whose block was branched to, and
                    \* the variables as they were then
    result, outStart, outEnd

call == <<dfa, kind, subject, wants>>
out == <<result, outStart, outEnd>>
execution == <<pc, locals, entered, out>>
vars == <<call, stage, program, instIter, function, execution>>

Kinds == {"full", "sub", "search"}
Untouched == -1

ASSUME MachinesAssumption ==
    \A m \in Machines : WellFormed(m) /\ Deterministic(m)

ASSUME SubjectsAssumption == Subjects \subseteq Seq(Char)

ASSUME SizeAssumption ==
    /\ SizeMod \in Nat
    /\ \A w \in Subjects : Len(w) < SizeMod

NoVariables == [v \in {} |-> 0]

Inc(i) == (i + 1) % SizeMod

-----------------------------------------------------------------------------
(* Compilation. *)

Init ==
    /\ dfa \in Machines
    /\ kind \in Kinds
    /\ subject \in Subjects
    /\ wants \in SUBSET {"start", "end"}
    /\ kind # "search" => wants = {}
    /\ stage = "compile"
    /\ program = BuildSetup(kind)
    /\ instIter = 1
    /\ function = NewTranslator(kind)
    /\ pc = [block |-> 1, next |-> 1]
    /\ locals = NoVariables
    /\ entered = [state |-> StartState, locals |-> NoVariables]
    /\ result = "pending"
    /\ outStart = Untouched
    /\ outEnd = Untouched

\* The states compiled so far are the labels the program has.
Compiled == {program[i].id : i \in {j \in DOMAIN program : program[j].op = "START_STATE"}}

\* One iteration of the loop of Program::compile.
CompileState ==
    /\ stage = "compile"
    /\ LET s == Cardinality(Compiled)
       IN  /\ s \in States(dfa)
           /\ \E order \in Orders(dfa, s) :
                  program' = program \o BuildState(kind, dfa, s, order)
    /\ UNCHANGED <<call, stage, instIter, function, execution>>

FinishCompile ==
    /\ stage = "compile"
    /\ Compiled = States(dfa)
    /\ stage' = "setup"
    /\ UNCHANGED <<call, program, instIter, function, execution>>

-----------------------------------------------------------------------------
(* Translation. *)

\* makeInstruction; an exception leaves the function half built.
TranslateNext ==
    /\ function' = Make(kind, function, program[instIter])
    /\ instIter' = instIter + 1
    /\ stage' = IF function'.ok THEN stage ELSE "error"
    /\ UNCHANGED <<call, program, execution>>

\* makeEntryBlock translates the instructions before the first state.
TranslateSetup ==
    /\ stage = "setup"
    /\ program[instIter].op # "START_STATE"
    /\ TranslateNext

\* The accept and reject blocks, the blocks of the states, and the branch from
\* the entry block to the first of them.
MakeBlocks ==
    /\ stage = "setup"
    /\ program[instIter].op = "START_STATE"
    /\ function' = Linked(StateBlocks(EndBlocks(function), Compiled))
    /\ stage' = "translate"
    /\ UNCHANGED <<call, program, instIter, execution>>

TranslateInstruction ==
    /\ stage = "translate"
    /\ instIter \in DOMAIN program
    /\ TranslateNext

FinishTranslate ==
    /\ stage = "translate"
    /\ instIter \notin DOMAIN program
    /\ stage' = "run"
    /\ UNCHANGED <<call, program, instIter, function, execution>>

-----------------------------------------------------------------------------
(* Execution. *)

inst == function.blocks[pc.block][pc.next]
Running(op) == stage = "run" /\ inst.op = op

\* The next instruction of the block.
GoOn ==
    /\ pc' = [pc EXCEPT !.next = @ + 1]
    /\ UNCHANGED <<call, stage, program, instIter, function, entered>>

\* Execution goes on in block b.
BranchTo(b) ==
    LET reached == {s \in DOMAIN function.labels : function.labels[s] = b}
    IN  /\ pc' = [block |-> b, next |-> 1]
        /\ \/ /\ reached = {}
              /\ UNCHANGED entered
           \/ \E s \in reached : entered' = [state |-> s, locals |-> locals]
        /\ UNCHANGED <<call, stage, program, instIter, function, locals, out>>

\* A variable is allocated and set to 0.
ExecAlloca ==
    /\ Running("alloca")
    /\ locals' = WithEntry(locals, inst.name, 0)
    /\ GoOn /\ UNCHANGED out

\* A read past the end of the subject yields whatever is there.
ReadAt(i) == IF i < Len(subject) THEN {subject[i + 1]} ELSE Char

\* The cursor is read at counter, which is incremented.
ExecReadChar ==
    /\ Running("readchar")
    /\ \E c \in ReadAt(locals.counter) :
           locals' = [locals EXCEPT !.cursor = c, !.counter = Inc(@)]
    /\ GoOn /\ UNCHANGED out

ExecIncrement ==
    /\ Running("increment")
    /\ locals' = [locals EXCEPT ![inst.name] = Inc(@)]
    /\ GoOn /\ UNCHANGED out

ExecCopy ==
    /\ Running("copy")
    /\ locals' = [locals EXCEPT ![inst.dest] = locals[inst.source]]
    /\ GoOn /\ UNCHANGED out

\* A store through the pointer the caller passed for the variable.
ExecStoreOut ==
    /\ Running("storeout")
    /\ \/ /\ inst.name = "start_pos"
          /\ outStart' = locals.start_pos
          /\ UNCHANGED outEnd
       \/ /\ inst.name = "end_pos"
          /\ outEnd' = locals.end_pos
          /\ UNCHANGED outStart
    /\ GoOn /\ UNCHANGED <<locals, result>>

ExecBr ==
    /\ Running("br")
    /\ BranchTo(inst.to)

\* The outcome of a comparison: of the counter with subject_len, of the cursor
\* with the ranges of an edge, of a parameter with null.
Holds(cond) ==
    \/ cond.test = "end" /\ locals.counter = Len(subject)
    \/ cond.test = "edge" /\ locals.cursor \in cond.edge
    \/ cond.test = "nonnull" /\ \/ cond.name = "start_pos" /\ "start" \in wants
                                \/ cond.name = "end_pos" /\ "end" \in wants

ExecCondBr ==
    /\ Running("condbr")
    /\ BranchTo(IF Holds(inst.cond) THEN inst.then ELSE inst.else)

ExecRet ==
    /\ Running("ret")
    /\ result' = inst.value
    /\ stage' = "return"
    /\ UNCHANGED <<call, program, instIter, function, pc, locals, entered, outStart, outEnd>>

\* The call has returned, or compilation was given up by an exception.
Ended == stage \in {"return", "error"} /\ UNCHANGED vars

Execute ==
    \/ ExecAlloca \/ ExecReadChar \/ ExecIncrement \/ ExecCopy \/ ExecStoreOut
    \/ ExecBr \/ ExecCondBr \/ ExecRet

Next ==
    \/ CompileState \/ FinishCompile
    \/ TranslateSetup \/ MakeBlocks \/ TranslateInstruction \/ FinishTranslate
    \/ Execute
    \/ Ended

\* The processor goes on executing the function it was called for.
Spec == Init /\ [][Next]_vars /\ WF_vars(Execute)

-----------------------------------------------------------------------------
(* Refinement of Matcher. *)

\* A variable as Matcher sees it: as the present block found it, until the
\* call returns.
Seen(name) ==
    LET values == IF stage = "return" THEN locals ELSE entered.locals
    IN  IF name \in DOMAIN values THEN values[name] ELSE 0

\* The caller looks at its cells when the call returns.
Told(cell) == IF stage = "return" THEN cell ELSE Untouched

Blocks == INSTANCE Matcher WITH
    state     <- entered.state,
    counter   <- Seen("counter"),
    start_pos <- Seen("start_pos"),
    end_pos   <- Seen("end_pos"),
    outStart  <- Told(outStart),
    outEnd    <- Told(outEnd)

-----------------------------------------------------------------------------
(* Properties. *)

\* The targets of the branches in a block.
Targets(block) ==
    UNION {IF block[i].op = "br" THEN {block[i].to}
           ELSE IF block[i].op = "condbr" THEN {block[i].then, block[i].else}
           ELSE {} : i \in DOMAIN block}

\* What LLVM's verifier asks of a function, and aotrc never has it check: every
\* block ends with its only terminator, no branch leads to the entry block, and
\* a condition is branched on in the block that computes it.
VerifierAccepts ==
    stage = "run" /\ pc = [block |-> 1, next |-> 1] =>
        \A b \in DOMAIN function.blocks :
            LET block == function.blocks[b]
            IN  /\ block # <<>>
                /\ \A i \in DOMAIN block :
                       block[i].op \in Terminators <=> i = Len(block)
                /\ Targets(block) \subseteq DOMAIN function.blocks \ {1}
                /\ block[Len(block)].op = "condbr" => block[Len(block)].cond.block = b

\* Whatever the order of the states, a GOTO to a state compiled later and every
\* variable resolve: translation throws no out_of_range.
Translates == stage # "error"

\* The cursor an edge is tested against is the character last counted, not one
\* left by an earlier block.
CursorIsCurrent ==
    stage = "run" /\ inst.op = "condbr" /\ inst.cond.test = "edge" =>
        /\ locals.counter > 0
        /\ locals.cursor = subject[locals.counter]

\* The function implements Matcher, one of whose steps is the way of a call
\* through the blocks of a state; and once called it returns when Matcher does.
ImplementsMatcher ==
    /\ Blocks!Init
    /\ [][Blocks!Next]_(Blocks!vars)
    /\ [](stage = "run" => Blocks!Terminates)

=============================================================================
