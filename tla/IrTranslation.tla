---------------------------- MODULE IrTranslation ----------------------------
(***************************************************************************)
(* ProgramTranslator::translate: how the instructions of a program become  *)
(* the basic blocks of an LLVM function (instruction_translator.cc,        *)
(* full_match_translator.cc, search_translator.cc).                        *)
(*                                                                         *)
(* A translator is a record: `blocks' are the basic blocks in the order of *)
(* their creation, each a sequence of IR instructions; `at' is the block   *)
(* of the builder's insert point, which is always its end; `symbols' is    *)
(* the symbol table without the labels of the states, which are `labels';  *)
(* `ok' is FALSE once an exception was thrown.  HirMachine.tla calls the   *)
(* operators in the order of translate, one instruction at a time.         *)
(***************************************************************************)
EXTENDS HirProgram, SequencesExt

-----------------------------------------------------------------------------
(* IR instructions.  The loads, the arithmetic and the store that render   *)
(* one HIR instruction are one instruction here.                           *)

Alloca(name) == [op |-> "alloca", name |-> name]
ReadChar == [op |-> "readchar"]
Increment(name) == [op |-> "increment", name |-> name]
Copy(dest, source) == [op |-> "copy", dest |-> dest, source |-> source]
StoreOut(name) == [op |-> "storeout", name |-> name]
Br(to) == [op |-> "br", to |-> to]
CondBr(cond, then, else) == [op |-> "condbr", cond |-> cond, then |-> then, else |-> else]
Ret(value) == [op |-> "ret", value |-> value]

Terminators == {"br", "condbr", "ret"}

\* The value of a comparison, which belongs to the block b it is made in.
AtEndTest(b) == [test |-> "end", block |-> b]
EdgeTest(b, edge) == [test |-> "edge", block |-> b, edge |-> edge]
NonNullTest(b, name) == [test |-> "nonnull", block |-> b, name |-> name]

-----------------------------------------------------------------------------
(* The builder. *)

\* A table with an entry for x.
WithEntry(table, x, value) ==
    [y \in DOMAIN table \cup {x} |-> IF y = x THEN value ELSE table[y]]

Emit(tr, code) == [tr EXCEPT !.blocks[tr.at] = @ \o code]

\* The number a block gets that is created after k others.
Fresh(tr, k) == Len(tr.blocks) + 1 + k
WithBlocks(tr, k) == [tr EXCEPT !.blocks = @ \o [i \in 1 .. k |-> <<>>]]

SetInsertPoint(tr, b) == [tr EXCEPT !.at = b]

\* restoreInsertPoint, to what storeInsertPoint gave before.
RestoreNothing(tr, b) == tr
RestoreInsertPoint(tr, b) == SetInsertPoint(tr, b)

\* The insert point is stored, code emitted into b, and the point restored.
Aside(tr, b, code) ==
    RestoreInsertPoint(Emit(SetInsertPoint(tr, b), code), tr.at)

-----------------------------------------------------------------------------
(* The instructions. *)

MakeDeclareVar(tr, i) ==
    [Emit(tr, <<Alloca(i.name)>>) EXCEPT !.symbols = WithEntry(@, i.name, 0)]

MakeStartState(tr, i) ==
    IF i.id \in DOMAIN tr.labels THEN SetInsertPoint(tr, tr.labels[i.id])
    ELSE [SetInsertPoint(WithBlocks(tr, 1), Fresh(tr, 0))
             EXCEPT !.labels = WithEntry(@, i.id, Fresh(tr, 0))]

\* SearchTranslator::createNonNullStore.
MakeNonNullStore(tr, name) ==
    LET collect == Fresh(tr, 0)
        onFalse == Fresh(tr, 1)
        onTrue == Fresh(tr, 2)
        stored == Aside(WithBlocks(tr, 3), onTrue, <<StoreOut(name), Br(collect)>>)
        tested == Emit(stored, <<CondBr(NonNullTest(stored.at, name), onTrue, onFalse)>>)
    IN  SetInsertPoint(Emit(SetInsertPoint(tested, onFalse), <<Br(collect)>>), collect)

\* SearchTranslator::makeAcceptInst.
MakeStores(tr) ==
    LET storing == Fresh(tr, 0)
        begun == SetInsertPoint(Emit(WithBlocks(tr, 1), <<Br(storing)>>), storing)
    IN  MakeNonNullStore(MakeNonNullStore(begun, "start_pos"), "end_pos")

MakeAccept(kind, tr) ==
    LET stored == IF kind = "search" THEN MakeStores(tr) ELSE tr
    IN  Emit(stored, <<Br(tr.symbols.accept_block)>>)

MakeReject(tr) == Emit(tr, <<Br(tr.symbols.reject_block)>>)

MakeCheckEnd(kind, tr, i) ==
    LET collect == Fresh(tr, 0)
        onFalse == Fresh(tr, 1)
        onTrue == Fresh(tr, 2)
        jumps == SetInsertPoint(WithBlocks(tr, 3), onFalse)
        begun == SetInsertPoint(Emit(jumps, <<Br(collect)>>), onTrue)
        ended == IF i.onTrue = Accept THEN MakeAccept(kind, begun) ELSE MakeReject(begun)
        tested == Emit(RestoreInsertPoint(ended, tr.at),
                       <<CondBr(AtEndTest(tr.at), onTrue, onFalse)>>)
    IN  SetInsertPoint(tested, collect)

\* A search passes a block that increments end_pos on its way to a state.
MakeGoTo(kind, tr, i) ==
    LET made == IF kind = "search"
                THEN Aside(WithBlocks(tr, 1), Fresh(tr, 0),
                           <<Increment("end_pos"), Br(tr.labels[i.dest])>>)
                ELSE tr
        dest == IF kind = "search" THEN Fresh(tr, 0) ELSE tr.labels[i.dest]
        collect == Fresh(made, 0)
        onFalse == Fresh(made, 1)
        skipped == Aside(WithBlocks(made, 2), onFalse, <<Br(collect)>>)
    IN  IF ~i.conditional THEN Emit(made, <<Br(dest)>>)
        ELSE SetInsertPoint(
                 Emit(skipped, <<CondBr(EdgeTest(made.at, i.edge), dest, onFalse)>>), collect)

\* What symbolTable.at is asked for.
Needed(kind, i) ==
    CASE i.op = "CONSUME" -> {"counter", "cursor", "subject"}
      [] i.op = "CHECK_END" -> {"counter", "subject_len"}
      [] i.op = "STORE_VAR" -> {i.dest, i.source}
      [] i.op = "GOTO" -> (IF i.conditional THEN {"cursor"} ELSE {}) \cup
                          (IF kind = "search" THEN {"end_pos"} ELSE {})
      [] i.op = "ACCEPT" -> {"accept_block"} \cup
                            (IF kind = "search"
                             THEN {"start_pos", "end_pos", "start_pos_ptr", "end_pos_ptr"}
                             ELSE {})
      [] i.op = "REJECT" -> {"reject_block"}
      [] OTHER -> {}

\* No lookup throws, and the translator of the function knows the instruction.
Resolves(kind, tr, i) ==
    /\ Needed(kind, i) \subseteq DOMAIN tr.symbols
    /\ i.op = "CHECK_END" => Needed(kind, i.onTrue) \subseteq DOMAIN tr.symbols
    /\ i.op = "GOTO" => i.dest \in DOMAIN tr.labels
    /\ i.op = "STORE_VAR" => kind = "search"

\* makeInstruction.
Make(kind, tr, i) ==
    IF ~Resolves(kind, tr, i) THEN [tr EXCEPT !.ok = FALSE] ELSE
    CASE i.op = "DECLARE_VAR" -> MakeDeclareVar(tr, i)
      [] i.op = "START_STATE" -> MakeStartState(tr, i)
      [] i.op = "CONSUME" -> Emit(tr, <<ReadChar>>)
      [] i.op = "CHECK_END" -> MakeCheckEnd(kind, tr, i)
      [] i.op = "GOTO" -> MakeGoTo(kind, tr, i)
      [] i.op = "ACCEPT" -> MakeAccept(kind, tr)
      [] i.op = "REJECT" -> MakeReject(tr)
      [] i.op = "STORE_VAR" -> Emit(tr, <<Copy(i.dest, i.source)>>)

-----------------------------------------------------------------------------
(* The blocks that are not a state's. *)

\* The parameters of the function, which the symbol table begins with.
Parameters(kind) ==
    {"subject", "subject_len"} \cup
        (IF kind = "search" THEN {"start_pos_ptr", "end_pos_ptr"} ELSE {})

\* A new translator, in the entry block of makeEntryBlock.
NewTranslator(kind) ==
    [blocks |-> <<<<>>>>, at |-> 1, labels |-> <<>>, ok |-> TRUE,
     symbols |-> [p \in Parameters(kind) |-> 0]]

\* makeAcceptBlock and makeRejectBlock.
EndBlock(tr, name, value) ==
    [Aside(WithBlocks(tr, 1), Fresh(tr, 0), <<Ret(value)>>)
        EXCEPT !.symbols = WithEntry(@, name, Fresh(tr, 0))]
EndBlocks(tr) ==
    EndBlock(EndBlock(tr, "accept_block", "accept"), "reject_block", "reject")

\* makeStartStateInst for each state, in their order, before any instruction
\* is translated.
FirstStateOnly(tr, states) ==
    [WithBlocks(tr, 1) EXCEPT !.labels = [s \in {StartState} |-> Fresh(tr, s)]]
StateBlocks(tr, states) ==
    [WithBlocks(tr, Cardinality(states)) EXCEPT !.labels = [s \in states |-> Fresh(tr, s)]]

\* linkFirstStateToEntry.
Linked(tr) == Emit(SetInsertPoint(tr, 1), <<Br(tr.labels[StartState])>>)

=============================================================================
