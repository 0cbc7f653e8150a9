# A TLA+ model of aotrc

aotrc compiles regular expressions ahead of time into native functions. This
directory holds a TLA+ development of the compiler and of the functions it
generates: modules translated from the C++ source, TLC configurations that check
them on small instances, and proofs checked by TLAPS that hold for every value of
the constants.

To check a configuration: `tlc -config MCMatcher.cfg MCMatcher` (each `MC<X>.cfg`
belongs to the module PROJECT.json gives it); to check proofs: `tlapm MatcherProofs.tla`.

## The system

aotrc is a sequential C++17 program on top of LLVM. There are no threads. What is
hard about it is not concurrency but long chains of data structures built in one
stage and trusted by the next, iteration orders that hash tables choose, and
generated code whose control flow is a state machine nobody wrote by hand.

| part | source | state | operations | what makes it correct |
|---|---|---|---|---|
| input file parser | `src/input` | a map of modules per file | constructor | every regex of a file reaches the compiler, with its options |
| lexer and grammar | `src/parser` | parse stack, location | `parseRegex` | the NFA accepts what the pattern means |
| edges and ranges | `src/fa/transition_edge.*` | the ranges of an edge | `addRange`, `merge`, `optimizeRanges`, `complement` | no character lost or invented; no overlap |
| transition tables | `src/fa/transition_table.*` | states, edges | `addState`, `addEdge`, `move`, `languageChars` | merging keeps every transition |
| NFA | `src/fa/nfa.*` | a table; start 0, stop last | `epsilonClosure`, `simulate` | the closure is the least closed set, and is returned |
| NFA builders | `src/fa/nfa_builders.*` | none | `concat`, `alternation`, `star`, ... | Thompson's shape is kept, the language is right |
| DFA | `src/fa/dfa.*` | translations, queue, table, accept states | constructor | one state per set, the language is kept, it ends |
| HIR program | `src/compiler/program.h`, `*_dfa_compiler.cc` | instruction list | `compile` | well formed blocks |
| translation to LLVM IR | `*_translator.cc`, `program_translator.h` | symbol table, insert point | `translate`, `makeInstruction` | every label and variable resolves; the code does what HIR says |
| generated functions | code of the two rows above | state, counter, cursor, positions | one call | verdict and span agree with the language; the call returns |
| compiler front end | `src/compiler/aotrc_compiler.*`, `regex_compiler.h` | LLVM modules and their globals | `compileRegex`, ..., `emitCode`, `emitHeaderFile` | header, code and pattern functions agree |
| linker | `src/compiler/linker.*` | a child process | `linkShared`, `linkStatic` | failure is told |
| main | `src/main.cc` | files written | `main` | exit code 0 means the artifact is there; the object file is not lost |
| arguments | `src/args_parser.*` | flags, output type, files | constructor | what is built is what was asked for |
| C bindings | `bindings/dync` | a loaded library | `aotrc_*` | - |

They interact by calls and returned values only: `main` asks the input parser for
a map of modules, and for each regex `parseRegex` for an NFA (the grammar's actions
call the builders, the builders the tables, the tables the edges), the constructor
`DFA::DFA` for a DFA (which calls `epsilonClosure`, `move` and `addEdge`), and the
front end for functions (each compiled into a HIR program and translated); then it
emits a header and code and runs the linker in a child process. Nothing is shared
but the LLVM modules, which live as long as the run.

Behaviour that is hard to test: what a restarted match attempt has forgotten; a
position counted by one instruction and kept in step with another by the shape of
the code; renumbering of states; orders chosen by `unordered_map` and
`unordered_set`; a sort with an order that is none; termination of two traversals
and of the generated loops; the exit status of a child process; a module met twice.
PROJECT.json lists them as hazards with their lines.

## The modules

| module | models | kind |
|---|---|---|
| `Automaton` | a DFA and its language, by runs | definitions |
| `MatchContract` | what a generated function promises | abstract specification |
| `Matcher` | one call of a generated function, a block at a time | state machine, implements `MatchContract` |
| `HirProgram` | the instruction list the three compilers emit for a DFA | definitions |
| `IrTranslation` | the translators: how an instruction becomes basic blocks of LLVM IR | operators |
| `HirMachine` | compilation to HIR, translation to IR, execution of the IR, an instruction at a time | state machine, implements `Matcher` |
| `Nfa` | an NFA, its epsilon closure (least closed set) and language | definitions |
| `EpsilonClosure` | `NFA::epsilonClosure`, with its queue | state machine |
| `SubsetConstruction` | `DFA::DFA`, with its map, queue and table | state machine, uses `Nfa` and ends in an `Automaton` |
| `NfaBuilders` | the builders | operators |
| `PatternParser` | the grammar's reductions and what they build | state machine, uses `NfaBuilders` |
| `CompiledPattern` | one pattern from its tokens to the verdict of a call | composes `PatternParser`, `SubsetConstruction` and `Matcher` |
| `EdgeRanges` | the ranges of one edge, the alphabet read from them and the test generated for them | state machine |
| `CompilerDriver` | arguments, input parser, `main`, front end, linker | state machine |
| `Induction` | induction and recursion up to a bound | lemmas |
| `MatcherProofs`, `HirMachineProofs`, `SubsetConstructionProofs`, `EpsilonClosureProofs`, `PatternProofs`, `EdgeRangesProofs`, `CompilerDriverProofs` | theorems | proofs |
| `MC...` | instances for TLC | |

How they fit: the result of `PatternParser` is an NFA in Thompson's shape (`ShapeKept`), without a
dead end unless an atom of no characters is in the pattern (`NoDeadEnd`); NFAs of no more than a shape are what
`MCEpsilonClosure` and `MCSubsetConstruction` take. The closure `SubsetConstruction` uses as one operator is
what `EpsilonClosure` computes step by step (`ClosureExact`); a finished
`SubsetConstruction` is an automaton as `Matcher` assumes it (`DfaUsable`, and
`LiveNfaLiveDfa` for what `Matcher` needs in addition to return and to report a span; `PatternsAreTrim` says
which patterns give it: those with a listed character in every atom); `HirMachine` refines
`Matcher`, `Matcher` refines `MatchContract`. `CompiledPattern` runs parser, subset
construction and a call one after the other, each on what the one before has made, so
that what these interfaces leave unsaid would show in the last verdict.

### State and actions against the code

*Matcher.* `state`, `counter`, `start_pos`, `end_pos` are the block in execution and
the locals `makeEntryBlock` declares; `outStart`, `outEnd` the caller's two cells.
One action per way through a block: `AcceptAtEnd`/`RejectAtEnd` (CHECK_END),
`TakeEdge` (CONSUME, a test that holds, GOTO), `RejectStuck` (full match),
`AcceptStuck` and `Restart` (sub match and search). `size_t` is taken modulo `SizeMod`.
The cursor is not a variable here; it is in `HirMachine`.

*IrTranslation* and *HirMachine.* `program` is `Program::instructions`; `function` is the
translator with its basic blocks, insert point (`at`), symbol table and the labels of the
states. `CompileState` appends a state's block in any order of its edges. `TranslateSetup`,
`MakeBlocks` and `TranslateInstruction` are the parts of `translate`: each calls one of
the `Make...` operators, which create blocks, move the insert point away and back
(`Aside`), and fail (`ok`) when a lookup in the symbol table would throw. The IR is then
executed by the `Exec...` actions, with `pc` a block and an index in it; a branch to the block of a
state is what a step of `Matcher` ends with. The loads and the arithmetic that
render one HIR instruction are one IR instruction. A read past the end yields any character.

*SubsetConstruction.* `translations`, `queue`, `edges`, `acceptStates` are the locals and
members of the constructor, `current` and `todo` the two loops in progress. `SkipChar`,
`ExistingState` and `NewState` are the three ways through the inner loop. Characters of
`Skipped` are those `languageChars` does not list (bytes above 127).

*EpsilonClosure.* `queue` and `visited` are the locals of one traversal, `pending` the
states of the argument not yet begun; edges are met in any order of an `unordered_map`.

*PatternParser.* `frames` is the parse stack, one frame per open group; `atom` the atom
that waits for a quantifier. Each token is an action that performs every reduction it
triggers. Semantic values carry, for the properties, the meaning of what was read, and the
atoms there are in it (`atoms`). The text of tokens is abstracted to sets of characters. The set may be
empty: `re_grammar.yy:226-230` takes a class with a reversed range, [z-a], whose edge has a range that holds no
character; in the model it is no edge. It is not an epsilon edge either, and no builder puts one in its
place, since the states it joins are those of the atom.

*CompiledPattern.* `Parse` is a step of `PatternParser`, `Determinize` the beginning of
`DFA::DFA` on its result, `Construct` a step of `SubsetConstruction`, `Call` the compilation
and the call of one of the three functions, `Run` a step of `Matcher`. The variables of
the three modules keep their names (Matcher's `result` is `verdict`); those of a stage that
is over are reset.

*EdgeRanges.* `ranges` is `Edge::ranges`; `first` and `second` the iterators of the
collapsing loop, one action per turn. `proper` tells whether each range given has its
bounds in order, which the grammar does not ask for. `LanguageChars` is the alphabet
`languageChars` would read from the edge, `TestEdge` the comparison generated for it: the
ranges are signed, the counter of the one and the comparisons of the other are not. `grower` tells who made the edge: one call of
`characterClass`, or `DFA::DFA` character by character. `std::sort` is the insertion sort
libstdc++ uses below seventeen elements, because the comparison is no strict weak
order and the outcome depends on the algorithm.

*CompilerDriver.* `argv` are the options the loop over `getopt_long` has yet to see
(`ParseOption`), `help`, `version` and `outputType` the fields of `ArgsParser` that `main` reads.
`ModulesOf` is the constructor of `AotrcInputParser`: entries are strings, maps or something
else, with the options they give. `modules` is `AotrcCompiler::modules` reduced to the functions and globals
each has; `disk` the files written; `faults` what failed outside. A step that can fail
has a disjunct that does: the compiler's constructor when LLVM does not know the target ("target"), a file
that does not open ("input", "header", "output"), `addPassesToEmitFile`, which is logged and leaves a file without code ("passes"),
`fork`, the child and `unlink`. `Link` folds fork, the child and `waitpid` into one step. `StopOf` is what becomes of `parseRegex` and
`DFA::DFA` on a pattern: an exception, a crash on an NFA without states (`Stateless`, /a{0}/), no return on an epsilon
cycle (`Looping`, /(a*)*/), for which `exit` is "hung"; which patterns these are is what `LanguageExact`
and `CycleOnlyFromStar` tell of the parser.

### Faulty variants

A definition that stands directly before another with the same parameters and a
telling name (`FoldedSwapped` before `Folded`) is a faulty variant of it, such as a slip
in the code would give. It is used nowhere. PROJECT.json pairs each property with a
variant; with the variant in place of the definition TLC finds the property violated.

## The runs

| run | instance | shows |
|---|---|---|
| `matcher` | all automata of at most 2 states over 2 characters, in discovery order, and lines of up to 5 states; every subject of at most 4 characters; every pointer combination | verdicts and spans; restarts; returns; the contract is implemented |
| `hir_machine` | the same automata of 2 states, those that differ in the names of the characters once; subjects of at most 2, every order of edges | the IR is what LLVM's verifier would accept, lookups succeed, the cursor is current, `Matcher` is implemented with its termination |
| `subset_construction` | NFAs of 4 states and at most 4 edges, acyclic in epsilon; 3 characters, one of them skipped | the DFA is exact, usable and accepts the language |
| `epsilon_closure` | acyclic epsilon edges over 4 states, every argument | the closure is exact and returned |
| `edge_ranges` | every class of at most 3 ranges over 6 characters of both signs, bounds in order or reversed, negated or not; edges grown from 5 characters in every order | no character lost; minimal; complement; alphabet; generated test |
| `pattern_parser` | patterns of at most 5 tokens over a letter, a byte above 127, a class of these and another letter, and a class of no characters; words of at most 3 characters; the patterns of at most 4 tokens compiled and called with every word | shape, language, dead ends, epsilon cycles; verdicts and spans mean what the pattern means; calls return. Each under its conditions: without `AtomsListed`, `Listed` or `{} \notin f.atoms` TLC finds a violation here, likewise without `~lost` in `LanguageExact` and `FullMatchMeansPattern` (in `CycleOnlyFromStar` it takes seven tokens, `(a{0}\|a)*`) |
| `compiler_driver` | none to three options; one or two files, documents and modules; every output type; patterns that do not parse, have an NFA without states or an epsilon cycle; every failure | what exit code 0 promises, what stops a run |
| `matcher_submatch`, `matcher_span`, `epsilon_cycle`, `edge_complement`, `driver_documents` | one property each | the documentation says otherwise; see Findings |

Why the bounds are enough to meet the interesting cases: two states over two
characters already give every combination of leaf, accept state and partial
transition function, and a subject of four lets an attempt fail, restart, fail and
restart again; the lines of four characters add an attempt that leaves an accept state. NFAs
of four states have two sets with the same successor, a set met twice and an edge
merged twice. Three ranges are what it takes for a range to bridge two others, and six
characters leave gaps between three. Five tokens are a group with a quantifier and one on it
or on what follows; four, which are compiled, are a group with
a quantifier, an atom between or behind two others, and every alternation of two. Atoms that
languageChars does not list stand alone (a start state that is a dead leaf), one behind another, and
in a branch. Longer patterns are left to the proofs. Two options of
the same name show which counts, and one between them that it does not matter. Two modules, two labels and two files are
what is needed for anything to be shared.

Fairness: the program is sequential, and a processor that runs it has one thing to do
next. `WF_vars(Next)` in `Matcher`, `EpsilonClosure`, `SubsetConstruction` and `EdgeRanges` says no
more than that a running function goes on. In `HirMachine` and `CompiledPattern` it is asked of the
execution of the generated function alone (`WF_vars(Execute)`, `WF_pipeline(Run)`): the
compiler may stop anywhere, and a call that has begun returns. `PatternParser` by itself
and `CompilerDriver` have no liveness property and no fairness.

Deadlock is checked in all runs that pass; `Ended` disjuncts are the stuttering of a program
that has ended, and `MatchContract` is only checked through refinement.

### Findings

Five disagreements between what the repository says of the code and what it does are
runs of their own, with the line quoted in PROJECT.json:

1. `matcher_submatch`: a sub match or search restarts *behind* the character it got stuck
   on, so /ab/ is not found in `aab`.
2. `matcher_span`: GOTO counts into `end_pos` even when nothing was consumed (a dead leaf
   restarting), so a reported end can lie beyond the subject.
3. `epsilon_cycle`: `epsilonClosure` does not return on an epsilon cycle, such as in `(a*)*`.
4. `edge_complement`: a negated class lacks the greatest character (and all negative ones).
5. `driver_documents`: a module named in two documents of one file keeps only the last.

Others are no run of their own but appear as the condition of a property that would fail
without it:

- `Matcher!Terminates`, `CallReturns` (`AtomsListed`): a sub match or search whose start state is a dead leaf never returns from a
  non-empty subject. Patterns give such a function: a single byte above 127, or [z-a].
- `NoDeadEnd` (`{} \notin f.atoms`): [z-a] is accepted as an atom, of no characters.
- `AbandonedStartHasNoMatch`, `PrefixNeverMissed` (`AcceptsPersist`): an attempt leaves an accept state for a longer match and
  does not come back: on `abx` the pattern /a|abc/ gives up position 0, where it matches.
- `LanguagePreserved`, `AlphabetExact`, `FullMatchMeansPattern`, `SpanMeansPattern` (`Listed`, `AtomsListed`): `languageChars` counts an unsigned char from a signed lower
  to a signed upper bound, so bytes above 127 are in no alphabet and the DFA loses them.
- `Minimal` (for edges of DFAs only): in a class, ranges that share a bound stay two, since all overlap tests of
  `optimizeRanges` are strict.
- `CharsKept` (`proper`): the grammar lets ranges through that end before they begin
  (`re_grammar.yy:228`, a TODO); `addRange` can fold others into such a range and lose them, and
  collapsing can invent characters no range holds. The same condition stands in `ComplementExact`.
- `ComplementExact`: the complement of a class that holds character 0 is shifted, and
  negating a class of all characters walks past an empty vector.
- `GeneratedTestExact`: the test compares bytes without sign, the ranges are signed; a range from a
  negative to a positive character would pass no byte.
- `LanguageExact`, and with it the two properties of `CompiledPattern` (`lost`): a branch `x{0}` that is not the first of an alternation loses the empty
  word, since zero repetitions are an NFA without states.
- `ReportedIsBuilt`, `ObjectNotLost`: a `fork` that fails looks like a child that exited with 0. `ReportedIsBuilt`: that
  `addPassesToEmitFile` fails is only logged (`aotrc_compiler.cc:86-88`), and the run exits with 0 without code.
- `OnlyTheseStop` (`StopOf`): a pattern such as /a{0}/ crashes the compiler and one such as /(a*)*/ keeps it busy for ever.
- `EachLabelItsOwn` (`LabelsApart`): labels that differ only in case share one pattern global.
- `OnlyTheseStop`: a module without regexes crashes; one whose first regex has every option off throws,
  though the same regex after another one compiles. A map entry without options throws, as does one
  without a pattern; an entry that is neither string nor map is skipped.
- `AskedType`: `--build-shared`, `--build-archive` (which the help text calls `--build-static`), `--linker-path`,
  `--archiver-path` and `--render-graphviz` set fields nobody reads, and an output type that is not known
  is ignored; the run goes on with what was set before.
- `numberUnbounded` accepts one repetition too few; no pattern reaches it because the
  lexer makes no COMMA, so it is not modelled.

## The proofs

TLAPS checks every step; each theorem is stated for all constants under the
assumptions the modules name, which TLC evaluates on every run:

| module | assumed |
|---|---|
| `Matcher`, `HirMachine` | machines are well formed and deterministic, subjects are strings over `Char` shorter than `SizeMod` |
| `SubsetConstruction`, `EpsilonClosure` | NFAs are well formed (start 0, stop last, edges between their states); words are over `Char` |
| `PatternParser` | an atom stands for a set of characters, which may be empty; a number in braces is a natural number |
| `CompiledPattern` | subjects are words over `Char` of at most `MaxLen` characters, for which the meaning of a pattern is known, and `MaxLen < SizeMod`; `MaxLen` itself is any number |
| `EdgeRanges` | `char` is signed, and the ranges of a class have bounds that are chars |
| `CompilerDriver` | option lists, command lines, files and the regexes of a module are finite sequences |

**MatcherProofs.** The inductive invariant says what a pending call knows: the
characters consumed since the present attempt began (`InAttempt`) spell a run into
`state`, it is the only one (the machine is deterministic), and for a machine whose
accepting persists no match was abandoned; `EndPosInStep` ties the count of GOTOs to the characters
consumed. The properties are consequences at the step that returns. Without "the only run" a
rejecting full match could not be shown right; without `EndPosInStep` no span could. The refinement
theorem maps each action to a return of the contract or a stutter.

**HirMachineProofs.** Three stages have an invariant each. A program is a sequence of segments,
one for each state in turn, in which instructions follow each other as `MayPrecede` says (a CONSUME
after a CHECK_END, a test after a CONSUME or another test); `CompileState` appends one, whatever the order
of the edges (`IsProgram`). The function built so far is certified by an annotation that says of each block what is
known where it begins: nothing, that the counter is short of the end, or that the cursor is the
character last counted. Every instruction must fit what is known before it and every branch lead where no more is
assumed (`Certifies`). A block is *open* while code is to come: those of the states not begun, and the
one at the insert point while the code of a state goes on (`OpenBlocks`). Each `Make...` operator takes a
certified function to a certified one, closing the blocks it ends (`Turns`), and finds what it looks up because `MakeBlocks` has
entered all states and the setup all variables (`HasTables`). When no instruction is left no block is open,
which is what the verifier asks for. While the function runs, what is known at the block and index of `pc`
holds of the variables (`RunsCertified`); an edge is tested only where the cursor is known to be
current. The verifier's rules alone do not give this: that a test is reached only from a CONSUME is in
the annotation, and that it can be annotated so is in `MayPrecede`.

**SubsetConstructionProofs.** The invariant is the conjunction of `TypeOK`,
`TranslationsExact`, `AcceptExact`, `QueuedOnce`, `EdgesExact` and two facts on the start and
the end. `EdgesExact` alone is not inductive: adding an edge changes the row of a
number, and only `TranslationsExact` says no other set has it. `DfaAcceptsTheLanguage` then follows for strings of
every length by induction over positions. That induction cannot use the library's
theorems with operator parameters; `UpTo` in `Induction` states it with a set and
derives it from the well-foundedness of strict inclusion on finite sets. `NoDeadLeafMade` needs that every
state of the DFA is a non-empty closed set: were there no edge from it and the stop state not in it, its complement
would be all states that lead to the stop state, which in a trim NFA are all (`ClosedTrap`).

**EpsilonClosureProofs.** Partial correctness on every NFA, cyclic or not:
`Settled` says each state of the argument that has been taken is closed already or is
in the traversal in progress, `NothingForgotten` that targets of visited states are visited or queued.
An ended traversal has an empty queue, so what it visited is closed.

**PatternProofs.** For patterns of any length and nesting. An NFA is looked at as a graph (`Joins`), since
`concat_helper` may turn an epsilon edge into another. `MovedJoins` says which states are joined once the right NFA has been moved into the left;
from there `RowIsPiece`, `BesideIsFan` and `CappedIsPiece` show what concatenation, a branch hung on the start state and a
new last state do to the shape, and each builder is put together from these three. The shape (no edge into the start,
none out of the stop state) is what the proofs need at every joint: where two states become one, an edge into
the right start would come from the left NFA.

Dead ends are kept apart from the shape, because an atom of no characters has one. Ways are never named: that every state is reached
from the start is said of the sets no edge leads out of (`Reached`), that every state leads on, of those no edge
leads into (`LeadsTo`). A *live* piece has both properties, and each of its edges accepts a set of a family E
(`LivePieces`), in which no set is empty and which is closed under union (`Alphabets`), as edges may be merged. Each builder makes live pieces
of live ones (`RowLives`, `BesideLives`, `CappedLives` and what is put together from them). With all non-empty sets for E this gives `NoDeadEnd`,
with the sets that have a listed character `PatternsAreTrim`.

What an NFA accepts is said in the same manner, since a run could only be taken apart by induction over its length. A
*place* is a position of a word and a state; a way leads from one place to another if every set of places that holds the
first and that the NFA does not leave holds the second (`Way`). `Means` says that a word's part between two positions is
read from start to stop exactly if it is in the set of words given; it speaks of parts, not of whole words, because
concatenation splits a word anywhere. To show that an NFA reads nothing else, a set of places is named that it
does not leave: for concatenation, the places of the left NFA that a way reaches and those of the right one that a way
reaches from where the left one stopped (`RowReads`); for an alternation, each branch's own (`BesideWays`, `CapReads`); for a star, the
places reached from any position up to which there are words in a row (`StarReadsOnly`). Each builder has one lemma, that its NFA
means what the operator does to words (`ConcatMeans`, `AlternationMeans`, `StarMeans`, `ManyMeans`, `CopiesMean`), and
`AfterIsWays` ties ways to what TLC computes character by character. Repetitions of a star beyond the length bound of the words
add nothing because a word has no more non-empty parts than characters (`StarGrows`, `FewRepeats`).

That epsilon edges form no cycle is said without ways: the states can be given ranks that fall along the edges
(`Acyclic`). Ranks of what a builder makes are put together from those of its parts, and the other way round the ranks of the whole
are ranks of its parts (`PartAcyclic`), so both directions of `CycleOnlyFromStar` follow. For a star (`StarOfPiece`) the ranks of
the states no way from the start leads to without reading are raised above the others'; the loop falls if the stop
state is among them, that is, if the empty word is not read. That no rank can be given where there is a cycle, and one
where there is none, is `CyclesAre`: the rank is the number of states that epsilon edges lead to.

The invariant (`StackInv`) says that every value on the parse stack has an NFA of this shape, or the one without states that zero
repetitions make, that unless a branch was lost it means its words and has a cycle exactly if `loops` says so, and that it is
live for every E that has the atoms in it. `Closed`, which TLC computes recursively,
is shown to return the least closed set (`ClosedFacts`).

From there to the verdict of a call (`CompiledPattern`) no component is proved again. `SubsetConstructionProofs` and `MatcherProofs`
are instantiated for *all* NFAs and *all* automata, so that their invariants can be stated of whatever the stage before has made;
a step of the pipeline is a step of the component at work (`SameConstruction`, `SameCall`), which keeps its
invariant. `PipelineInv` holds `StackInv`, at each stage the invariant of the component at work, and what stages hand on: the NFA is that of
the pattern, and the automaton made of it *speaks* the pattern (`Speaks`), that is, after any listed
word it is in an accepting state exactly if the pattern means the word (`FinishedSpeaks`). The language of an NFA is simulated
set by set in one module and defined by runs in the other; `AcceptsAfter` says they are the same. A search may start in
the middle of a subject, and `RunOfPart` and `PartMeant` say that what the automaton reads from there is a slice of it.
That `end_pos` does not drift (`SpanReported`) needs an automaton without a dead leaf, which the DFA of a pattern is
if languageChars lists a character of every atom in it (`ListedIsTrim`, `NoDeadLeafMade`), hence `AtomsListed(pattern)`.
For other patterns the span is not promised, nor is it true: /aé|b/ reports an end past the subject on `ab`.

**EdgeRangesProofs.** For a `char` of any width and any number of ranges. With bounds in order, each fold of `addRange` and each collapse of a pair puts one range in
the place of two that overlap or touch and holds what they held. One branch of `optimizeRanges` would fill the gap
between two ranges that do neither; it is harmless because after the sort every such gap is covered by a
third range (`Bridged`), which holds although the comparison of the sort is no strict weak order: it is a
fact about the insertions the sort makes, each of which keeps it. For edges of a DFA the ranges never
overlap (`Apart`), the sort orders them (`Ascending`), and the scan leaves a gap between any two behind it
(`Scanned`), hence `Minimal`. Sort and alphabet are recursive functions; that they are what
their equations say is `Recursion` in `Induction`, what they return follows by `UpTo`.

**CompilerDriverProofs.** `ObjectNotLost` follows from what is known of the one module in work:
at `link` its object file is on disk, at `unlink` a library holds the same
(`ObjectInv`). The other theorems follow every module of every file
read, which is still to do, in work, or consistent (`ModulesInv`); the type asked for, the
last there is among the options, is the one the loop over the options ends with (`ArgsInv`), the files left are the rest of
those on the command line (`FilesInv`), and
no step touches the files of a module that is not in work (`WriteKeeps`, `RemoveKeeps`). For `ReportedIsBuilt`
each regex of a file read is still to do or has its functions (`CompiledInv`), for `EachLabelItsOwn` all
code and all globals come from a regex asked for under that label (`CodeInv`), and a run that goes on has
met no fault but those that go unnoticed (`RunInv`). The invariant is proved for failing runs too; only what
`Sound` guards is let off.

| theorem | statement |
|---|---|
| `MatcherProofs!TypeCorrect` | variables in range, nothing read past the subject |
| `FullMatchCorrect`, `SubMatchSound`, `SearchSpanCorrect`, `PrefixFound`, `StartAbandonedRightly` | the five correctness properties of `Matcher`: the third without dead leaves, the last two where accepting persists |
| `MatcherImplementsContract` | `Spec => Contract!Spec` |
| `HirMachineProofs!NoLookupFails`, `FunctionVerifies`, `CursorStaysCurrent` | translation throws nothing, its result verifies, edges are tested on the character counted |
| `SubsetConstructionProofs!TypeCorrect`, `OneStatePerSet`, `AcceptStatesExact`, `SetsQueuedOnce`, `TransitionsExact`, `DfaIsUsable`, `DfaAcceptsTheLanguage`, `NoDeadLeafMade` | the safety properties of `SubsetConstruction` |
| `EpsilonClosureProofs!TypeCorrect`, `VisitsOnlyReachable`, `ForgetsNothing`, `ReturnsTheClosure` | those of `EpsilonClosure` |
| `PatternProofs!ShapeAlwaysKept`, `NoDeadEndMade`, `LanguageAlwaysExact`, `CyclesOnlyFromStars`, `PatternsAreTrim` | Thompson's shape; no dead end, unless there is an atom of no characters; the NFA accepts what its part of the pattern means; which patterns have cycles of epsilon edges; the hypothesis of `NoDeadLeafMade`, if there is a listed character in every atom |
| `PatternProofs!ParserInPipeline`, `FullMatchIsMeant`, `SpanIsMeant` | the same with the other stages behind the parser; verdicts of the functions called mean what the pattern means, if no branch was lost and the subject is listed, and so do spans, if every atom of the pattern has a listed character in addition |
| `EdgeRangesProofs!NoCharLost`, `EdgesMinimal`, `ComplementIsExact`, `AlphabetIsExact`, `GeneratedTestIsExact` | those of `EdgeRanges` |
| `CompilerDriverProofs!LibraryBeforeUnlink`, `ObjectKept`, `HeadersMatch`, `ReportedBuilt`, `LabelsOwn`, `NothingElseStops` | those of `CompilerDriver` |

The type invariants of `SubsetConstruction` and `EpsilonClosure` are proved and therefore not listed
among the runs' properties.

Only model-checked: every liveness property (fairness and ENABLED are outside the provers' reach), among
them that closures, constructions, scans and calls end (`CallReturns`); and that `HirMachine` implements `Matcher`, whose
last conjunct is liveness and whose others await a proof.

## Not modelled

- LLVM, yaml-cpp, bison and flex themselves: each is modelled as the code relies on it.
- The text of patterns: characters of a token, digits of a number (`std::pow` into an `int`, which eleven
  digits overflow), `?:` taken for one token wherever it stands, the slashes around a pattern.
- `TransitionTable::move(Range)`, `nfa_builders::literal`, `numberUnbounded`, a `numberBounded` of two bounds:
  nothing reaches them.
- What the passes of `emitObjectFile` leave of an LLVM module that is emitted a second time: they are
  LLVM's and keep its meaning.
- Printing of HIR and graphviz output: formatting without state. The C bindings: lookups of names
  of another scheme (`match_<label>`) than the compiler emits (`<label>_full_match`). Tests, build files.

## Plan

Done: every part of the program that keeps state is modelled, from the arguments to the generated
functions; the parts are composed on one pattern (`CompiledPattern`) and one above the other
(`HirMachine`, `Matcher`, `MatchContract`). The safety properties of `Matcher`, `SubsetConstruction`,
`EpsilonClosure`, `EdgeRanges`, `CompilerDriver`, `PatternParser` and `CompiledPattern` are proved, of `HirMachine` all but
the refinement.

Next, in this order:

1. Prove: that the steps of `HirMachine` are steps of `Matcher`. Beyond what is proved the annotation has to say
   which state of the machine a block belongs to, and where each branch of it leads.
2. Extend, if the lexer comes to make a COMMA: `{n,}` and `{n,m}`.
