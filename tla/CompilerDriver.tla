--------------------------- MODULE CompilerDriver ---------------------------
(***************************************************************************)
(* A run of the program: main parses the options, reads each input file,   *)
(* compiles the regexes of each module into an LLVM module, emits its      *)
(* header and its code and links it (main.cc, args_parser.cc,              *)
(* input/aotrc_input_parser.cc, compiler/aotrc_compiler.cc,                *)
(* compiler/linker.cc).                                                    *)
(*                                                                         *)
(* The LLVM modules live as long as the run: a module named in two files   *)
(* is added to.  What may fail on the way is a choice: the lookup of the   *)
(* target, a file that cannot be opened, the set-up of the code generator, *)
(* fork, the child process, the removal of the object file.                *)
(* Nothing catches an exception: it ends the run, and what was written     *)
(* stays.  A DFA construction that crashes or does not return ends it too. *)
(*                                                                         *)
(* LLVM's own behaviour is modelled as the code relies on it:              *)
(* getOrInsertFunction finds the function there is, and blocks appended to *)
(* one that has a body are not reached; getOrInsertGlobal finds the global *)
(* of the name, whatever the length of its array.  getopt_long is modelled *)
(* by what it hands the loop: one option after the other, wherever the     *)
(* files stand between them.                                               *)
(***************************************************************************)
EXTENDS Integers, Sequences, FiniteSets, SequencesExt

CONSTANTS
    CommandLines,   \* sequences of files; a file is a sequence of documents,
                    \* which give each of their modules a sequence of entries
                    \* [label, form, pattern, options], whose form is "regex",
                    \* "malformed" or "other"
    OptionLists,    \* sequences of options [opt, arg]
    Upper,          \* std::transform(... toupper) of each label
    Length,         \* of each pattern
    Unparsable,     \* the patterns parseRegex throws on
    Stateless,      \* those it makes an NFA without states of, as of a{0}
    Looping         \* those whose NFA has an epsilon cycle, as (a*)*

VARIABLES
    options, commandLine,       \* the arguments: options, and files
    argv,           \* the options not yet parsed
    help, version, outputType,  \* fields of ArgsParser
    files,          \* the files not yet read
    todo,           \* modules of the current file to do: label -> regexDefs
    module, defs,   \* the module being compiled, and its regexDefs left
    modules,        \* AotrcCompiler::modules
    disk,           \* the files written: <<module, extension>> -> its content
    stage,          \* where main is
    exit,           \* "running", "ok", "exception", "crash" or "hung"
    faults          \* what outside the program has failed

args == <<options, commandLine, argv, help, version, outputType>>
vars == <<args, files, todo, module, defs, modules, disk, stage, exit, faults>>

Kinds == {"full_match", "sub_match", "search"}

ASSUME OptionListsAssumption == \A o \in OptionLists : o \in Seq(Range(o))

ASSUME CommandLinesAssumption ==
    \A c \in CommandLines :
        /\ c \in Seq(Range(c))
        /\ \A file \in Range(c) :
               /\ file \in Seq(Range(file))
               /\ \A d \in Range(file) : \A m \in DOMAIN d :
                      /\ d[m] \in Seq(Range(d[m]))
                      /\ \A entry \in Range(d[m]) :
                             /\ entry.form \in {"regex", "malformed", "other"}
                             /\ DOMAIN entry.options \subseteq Kinds

NoModule == "none"
NoFiles == [f \in {} |-> {}]

\* f with x mapped to v.
With(f, x, v) == [y \in DOMAIN f \cup {x} |-> IF y = x THEN v ELSE f[y]]
Without(f, x) == [y \in DOMAIN f \ {x} |-> f[y]]

-----------------------------------------------------------------------------
(* LLVM modules: functions by name, each with the regex its body came      *)
(* from, and the globals that hold patterns.                               *)

NewModule == [functions |-> NoFiles, globals |-> NoFiles]

\* getFunctionName; generatePatternFunc.
FunctionName(label, kind) == <<label, kind>>
GlobalNameShared(label) == "PATTERN"
GlobalName(label) == Upper[label]

\* A body for the function; a function that has one keeps it.
AddFunction(mod, label, kind, body) ==
    LET name == FunctionName(label, kind)
    IN  IF name \in DOMAIN mod.functions THEN mod
        ELSE [mod EXCEPT !.functions = With(@, name, body)]

\* compileRegex, compileSubMatchRegex and compileSearchRegex, in this order,
\* for those of them the options call for.
AddMatchers(mod, def) ==
    LET full == IF "full_match" \in def.kinds
                THEN AddFunction(mod, def.label, "full_match", def.pattern) ELSE mod
        sub == IF "sub_match" \in def.kinds
               THEN AddFunction(full, def.label, "sub_match", def.pattern) ELSE full
    IN  IF "search" \in def.kinds
        THEN AddFunction(sub, def.label, "search", def.pattern) ELSE sub

\* build_global, and the function that returns the address of the global.
AddPattern(mod, def) ==
    LET name == GlobalName(def.label)
        size == IF name \in DOMAIN mod.globals THEN mod.globals[name].size
                ELSE Length[def.pattern]
        filled == [mod EXCEPT !.globals =
                      With(@, name, [size |-> size, pattern |-> def.pattern])]
    IN  AddFunction(filled, def.label, "get_pattern", name)

\* The global of the label was made for a pattern of another length: the
\* initializer has the wrong type, which LLVM asserts against if built to.
GlobalMisfits(mod, def) ==
    LET name == GlobalName(def.label)
    IN  name \in DOMAIN mod.globals /\ mod.globals[name].size # Length[def.pattern]

-----------------------------------------------------------------------------

Init ==
    /\ options \in OptionLists
    /\ commandLine \in CommandLines
    /\ argv = options
    /\ help = FALSE
    /\ version = FALSE
    /\ outputType = "OBJ"
    /\ files = commandLine
    /\ todo = NoFiles
    /\ module = NoModule
    /\ defs = <<>>
    /\ modules = NoFiles
    /\ disk = NoFiles
    /\ stage = "args"
    /\ exit = "running"
    /\ faults = {}

\* An exception nothing catches, a crash, or a call that does not return.
Die(how) == exit' = how /\ stage' = "ended"

Fault(what) == faults' = faults \cup {what}

OutputTypes ==
    [asm |-> "ASM", obj |-> "OBJ", ir |-> "IR", hir |-> "HIR",
     static |-> "STATIC", shared |-> "SHARED"]

\* An unknown name leaves the type as it was.
TypeNamedOrDefault(name) == IF name \in DOMAIN OutputTypes THEN OutputTypes[name] ELSE "OBJ"
TypeNamed(name) == IF name \in DOMAIN OutputTypes THEN OutputTypes[name] ELSE outputType

\* One iteration of the getopt loop.  --build-shared, --build-archive,
\* --linker-path, --archiver-path and --render-graphviz set fields main does not
\* read; an option getopt does not know is passed over.
ParseOption ==
    /\ stage = "args" /\ argv # <<>>
    /\ argv' = Tail(argv)
    /\ LET option == Head(argv)
       IN  /\ help' = (help \/ option.opt = "help")
           /\ version' = (version \/ option.opt = "version")
           /\ outputType' = IF option.opt = "output-type" THEN TypeNamed(option.arg)
                            ELSE outputType
    /\ UNCHANGED <<options, commandLine, files, todo, module, defs, modules, disk,
                   stage, exit, faults>>

\* main returns 0 once it has displayed the help or the version.  Otherwise it
\* makes the compiler, which throws when LLVM does not know the target.
EndOfOptions ==
    /\ stage = "args" /\ argv = <<>>
    /\ \/ (help \/ version) /\ Die("ok") /\ UNCHANGED faults
       \/ ~(help \/ version) /\ stage' = "modules" /\ UNCHANGED <<exit, faults>>
       \/ ~(help \/ version) /\ Die("exception") /\ Fault("target")
    /\ UNCHANGED <<args, files, todo, module, defs, modules, disk>>

\* regexDefFromObject: what an entry does not say.  A plain string says nothing.
Defaults == [k \in Kinds |-> k = "full_match"]
RegexDef(entry) ==
    LET gen == entry.options @@ Defaults
    IN  [label   |-> entry.label,
         pattern |-> entry.pattern,
         kinds   |-> {k \in Kinds : gen[k]}]

\* An entry that is neither a string nor a map is passed over.
RegexDefs(entries) ==
    LET regexDefs[i \in 0 .. Len(entries)] ==
            IF i = 0 THEN <<>>
            ELSE IF entries[i].form = "other" THEN regexDefs[i - 1]
            ELSE Append(regexDefs[i - 1], RegexDef(entries[i]))
    IN  regexDefs[Len(entries)]

\* AotrcInputParser: a module given again replaces the one before.
ModulesOf(file) ==
    LET giving(m) == {i \in DOMAIN file : m \in DOMAIN file[i]}
    IN  [m \in UNION {DOMAIN file[i] : i \in DOMAIN file} |->
            RegexDefs(file[Max(giving(m))][m])]

\* What the YAML library or RegexDef throws on: a map without a pattern or
\* without options, an option that is no bool, a pattern without characters.
Malformed(file) ==
    \E document \in Range(file) : \E m \in DOMAIN document :
        \E entry \in Range(document[m]) : entry.form = "malformed"

ReadFile ==
    /\ stage = "modules" /\ DOMAIN todo = {} /\ files # <<>>
    /\ files' = Tail(files)
    /\ \/ /\ ~Malformed(Head(files))
          /\ todo' = ModulesOf(Head(files))
          /\ UNCHANGED <<stage, exit, faults>>
       \/ Malformed(Head(files)) /\ Die("exception") /\ UNCHANGED <<todo, faults>>
       \/ Die("exception") /\ Fault("input") /\ UNCHANGED todo
    /\ UNCHANGED <<args, module, defs, modules, disk>>

Finish ==
    /\ stage = "modules" /\ DOMAIN todo = {} /\ files = <<>>
    /\ exit' = "ok" /\ stage' = "ended"
    /\ UNCHANGED <<args, files, todo, module, defs, modules, disk, faults>>

\* getModules is an unordered_map: the next module is any.
NextModule ==
    /\ stage = "modules"
    /\ \E m \in DOMAIN todo :
           /\ module' = m
           /\ defs' = todo[m]
           /\ todo' = Without(todo, m)
    /\ stage' = "regexes"
    /\ UNCHANGED <<args, files, modules, disk, exit, faults>>

\* Each of the compile functions makes the module if it is not there.
MakesModuleIfFull(def) == "full_match" \in def.kinds
MakesModule(def) == def.kinds # {}

\* parseRegex and the DFA's constructor, which reads the first state of the NFA
\* and follows its epsilon edges: how they stop, if they do not return a DFA.
StopOf(pattern) ==
    IF pattern \in Unparsable THEN "exception"
    ELSE IF pattern \in Stateless THEN "crash"
    ELSE IF pattern \in Looping THEN "hung" ELSE "none"

\* One regex: DFA, matchers, then the pattern function, which asks for a module
\* that is there.
CompileRegex ==
    /\ stage = "regexes" /\ defs # <<>>
    /\ LET def == Head(defs)
           known == module \in DOMAIN modules
           mod == AddMatchers(IF known THEN modules[module] ELSE NewModule, def)
       IN  \/ /\ StopOf(def.pattern) # "none"
              /\ Die(StopOf(def.pattern))
              /\ UNCHANGED <<defs, modules>>
           \/ /\ StopOf(def.pattern) = "none" /\ ~(known \/ MakesModule(def))
              /\ Die("exception")
              /\ UNCHANGED <<defs, modules>>
           \/ /\ StopOf(def.pattern) = "none" /\ (known \/ MakesModule(def))
              /\ GlobalMisfits(mod, def)
              /\ Die("crash")
              /\ UNCHANGED <<defs, modules>>
           \/ /\ StopOf(def.pattern) = "none" /\ (known \/ MakesModule(def))
              /\ modules' = With(modules, module, AddPattern(mod, def))
              /\ defs' = Tail(defs)
              /\ UNCHANGED <<stage, exit>>
    /\ UNCHANGED <<args, files, todo, module, disk, faults>>

\* What the header declares.
DeclaredWithoutSearch(mod) == {f \in DOMAIN mod.functions : f[2] # "search"}
Declared(mod) == DOMAIN mod.functions

\* emitHeaderFile finds a null pointer for a module without regexes, once it
\* has opened the file.  That the file may not open goes unnoticed.
EmitHeader ==
    /\ stage = "regexes" /\ defs = <<>>
    /\ IF module \notin DOMAIN modules
       THEN Die("crash") /\ disk' = With(disk, <<module, "h">>, {}) /\ UNCHANGED faults
       ELSE /\ \/ /\ disk' = With(disk, <<module, "h">>, Declared(modules[module]))
                  /\ UNCHANGED faults
               \/ Fault("header") /\ UNCHANGED disk
            /\ stage' = IF outputType = "HIR" THEN "modules" ELSE "emit"
            /\ UNCHANGED exit
    /\ UNCHANGED <<args, files, todo, module, defs, modules>>

\* emitObjectFile, emitAssembly or emitIr, which writes to standard output.  That
\* addPassesToEmitFile has failed is logged only: the file has been made, nothing
\* writes code to it, and the run goes on.
EmitCode ==
    /\ stage = "emit"
    /\ \/ /\ outputType = "IR"
          /\ stage' = "modules"
          /\ UNCHANGED <<disk, exit, faults>>
       \/ /\ outputType # "IR"
          /\ LET file == <<module, IF outputType = "ASM" THEN "s" ELSE "o">>
             IN  \/ disk' = With(disk, file, modules[module]) /\ UNCHANGED faults
                 \/ disk' = With(disk, file, NewModule) /\ Fault("passes")
          /\ stage' = IF outputType \in {"SHARED", "STATIC"} THEN "link" ELSE "modules"
          /\ UNCHANGED exit
       \/ /\ outputType # "IR"
          /\ Die("exception") /\ Fault("output")
          /\ UNCHANGED disk
    /\ UNCHANGED <<args, files, todo, module, defs, modules>>

LibraryExtension == IF outputType = "SHARED" THEN "so" ELSE "a"

\* What main makes of executeProcess: -1 for a child killed by a signal, its
\* exit status otherwise.
LinkFailedIfKilled(ret) == ret < 0
LinkFailed(ret) == ret # 0

\* The child links.  If fork fails, waitpid(-1, &status, 0) finds no child,
\* leaves status 0, and the process seems to have exited with 0.
Link ==
    /\ stage = "link"
    /\ \E ret \in {0, 1, -1}, forked \in BOOLEAN :
           /\ ~forked => ret = 0
           /\ faults' = faults \cup (IF ~forked THEN {"fork"}
                                   ELSE IF ret # 0 THEN {"child"} ELSE {})
           /\ disk' = IF forked /\ ret = 0
                      THEN With(disk, <<module, LibraryExtension>>, disk[<<module, "o">>])
                      ELSE disk
           /\ IF LinkFailed(ret) THEN Die("exception")
              ELSE stage' = "unlink" /\ UNCHANGED exit
    /\ UNCHANGED <<args, files, todo, module, defs, modules>>

Unlink ==
    /\ stage = "unlink"
    /\ \/ /\ disk' = Without(disk, <<module, "o">>)
          /\ stage' = "modules"
          /\ UNCHANGED <<exit, faults>>
       \/ Die("exception") /\ Fault("unlink") /\ UNCHANGED disk
    /\ UNCHANGED <<args, files, todo, module, defs, modules>>

Ended == stage = "ended" /\ UNCHANGED vars

Next ==
    \/ ParseOption \/ EndOfOptions
    \/ ReadFile \/ NextModule \/ CompileRegex \/ EmitHeader \/ EmitCode
    \/ Link \/ Unlink \/ Finish \/ Ended

Spec == Init /\ [][Next]_vars

-----------------------------------------------------------------------------
(* Properties. *)

\* The regexes asked for, as <<module, def>>; within a file the last document
\* that has a module counts.
RegexesIn(ms, m) == {<<m, def>> : def \in Range(ms[m])}
Asked ==
    UNION {UNION {RegexesIn(ModulesOf(commandLine[i]), m) :
                     m \in DOMAIN ModulesOf(commandLine[i])} :
              i \in DOMAIN commandLine}

\* What the options ask for: the last type named that there is.
AskedType ==
    LET named == {i \in DOMAIN options : /\ options[i].opt = "output-type"
                                         /\ options[i].arg \in DOMAIN OutputTypes}
    IN  IF named = {} THEN "OBJ" ELSE OutputTypes[options[Max(named)].arg]
Informs == \E option \in Range(options) : option.opt \in {"help", "version"}

Artifact(m) ==
    <<m, CASE AskedType = "OBJ" -> "o" [] AskedType = "ASM" -> "s"
           [] AskedType = "SHARED" -> "so" [] OTHER -> "a">>
Built == ~Informs /\ AskedType \in {"OBJ", "ASM", "SHARED", "STATIC"}

\* A run that exits with 0 has left an artifact of the type asked for, with
\* every matcher asked for, unless fork has failed, or addPassesToEmitFile.  These
\* two and the opening of a header are the only failures that go unnoticed.  A run
\* that is asked for help has left nothing.
ReportedIsBuilt ==
    /\ Informs => disk = NoFiles
    /\ exit = "ok" /\ Built =>
           /\ faults \subseteq {"fork", "header", "passes"}
           /\ faults \cap {"fork", "passes"} = {} =>
                  \A a \in Asked :
                      /\ Artifact(a[1]) \in DOMAIN disk
                      /\ \A k \in a[2].kinds \cup {"get_pattern"} :
                             <<a[2].label, k>> \in DOMAIN disk[Artifact(a[1])].functions

\* Without a fault the header declares the functions of the artifact, though
\* the two are written at different times and a second file adds to both.
HeaderMatchesArtifact ==
    exit = "ok" /\ Built /\ faults = {} =>
        \A a \in Asked :
            /\ <<a[1], "h">> \in DOMAIN disk
            /\ disk[<<a[1], "h">>] = DOMAIN disk[Artifact(a[1])].functions

\* No two labels of a module differ in case only, or not at all.
LabelsApart ==
    \A a, b \in Asked : a[1] = b[1] /\ a # b => Upper[a[2].label] # Upper[b[2].label]

TellsPattern(mod, def) ==
    mod.globals[mod.functions[<<def.label, "get_pattern">>]].pattern = def.pattern

\* Where labels are apart each matcher is made from its own pattern, and the
\* pattern function of a label returns that pattern, in whatever order the
\* modules came and whichever files they were in.
EachLabelItsOwn ==
    exit = "ok" /\ Built /\ faults = {} /\ LabelsApart =>
        \A a \in Asked :
            LET mod == disk[Artifact(a[1])]
            IN  /\ \A k \in a[2].kinds : mod.functions[<<a[2].label, k>>] = a[2].pattern
                /\ TellsPattern(mod, a[2])

\* The object file goes only once a library holds what it held, unless fork
\* has failed.
ObjectNotLost ==
    [][\A m \in DOMAIN modules :
           <<m, "o">> \in DOMAIN disk /\ <<m, "o">> \notin DOMAIN disk' =>
               \/ "fork" \in faults
               \/ /\ <<m, LibraryExtension>> \in DOMAIN disk'
                  /\ disk'[<<m, LibraryExtension>>] = disk[<<m, "o">>]]_vars

\* A run stops otherwise than with 0, or for ever, only for a fault, a malformed
\* entry, a pattern that does not parse or that no DFA can be made of, labels that
\* are not apart, a module without regexes or a regex with every option off: no
\* list of options stops it.
OnlyTheseStop ==
    exit \in {"exception", "crash", "hung"} =>
        \/ faults # {}
        \/ ~LabelsApart
        \/ \E a \in Asked : StopOf(a[2].pattern) # "none" \/ a[2].kinds = {}
        \/ \E i \in DOMAIN commandLine :
               \/ Malformed(commandLine[i])
               \/ <<>> \in Range(ModulesOf(commandLine[i]))

(* What the documentation says and the code does not do. *)

\* README.md:143: "All regexes defined in the same module are compiled into the
\* same object file", those of an earlier document of the file included.
ModuleIsWhole ==
    exit = "ok" /\ Built /\ faults = {} =>
        \A i \in DOMAIN commandLine : \A d \in Range(commandLine[i]) :
            \A m \in DOMAIN d : \A def \in Range(RegexDefs(d[m])) :
                <<def.label, "get_pattern">> \in DOMAIN disk[Artifact(m)].functions

=============================================================================
