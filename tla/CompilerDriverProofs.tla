----------------------- MODULE CompilerDriverProofs -----------------------
(***************************************************************************)
(* Theorems about CompilerDriver, for any number of options, files and     *)
(* modules: the object file is not lost (ObjectKept), headers and          *)
(* artifacts match (HeadersMatch), what a run reports is built             *)
(* (ReportedBuilt), each label has its own code (LabelsOwn), and only what *)
(* is named stops a run (NothingElseStops).                                *)
(*                                                                         *)
(* The first needs to know the files of the module in work only.  The      *)
(* others follow every module of every file read.  It is still to do, in   *)
(* work, or its files are consistent (ModulesInv), and no step touches the *)
(* files of another module than the one in work.  Each of its regexes is   *)
(* still to do or has its functions (CompiledInv), and no module has code  *)
(* that was not asked for (CodeInv).                                       *)
(***************************************************************************)
EXTENDS CompilerDriver, Induction

-----------------------------------------------------------------------------
(* The object file.                                                        *)

Object == <<module, "o">>
Library == <<module, LibraryExtension>>

\* The library of the module in work holds what its object file holds.
Linked ==
    /\ Object \in DOMAIN disk
    /\ Library \in DOMAIN disk
    /\ disk[Library] = disk[Object]

\* Between emission and removal the object file is there, and once the linker
\* has come back with 0 the library is too, unless fork has failed.
ObjectInv ==
    /\ stage = "link" => Object \in DOMAIN disk
    /\ stage = "unlink" => "fork" \in faults \/ Linked

\* Nothing is compiled when the program starts.
LEMMA InitInvariant == Init => ObjectInv
BY DEF Init, ObjectInv

\* Only Link leads to where the object file may be removed, and it links first.
LEMMA LinkInvariant == ObjectInv /\ Link => ObjectInv'
<1> SUFFICES ASSUME ObjectInv, Link PROVE ObjectInv'
  OBVIOUS
<1>1. PICK ret \in {0, 1, -1}, forked \in BOOLEAN :
          /\ ~forked => ret = 0
          /\ faults' = faults \cup (IF ~forked THEN {"fork"}
                                    ELSE IF ret # 0 THEN {"child"} ELSE {})
          /\ disk' = IF forked /\ ret = 0
                     THEN With(disk, Library, disk[Object])
                     ELSE disk
          /\ IF LinkFailed(ret) THEN Die("exception")
             ELSE stage' = "unlink" /\ UNCHANGED exit
  BY DEF Link, Object, Library
<1>2. Object \in DOMAIN disk
  BY DEF ObjectInv, Link
<1>3. Object' = Object /\ Library' = Library
  BY DEF Link, args, Object, Library, LibraryExtension
<1>4. Object # Library
  BY DEF Object, Library, LibraryExtension
<1>5. CASE LinkFailed(ret)
  BY <1>1, <1>5 DEF ObjectInv, Die
<1>6. CASE ~LinkFailed(ret) /\ ~forked
  BY <1>1, <1>6 DEF ObjectInv
<1>7. CASE ~LinkFailed(ret) /\ forked
  <2>1. disk' = With(disk, Library, disk[Object]) /\ stage' = "unlink"
    BY <1>1, <1>7 DEF LinkFailed
  <2>2. Linked'
    BY <1>2, <1>3, <1>4, <2>1 DEF Linked, With
  <2> QED BY <2>1, <2>2 DEF ObjectInv
<1> QED BY <1>5, <1>6, <1>7

\* Every step preserves the invariant.
LEMMA StepInvariant == ObjectInv /\ [Next]_vars => ObjectInv'
<1> SUFFICES ASSUME ObjectInv, [Next]_vars PROVE ObjectInv'
  OBVIOUS
<1>1. CASE ParseOption
  BY <1>1 DEF ObjectInv, ParseOption
<1>2. CASE EndOfOptions
  BY <1>2 DEF ObjectInv, EndOfOptions, Die
<1>3. CASE ReadFile
  BY <1>3 DEF ObjectInv, ReadFile, Die
<1>4. CASE NextModule
  BY <1>4 DEF ObjectInv, NextModule
<1>5. CASE CompileRegex
  BY <1>5 DEF ObjectInv, CompileRegex, Die
<1>6. CASE EmitHeader
  BY <1>6 DEF ObjectInv, EmitHeader, Die
<1>7. CASE EmitCode
  <2>1. stage' # "unlink"
    BY <1>7 DEF EmitCode, Die
  <2>2. ASSUME stage' = "link" PROVE Object' \in DOMAIN disk'
    <3>1. /\ outputType \in {"SHARED", "STATIC"}
          /\ \E code : disk' = With(disk, Object, code)
      BY <1>7, <2>2 DEF EmitCode, Die, Object
    <3>2. Object' = Object
      BY <1>7 DEF EmitCode, Object
    <3> QED BY <3>1, <3>2 DEF With
  <2> QED BY <2>1, <2>2 DEF ObjectInv
<1>8. CASE Link
  BY <1>8, LinkInvariant
<1>9. CASE Unlink
  BY <1>9 DEF ObjectInv, Unlink, Die
<1>10. CASE Finish
  BY <1>10 DEF ObjectInv, Finish
<1>11. CASE Ended \/ UNCHANGED vars
  BY <1>11 DEF ObjectInv, Ended, Linked, Object, Library, LibraryExtension, vars, args
<1> QED
  BY <1>1, <1>2, <1>3, <1>4, <1>5, <1>6, <1>7, <1>8, <1>9, <1>10, <1>11 DEF Next

\* main.cc:84-102.  When the object file is about to be removed, the library
\* is there and holds the same, unless fork has failed.
THEOREM LibraryBeforeUnlink == Spec => []ObjectInv
BY InitInvariant, StepInvariant, PTL DEF Spec

\* Of all steps only Unlink takes a file off the disk, and only one.
LEMMA OnlyUnlinkRemoves ==
    ASSUME [Next]_vars, ~Unlink
    PROVE  DOMAIN disk \subseteq DOMAIN disk'
<1>1. CASE ParseOption \/ EndOfOptions \/ ReadFile \/ NextModule \/ CompileRegex
           \/ Finish \/ Ended \/ UNCHANGED vars
  BY <1>1 DEF ParseOption, EndOfOptions, ReadFile, NextModule, CompileRegex, Finish,
              Ended, vars
<1>2. CASE EmitHeader
  BY <1>2 DEF EmitHeader, With
<1>3. CASE EmitCode
  BY <1>3 DEF EmitCode, With
<1>4. CASE Link
  BY <1>4 DEF Link, With
<1> QED BY <1>1, <1>2, <1>3, <1>4 DEF Next

\* main.cc:87-105.  No run, whatever fails in it and whatever the files hold,
\* removes an object file before a library holds what it held, unless fork has
\* failed.
THEOREM ObjectKept == Spec => ObjectNotLost
<1> DEFINE Kept ==
        \A m \in DOMAIN modules :
            <<m, "o">> \in DOMAIN disk /\ <<m, "o">> \notin DOMAIN disk' =>
                \/ "fork" \in faults
                \/ /\ <<m, LibraryExtension>> \in DOMAIN disk'
                   /\ disk'[<<m, LibraryExtension>>] = disk[<<m, "o">>]
<1>1. ObjectInv /\ [Next]_vars => [Kept]_vars
  <2> SUFFICES ASSUME ObjectInv, [Next]_vars,
                      NEW m \in DOMAIN modules,
                      <<m, "o">> \in DOMAIN disk, <<m, "o">> \notin DOMAIN disk',
                      "fork" \notin faults
               PROVE  /\ <<m, LibraryExtension>> \in DOMAIN disk'
                      /\ disk'[<<m, LibraryExtension>>] = disk[<<m, "o">>]
    OBVIOUS
  <2>1. Unlink
    BY OnlyUnlinkRemoves
  <2>2. disk' = Without(disk, Object) /\ Linked
    BY <2>1 DEF Unlink, ObjectInv, Object
  <2>3. m = module
    BY <2>2 DEF Without, Object
  <2>4. Library # Object
    BY DEF Object, Library, LibraryExtension
  <2>5. Library \in DOMAIN disk' /\ disk'[Library] = disk[Library]
    BY <2>2, <2>4 DEF Linked, Without
  <2> QED BY <2>2, <2>3, <2>5 DEF Linked, Object, Library
<1>2. QED
  BY <1>1, LibraryBeforeUnlink, PTL DEF Spec, ObjectNotLost

-----------------------------------------------------------------------------
(* The arguments. *)

\* The type named last among the first k options.
NamedIn(k) ==
    {i \in 1 .. k : /\ options[i].opt = "output-type"
                    /\ options[i].arg \in DOMAIN OutputTypes}
TypeAfter(k) ==
    IF NamedIn(k) = {} THEN "OBJ" ELSE OutputTypes[options[Max(NamedIn(k))].arg]

InformsAfter(k) == \E i \in 1 .. k : options[i].opt \in {"help", "version"}

\* s is what is left of t after its first k elements.
IsRest(s, t, k) ==
    /\ s \in Seq(Range(t))
    /\ k + Len(s) = Len(t)
    /\ \A i \in 1 .. Len(s) : s[i] = t[k + i]

ArgsInv ==
    /\ options \in Seq(Range(options))
    /\ commandLine \in Seq(Range(commandLine))
    /\ stage = "args" =>
           \E k \in 0 .. Len(options) :
               /\ IsRest(argv, options, k)
               /\ outputType = TypeAfter(k)
               /\ help \/ version <=> InformsAfter(k)
    /\ stage # "args" => outputType = AskedType
    /\ Informs => stage \in {"args", "ended"} /\ disk = NoFiles

\* Before anything is taken, the rest of a list is the list.
LEMMA WholeIsRest ==
    ASSUME NEW t, t \in Seq(Range(t))
    PROVE  IsRest(t, t, 0)
BY DEF IsRest

\* Taking the head of a rest takes the next element of the list, and a rest is left.
LEMMA TailIsRest ==
    ASSUME NEW s, NEW t, NEW k \in Nat, IsRest(s, t, k), s # <<>>
    PROVE  /\ IsRest(Tail(s), t, k + 1)
           /\ Head(s) = t[k + 1]
           /\ k + 1 <= Len(t)
BY DEF IsRest

\* What one more option does to the type.
LEMMA TypeStep ==
    ASSUME NEW k \in Nat
    PROVE  TypeAfter(k + 1) =
               IF k + 1 \in NamedIn(k + 1) THEN OutputTypes[options[k + 1].arg]
               ELSE TypeAfter(k)
<1>1. CASE k + 1 \in NamedIn(k + 1)
  <2>1. \A y \in NamedIn(k + 1) : y \in Nat /\ k + 1 >= y
    BY DEF NamedIn
  <2>2. \A x \in NamedIn(k + 1) : (\A y \in NamedIn(k + 1) : x >= y) => x = k + 1
    BY <1>1, <2>1
  <2>3. Max(NamedIn(k + 1)) = k + 1
    BY <1>1, <2>1, <2>2 DEF Max
  <2> QED BY <1>1, <2>3 DEF TypeAfter
<1>2. CASE k + 1 \notin NamedIn(k + 1)
  <2>1. NamedIn(k + 1) = NamedIn(k)
    BY <1>2 DEF NamedIn
  <2> QED BY <1>2, <2>1 DEF TypeAfter
<1> QED BY <1>1, <1>2

\* No option has been parsed when the program starts.
LEMMA ArgsInit == Init => ArgsInv
<1> SUFFICES ASSUME Init PROVE ArgsInv
  OBVIOUS
<1>1. options \in Seq(Range(options)) /\ commandLine \in Seq(Range(commandLine))
  BY OptionListsAssumption, CommandLinesAssumption DEF Init
<1>2. IsRest(argv, options, 0)
  BY <1>1, WholeIsRest DEF Init
<1>3. outputType = TypeAfter(0)
  BY DEF Init, TypeAfter, NamedIn
<1>4. help \/ version <=> InformsAfter(0)
  BY DEF Init, InformsAfter
<1>5. 0 \in 0 .. Len(options)
  BY <1>1
<1> QED BY <1>1, <1>2, <1>3, <1>4, <1>5 DEF Init, ArgsInv

\* An option parsed counts among the options that decide the output type.
LEMMA ParseOptionArgs == ArgsInv /\ ParseOption => ArgsInv'
<1> SUFFICES ASSUME ArgsInv, ParseOption PROVE ArgsInv'
  OBVIOUS
<1>1. PICK k \in 0 .. Len(options) :
          /\ IsRest(argv, options, k)
          /\ outputType = TypeAfter(k)
          /\ help \/ version <=> InformsAfter(k)
  BY DEF ArgsInv, ParseOption
<1>2. /\ IsRest(argv', options, k + 1)
      /\ Head(argv) = options[k + 1]
      /\ k + 1 \in 0 .. Len(options)
  BY <1>1, TailIsRest DEF ParseOption, ArgsInv
<1>3. outputType' = TypeAfter(k + 1)
  <2>1. outputType' = IF options[k + 1].opt = "output-type"
                      THEN TypeNamed(options[k + 1].arg) ELSE outputType
    BY <1>2 DEF ParseOption
  <2>2. k \in Nat
    BY DEF ArgsInv
  <2>3. k + 1 \in NamedIn(k + 1) <=> /\ options[k + 1].opt = "output-type"
                                     /\ options[k + 1].arg \in DOMAIN OutputTypes
    BY <2>2 DEF NamedIn
  <2>4. CASE k + 1 \in NamedIn(k + 1)
    BY <2>1, <2>2, <2>3, <2>4, TypeStep DEF TypeNamed
  <2>5. CASE k + 1 \notin NamedIn(k + 1)
    BY <1>1, <2>1, <2>2, <2>3, <2>5, TypeStep DEF TypeNamed
  <2> QED BY <2>4, <2>5
<1>4. help' \/ version' <=> InformsAfter(k + 1)
  <2>1. InformsAfter(k + 1) <=> InformsAfter(k) \/ options[k + 1].opt \in {"help", "version"}
    <3>1. \A i \in 1 .. (k + 1) : i \in 1 .. k \/ i = k + 1
      OBVIOUS
    <3>2. k + 1 \in 1 .. (k + 1) /\ \A i \in 1 .. k : i \in 1 .. (k + 1)
      OBVIOUS
    <3> QED BY <3>1, <3>2 DEF InformsAfter
  <2> QED BY <1>1, <1>2, <2>1 DEF ParseOption
<1>5. options' = options /\ commandLine' = commandLine /\ stage' = "args" /\ disk' = disk
  BY DEF ParseOption
<1>6. Informs' = Informs
  BY <1>5 DEF Informs
<1>7. \A l : InformsAfter(l)' = InformsAfter(l) /\ TypeAfter(l)' = TypeAfter(l)
  BY <1>5 DEF InformsAfter, TypeAfter, NamedIn
<1> QED BY <1>2, <1>3, <1>4, <1>5, <1>6, <1>7 DEF ArgsInv

\* With the options at an end, the output type is the one they ask for.
LEMMA EndOfOptionsArgs == ArgsInv /\ EndOfOptions => ArgsInv'
<1> SUFFICES ASSUME ArgsInv, EndOfOptions PROVE ArgsInv'
  OBVIOUS
<1>1. PICK k \in 0 .. Len(options) :
          /\ IsRest(argv, options, k)
          /\ outputType = TypeAfter(k)
          /\ help \/ version <=> InformsAfter(k)
  BY DEF ArgsInv, EndOfOptions
<1>2. k = Len(options)
  BY <1>1 DEF IsRest, EndOfOptions, ArgsInv
<1>3. DOMAIN options = 1 .. Len(options)
  BY DEF ArgsInv
<1>4. TypeAfter(Len(options)) = AskedType
  <2>1. NamedIn(Len(options)) =
            {i \in DOMAIN options : /\ options[i].opt = "output-type"
                                    /\ options[i].arg \in DOMAIN OutputTypes}
    BY <1>3 DEF NamedIn
  <2> QED BY <2>1 DEF TypeAfter, AskedType
<1>5. help \/ version <=> Informs
  BY <1>1, <1>2, <1>3 DEF InformsAfter, Informs, Range
<1>6. stage' # "args" /\ UNCHANGED args /\ disk' = disk
  BY DEF EndOfOptions, Die
<1>7. Informs => stage' = "ended"
  BY <1>5 DEF EndOfOptions, Die
<1>8. AskedType' = AskedType /\ Informs' = Informs
  BY <1>6 DEF args, AskedType, Informs
<1> QED BY <1>1, <1>2, <1>4, <1>6, <1>7, <1>8 DEF ArgsInv, args

\* Every step preserves the invariant: only the options change the output type.
LEMMA ArgsStep == ArgsInv /\ [Next]_vars => ArgsInv'
<1> SUFFICES ASSUME ArgsInv, [Next]_vars PROVE ArgsInv'
  OBVIOUS
<1>1. CASE ParseOption
  BY <1>1, ParseOptionArgs
<1>2. CASE EndOfOptions
  BY <1>2, EndOfOptionsArgs
<1>3. CASE UNCHANGED vars \/ Ended
  <2>1. UNCHANGED args /\ stage' = stage /\ disk' = disk
    BY <1>3 DEF Ended, vars
  <2>2. \A k : TypeAfter(k)' = TypeAfter(k) /\ InformsAfter(k)' = InformsAfter(k)
    BY <2>1 DEF args, TypeAfter, NamedIn, InformsAfter
  <2> QED BY <2>1, <2>2 DEF ArgsInv, args, AskedType, Informs
<1>4. CASE ReadFile \/ NextModule \/ CompileRegex \/ EmitHeader \/ EmitCode
           \/ Link \/ Unlink \/ Finish
  <2>1. UNCHANGED args /\ stage \notin {"args", "ended"} /\ stage' # "args"
    BY <1>4 DEF ReadFile, NextModule, CompileRegex, EmitHeader, EmitCode, Link, Unlink,
                Finish, Die
  <2>2. ~Informs
    BY <2>1 DEF ArgsInv
  <2> QED BY <2>1, <2>2 DEF ArgsInv, args, AskedType, Informs
<1> QED BY <1>1, <1>2, <1>3, <1>4 DEF Next

-----------------------------------------------------------------------------
(* What a file asks for. *)

\* The regexDefs made of a list of entries are a list, and the kinds of each
\* are kinds there are.
LEMMA RegexDefsFacts ==
    ASSUME NEW entries, entries \in Seq(Range(entries))
    PROVE  /\ RegexDefs(entries) \in Seq(Range(RegexDefs(entries)))
           /\ \A def \in Range(RegexDefs(entries)) : def.kinds \subseteq Kinds
<1> DEFINE n == Len(entries)
           D == {RegexDef(entries[i]) : i \in 1 .. n}
           g == [i \in 1 .. n |-> [s \in Seq(D) |->
                     IF entries[i].form = "other" THEN s
                     ELSE Append(s, RegexDef(entries[i]))]]
           Good(f) == f = [i \in 0 .. n |->
                               IF i = 0 THEN <<>>
                               ELSE IF entries[i].form = "other" THEN f[i - 1]
                               ELSE Append(f[i - 1], RegexDef(entries[i]))]
           F == CHOOSE f : Good(f)
<1>1. n \in Nat /\ <<>> \in Seq(D)
  OBVIOUS
<1>2. g \in [1 .. n -> [Seq(D) -> Seq(D)]]
  <2>1. \A i \in 1 .. n : RegexDef(entries[i]) \in D
    OBVIOUS
  <2> HIDE DEF D
  <2>2. \A i \in 1 .. n : \A s \in Seq(D) : Append(s, RegexDef(entries[i])) \in Seq(D)
    BY <2>1
  <2> QED BY <2>2
<1>3. Recursive(n, Seq(D), <<>>, g)
  <2> HIDE DEF n, D, g
  <2> QED BY <1>1, <1>2, Recursion
<1>4. PICK f \in [0 .. n -> Seq(D)] :
          f[0] = <<>> /\ \A i \in 1 .. n : f[i] = g[i][f[i - 1]]
  <2> HIDE DEF n, D, g
  <2> QED BY <1>3 DEF Recursive
<1>5. Good(f)
  <2>1. ASSUME NEW i \in 0 .. n
        PROVE  f[i] = IF i = 0 THEN <<>>
                      ELSE IF entries[i].form = "other" THEN f[i - 1]
                      ELSE Append(f[i - 1], RegexDef(entries[i]))
    <3>1. CASE i = 0
      BY <1>4, <3>1
    <3>2. CASE i # 0
      <4>1. i \in 1 .. n /\ i - 1 \in 0 .. n
        BY <1>1, <3>2
      <4>2. f[i] = g[i][f[i - 1]] /\ f[i - 1] \in Seq(D)
        BY <1>4, <4>1
      <4> QED BY <3>2, <4>1, <4>2
    <3> QED BY <3>1, <3>2
  <2> HIDE DEF g, D
  <2> QED BY <1>4, <2>1
<1>6. Good(F)
  <2> HIDE DEF Good
  <2> QED BY <1>5
<1>7. RegexDefs(entries) = F[n]
  BY DEF RegexDefs
<1> DEFINE K == {k \in 0 .. n : F[k] \in Seq(D)}
<1>8. 0 \in K
  <2> HIDE DEF F, D
  <2>1. F[0] = <<>>
    BY <1>1, <1>6
  <2> QED BY <1>1, <2>1
<1>9. ASSUME NEW k \in 0 .. (n - 1), k \in K PROVE k + 1 \in K
  <2>1. k + 1 \in 1 .. n /\ F[k] \in Seq(D)
    BY <1>1, <1>9
  <2>2. RegexDef(entries[k + 1]) \in D
    BY <2>1
  <2> HIDE DEF F, D
  <2>3. k + 1 \in 0 .. n /\ k + 1 # 0 /\ (k + 1) - 1 = k
    BY <1>1
  <2>4. F[k + 1] = IF k + 1 = 0 THEN <<>>
                   ELSE IF entries[k + 1].form = "other" THEN F[(k + 1) - 1]
                   ELSE Append(F[(k + 1) - 1], RegexDef(entries[k + 1]))
    BY <1>6, <2>3
  <2>5. Append(F[k], RegexDef(entries[k + 1])) \in Seq(D)
    BY <2>1, <2>2
  <2>6. F[k + 1] \in Seq(D)
    BY <2>1, <2>3, <2>4, <2>5
  <2> QED BY <2>3, <2>6
<1>10. F[n] \in Seq(D)
  <2> HIDE DEF K
  <2>1. 0 .. n \subseteq K
    BY <1>1, <1>8, <1>9, UpTo
  <2>2. n \in K
    BY <1>1, <2>1
  <2> QED BY <2>2 DEF K
<1>11. \A d \in D : d.kinds \subseteq Kinds
  BY DEF RegexDef
<1> HIDE DEF F, D
<1> QED BY <1>7, <1>10, <1>11 DEF Range

\* A command line consists of files, these of documents, these of lists of entries.
LEMMA FileFacts ==
    ASSUME commandLine \in CommandLines, NEW i \in DOMAIN commandLine
    PROVE  /\ commandLine[i] \in Seq(Range(commandLine[i]))
           /\ \A d \in Range(commandLine[i]) : \A m \in DOMAIN d : d[m] \in Seq(Range(d[m]))
<1>1. commandLine[i] \in Range(commandLine)
  BY DEF Range
<1> QED BY <1>1, CommandLinesAssumption

\* Each module a file asks for has a list of regexDefs of kinds there are.
LEMMA ModulesOfFacts ==
    ASSUME commandLine \in CommandLines, NEW i \in DOMAIN commandLine,
           NEW m \in DOMAIN ModulesOf(commandLine[i])
    PROVE  /\ ModulesOf(commandLine[i])[m] \in Seq(Range(ModulesOf(commandLine[i])[m]))
           /\ \A def \in Range(ModulesOf(commandLine[i])[m]) : def.kinds \subseteq Kinds
<1> DEFINE file == commandLine[i]
           giving == {j \in DOMAIN file : m \in DOMAIN file[j]}
<1>1. /\ file \in Seq(Range(file))
      /\ \A d \in Range(file) : \A x \in DOMAIN d : d[x] \in Seq(Range(d[x]))
  BY FileFacts
<1>2. m \in UNION {DOMAIN file[j] : j \in DOMAIN file}
  BY DEF ModulesOf
<1>3. ModulesOf(file)[m] = RegexDefs(file[Max(giving)][m])
  BY <1>2 DEF ModulesOf
<1>4. giving # {} /\ giving \in SUBSET (0 .. Len(file)) /\ Len(file) \in Nat
  BY <1>1, <1>2
<1>5. Max(giving) \in giving
  <2> HIDE DEF giving
  <2>1. \E x \in giving : \A y \in giving : x >= y
    BY <1>4, HasGreatest
  <2> QED BY <2>1 DEF Max
<1>6. file[Max(giving)] \in Range(file) /\ m \in DOMAIN file[Max(giving)]
  BY <1>5 DEF Range
<1>7. file[Max(giving)][m] \in Seq(Range(file[Max(giving)][m]))
  BY <1>1, <1>6
<1> HIDE DEF file, giving
<1>8. /\ ModulesOf(file)[m] \in Seq(Range(ModulesOf(file)[m]))
      /\ \A def \in Range(ModulesOf(file)[m]) : def.kinds \subseteq Kinds
  BY <1>3, <1>7, RegexDefsFacts
<1> QED BY <1>8 DEF file

\* What is asked for is what the files ask for.
LEMMA AskedIs ==
    \A a : a \in Asked <=>
        \E i \in DOMAIN commandLine : \E m \in DOMAIN ModulesOf(commandLine[i]) :
            \E def \in Range(ModulesOf(commandLine[i])[m]) : a = <<m, def>>
BY DEF Asked, RegexesIn

-----------------------------------------------------------------------------
(* What compiling a regex does to its LLVM module. *)

IsModule(mod) == mod = [functions |-> mod.functions, globals |-> mod.globals]

\* mod1 is mod with functions for matchers of the label added to it, those of
\* the kinds given among them.
AddsMatchers(mod, mod1, label, pattern, kinds) ==
    /\ IsModule(mod1)
    /\ mod1.globals = mod.globals
    /\ DOMAIN mod.functions \subseteq DOMAIN mod1.functions
    /\ \A k \in kinds : <<label, k>> \in DOMAIN mod1.functions
    /\ \A f \in DOMAIN mod1.functions :
           \/ f \in DOMAIN mod.functions /\ mod1.functions[f] = mod.functions[f]
           \/ \E k \in Kinds : f = <<label, k>> /\ mod1.functions[f] = pattern

\* A function added is there, and nothing else has changed.
LEMMA AddFunctionFacts ==
    ASSUME NEW mod, IsModule(mod), NEW label, NEW kind, NEW body
    PROVE  LET mod1 == AddFunction(mod, label, kind, body)
           IN  /\ IsModule(mod1)
               /\ mod1.globals = mod.globals
               /\ DOMAIN mod1.functions = DOMAIN mod.functions \cup {<<label, kind>>}
               /\ \A f \in DOMAIN mod.functions : mod1.functions[f] = mod.functions[f]
               /\ \/ <<label, kind>> \in DOMAIN mod.functions
                  \/ mod1.functions[<<label, kind>>] = body
BY DEF AddFunction, FunctionName, IsModule, With

\* Matchers are added one after the other.
LEMMA AddFunctionAdds ==
    ASSUME NEW mod0, NEW mod, NEW label, NEW pattern, NEW kinds, NEW kind \in Kinds,
           AddsMatchers(mod0, mod, label, pattern, kinds)
    PROVE  AddsMatchers(mod0, AddFunction(mod, label, kind, pattern), label, pattern,
                        kinds \cup {kind})
<1> DEFINE mod1 == AddFunction(mod, label, kind, pattern)
<1>1. /\ IsModule(mod1)
      /\ mod1.globals = mod.globals
      /\ DOMAIN mod1.functions = DOMAIN mod.functions \cup {<<label, kind>>}
      /\ \A f \in DOMAIN mod.functions : mod1.functions[f] = mod.functions[f]
      /\ \/ <<label, kind>> \in DOMAIN mod.functions
         \/ mod1.functions[<<label, kind>>] = pattern
  BY AddFunctionFacts DEF AddsMatchers
<1> HIDE DEF mod1
<1>2. ASSUME NEW f \in DOMAIN mod1.functions
      PROVE  \/ f \in DOMAIN mod0.functions /\ mod1.functions[f] = mod0.functions[f]
             \/ \E k \in Kinds : f = <<label, k>> /\ mod1.functions[f] = pattern
  <2>1. CASE f \in DOMAIN mod.functions
    BY <1>1, <2>1 DEF AddsMatchers
  <2>2. CASE f \notin DOMAIN mod.functions
    BY <1>1, <2>2
  <2> QED BY <2>1, <2>2
<1>3. AddsMatchers(mod0, mod1, label, pattern, kinds \cup {kind})
  BY <1>1, <1>2 DEF AddsMatchers
<1> QED BY <1>3 DEF mod1

\* The matchers a regex asks for are there once it is compiled, each new one made
\* from its pattern, and the old ones are as they were.
LEMMA AddMatchersFacts ==
    ASSUME NEW mod, IsModule(mod), NEW def, def.kinds \subseteq Kinds
    PROVE  AddsMatchers(mod, AddMatchers(mod, def), def.label, def.pattern, def.kinds)
<1> DEFINE l == def.label
           p == def.pattern
           ks == def.kinds
           Step(m, kind) == IF kind \in ks THEN AddFunction(m, l, kind, p) ELSE m
           full == Step(mod, "full_match")
           sub == Step(full, "sub_match")
           all == Step(sub, "search")
<1>1. AddMatchers(mod, def) = all
  BY DEF AddMatchers
<1>2. AddsMatchers(mod, mod, l, p, {})
  BY DEF AddsMatchers
<1>3. Kinds = {"full_match", "sub_match", "search"} /\ ks \subseteq Kinds
  BY DEF Kinds
<1> HIDE DEF l, p, ks
<1>4. ASSUME NEW m, NEW kinds, NEW kind \in Kinds, AddsMatchers(mod, m, l, p, kinds)
      PROVE  AddsMatchers(mod, Step(m, kind), l, p, kinds \cup (ks \cap {kind}))
  <2>1. CASE kind \in ks
    <3>1. Step(m, kind) = AddFunction(m, l, kind, p)
      BY <2>1
    <3>2. ks \cap {kind} = {kind}
      BY <2>1
    <3> QED BY <1>4, <3>1, <3>2, AddFunctionAdds
  <2>2. CASE kind \notin ks
    <3>1. kinds \cup (ks \cap {kind}) = kinds /\ Step(m, kind) = m
      BY <2>2
    <3> QED BY <1>4, <3>1
  <2> QED BY <2>1, <2>2
<1> HIDE DEF Step
<1>5. AddsMatchers(mod, full, l, p, {} \cup (ks \cap {"full_match"}))
  BY <1>2, <1>3, <1>4
<1> HIDE DEF full
<1>6. AddsMatchers(mod, sub, l, p, ({} \cup (ks \cap {"full_match"})) \cup (ks \cap {"sub_match"}))
  BY <1>3, <1>4, <1>5
<1> HIDE DEF sub
<1>7. AddsMatchers(mod, all, l, p, (({} \cup (ks \cap {"full_match"}))
                                       \cup (ks \cap {"sub_match"})) \cup (ks \cap {"search"}))
  BY <1>3, <1>4, <1>6
<1>8. (({} \cup (ks \cap {"full_match"})) \cup (ks \cap {"sub_match"}))
          \cup (ks \cap {"search"}) = ks
  BY <1>3
<1>9. AddsMatchers(mod, all, l, p, ks)
  BY <1>7, <1>8
<1> QED BY <1>1, <1>9 DEF l, p, ks

\* mod1 is mod with the regex of def compiled into it.
Compiles(mod, mod1, def) ==
    /\ IsModule(mod1)
    /\ DOMAIN mod.functions \subseteq DOMAIN mod1.functions
    /\ \A k \in def.kinds \cup {"get_pattern"} : <<def.label, k>> \in DOMAIN mod1.functions
    /\ \A f \in DOMAIN mod1.functions :
           \/ f \in DOMAIN mod.functions /\ mod1.functions[f] = mod.functions[f]
           \/ \E k \in Kinds : f = <<def.label, k>> /\ mod1.functions[f] = def.pattern
           \/ /\ f = <<def.label, "get_pattern">>
              /\ mod1.functions[f] = GlobalName(def.label)
    /\ DOMAIN mod1.globals = DOMAIN mod.globals \cup {GlobalName(def.label)}
    /\ \A g \in DOMAIN mod.globals \ {GlobalName(def.label)} : mod1.globals[g] = mod.globals[g]
    /\ LET g == GlobalName(def.label)
       IN  /\ mod1.globals[g].pattern = def.pattern
           /\ mod1.globals[g].size = IF g \in DOMAIN mod.globals THEN mod.globals[g].size
                                     ELSE Length[def.pattern]

\* The matchers, the pattern and its function of a regex are in the module once
\* CompileRegex is done.
LEMMA CompileFacts ==
    ASSUME NEW mod, IsModule(mod), NEW def, def.kinds \subseteq Kinds
    PROVE  Compiles(mod, AddPattern(AddMatchers(mod, def), def), def)
<1> DEFINE mod1 == AddMatchers(mod, def)
           g == GlobalName(def.label)
           size == IF g \in DOMAIN mod1.globals THEN mod1.globals[g].size
                   ELSE Length[def.pattern]
           mod2 == [mod1 EXCEPT !.globals =
                        With(mod1.globals, g, [size |-> size, pattern |-> def.pattern])]
           mod3 == AddFunction(mod2, def.label, "get_pattern", g)
<1>1. AddsMatchers(mod, mod1, def.label, def.pattern, def.kinds)
  BY AddMatchersFacts
<1> HIDE DEF mod1
<1>2. IsModule(mod1) /\ mod1.globals = mod.globals
  BY <1>1 DEF AddsMatchers
<1>3. /\ IsModule(mod2)
      /\ mod2.functions = mod1.functions
      /\ DOMAIN mod2.globals = DOMAIN mod1.globals \cup {g}
      /\ \A x \in DOMAIN mod1.globals \ {g} : mod2.globals[x] = mod1.globals[x]
      /\ mod2.globals[g] = [size |-> size, pattern |-> def.pattern]
  BY <1>2 DEF IsModule, With
<1>4. AddPattern(mod1, def) = mod3
  BY DEF AddPattern
<1> HIDE DEF mod2
<1>5. /\ IsModule(mod3)
      /\ mod3.globals = mod2.globals
      /\ DOMAIN mod3.functions = DOMAIN mod2.functions \cup {<<def.label, "get_pattern">>}
      /\ \A f \in DOMAIN mod2.functions : mod3.functions[f] = mod2.functions[f]
      /\ \/ <<def.label, "get_pattern">> \in DOMAIN mod2.functions
         \/ mod3.functions[<<def.label, "get_pattern">>] = g
  BY <1>3, AddFunctionFacts
<1> HIDE DEF mod3
<1>6. ASSUME NEW f \in DOMAIN mod3.functions
      PROVE  \/ f \in DOMAIN mod.functions /\ mod3.functions[f] = mod.functions[f]
             \/ \E k \in Kinds : f = <<def.label, k>> /\ mod3.functions[f] = def.pattern
             \/ /\ f = <<def.label, "get_pattern">>
                /\ mod3.functions[f] = g
  <2>1. CASE f \in DOMAIN mod1.functions
    BY <1>1, <1>3, <1>5, <2>1 DEF AddsMatchers
  <2>2. CASE f \notin DOMAIN mod1.functions
    BY <1>3, <1>5, <2>2
  <2> QED BY <2>1, <2>2
<1>7. DOMAIN mod.functions \subseteq DOMAIN mod3.functions
  BY <1>1, <1>3, <1>5 DEF AddsMatchers
<1>8. \A k \in def.kinds \cup {"get_pattern"} : <<def.label, k>> \in DOMAIN mod3.functions
  BY <1>1, <1>3, <1>5 DEF AddsMatchers
<1>9. /\ DOMAIN mod3.globals = DOMAIN mod.globals \cup {g}
      /\ \A x \in DOMAIN mod.globals \ {g} : mod3.globals[x] = mod.globals[x]
      /\ mod3.globals[g].pattern = def.pattern
      /\ mod3.globals[g].size = IF g \in DOMAIN mod.globals THEN mod.globals[g].size
                                ELSE Length[def.pattern]
  BY <1>2, <1>3, <1>5
<1>10. Compiles(mod, mod3, def)
  BY <1>5, <1>6, <1>7, <1>8, <1>9 DEF Compiles
<1> QED BY <1>4, <1>10 DEF mod1

-----------------------------------------------------------------------------
(* How a run ends. *)

Unfailed == exit \in {"running", "ok"}

\* s is what is left of the files on the command line.
FilesInv == \E k \in Nat : IsRest(files, commandLine, k)

\* A run that goes on, or has gone well, has met no fault but the three that go
\* unnoticed; one that has gone well has nothing left to do.
RunInv ==
    /\ exit \in {"running", "ok", "exception", "crash", "hung"}
    /\ stage = "ended" <=> exit # "running"
    /\ Unfailed => faults \subseteq {"fork", "header", "passes"}
    /\ stage \notin {"regexes", "ended"} => defs = <<>>
    /\ exit = "ok" /\ ~Informs => files = <<>> /\ DOMAIN todo = {} /\ defs = <<>>

\* With the options at an end, help and version say whether they were asked for.
LEMMA InformsKnown ==
    ASSUME ArgsInv, EndOfOptions
    PROVE  help \/ version <=> Informs
<1>1. PICK k \in 0 .. Len(options) :
          /\ IsRest(argv, options, k)
          /\ help \/ version <=> InformsAfter(k)
  BY DEF ArgsInv, EndOfOptions
<1>2. k = Len(options)
  BY <1>1 DEF IsRest, EndOfOptions, ArgsInv
<1>3. DOMAIN options = 1 .. Len(options)
  BY DEF ArgsInv
<1> QED BY <1>1, <1>2, <1>3 DEF InformsAfter, Informs, Range

\* What was asked for stays what it is, faults stay, and a failed run stays failed.
LEMMA Monotone ==
    ASSUME RunInv, [Next]_vars
    PROVE  /\ faults \subseteq faults'
           /\ UNCHANGED <<options, commandLine>>
           /\ Informs' = Informs /\ AskedType' = AskedType /\ Built' = Built
           /\ Asked' = Asked
           /\ Unfailed' => Unfailed
<1>1. faults \subseteq faults'
  BY DEF Next, ParseOption, EndOfOptions, ReadFile, NextModule, CompileRegex, EmitHeader,
         EmitCode, Link, Unlink, Finish, Ended, vars, Fault
<1>2. UNCHANGED <<options, commandLine>>
  BY DEF Next, ParseOption, EndOfOptions, ReadFile, NextModule, CompileRegex, EmitHeader,
         EmitCode, Link, Unlink, Finish, Ended, vars, args
<1>3. Informs' = Informs /\ AskedType' = AskedType /\ Built' = Built
  BY <1>2 DEF Built, Informs, AskedType
<1>4. Asked' = Asked
  BY <1>2 DEF Asked
<1>5. stage # "ended" \/ exit' = exit
  BY DEF Next, ParseOption, EndOfOptions, ReadFile, NextModule, CompileRegex, EmitHeader,
         EmitCode, Link, Unlink, Finish, Ended, vars
<1>6. Unfailed' => Unfailed
  BY <1>5 DEF RunInv, Unfailed
<1> QED BY <1>1, <1>2, <1>3, <1>4, <1>6

\* No fault has occurred when the program starts.
LEMMA RunInit == Init => RunInv
BY DEF Init, RunInv, Unfailed

\* The steps that end a run normally, and those that end it early.
LEMMA RunStep == ArgsInv /\ RunInv /\ [Next]_vars => RunInv'
<1> SUFFICES ASSUME ArgsInv, RunInv, [Next]_vars PROVE RunInv'
  OBVIOUS
<1>1. Informs' = Informs
  BY Monotone
<1>2. CASE ParseOption
  BY <1>1, <1>2 DEF ParseOption, RunInv, Unfailed
<1>3. CASE EndOfOptions
  BY <1>1, <1>3, InformsKnown DEF EndOfOptions, Die, Fault, RunInv, Unfailed
<1>4. CASE ReadFile
  BY <1>1, <1>4 DEF ReadFile, Die, Fault, RunInv, Unfailed
<1>5. CASE NextModule
  BY <1>1, <1>5 DEF NextModule, RunInv, Unfailed
<1>6. CASE CompileRegex
  BY <1>1, <1>6 DEF CompileRegex, StopOf, Die, RunInv, Unfailed
<1>7. CASE EmitHeader
  BY <1>1, <1>7 DEF EmitHeader, Die, Fault, RunInv, Unfailed
<1>8. CASE EmitCode
  BY <1>1, <1>8 DEF EmitCode, Die, Fault, RunInv, Unfailed
<1>9. CASE Link
  BY <1>1, <1>9 DEF Link, LinkFailed, Die, RunInv, Unfailed
<1>10. CASE Unlink
  BY <1>1, <1>10 DEF Unlink, Die, Fault, RunInv, Unfailed
<1>11. CASE Finish
  BY <1>1, <1>11 DEF Finish, RunInv, Unfailed
<1>12. CASE Ended \/ UNCHANGED vars
  BY <1>1, <1>12 DEF Ended, vars, RunInv, Unfailed
<1> QED
  BY <1>2, <1>3, <1>4, <1>5, <1>6, <1>7, <1>8, <1>9, <1>10, <1>11, <1>12 DEF Next

\* The files still to read are the end of the command line.
LEMMA FilesStep == ArgsInv /\ FilesInv /\ [Next]_vars => FilesInv'
<1> SUFFICES ASSUME ArgsInv, FilesInv, [Next]_vars PROVE FilesInv'
  OBVIOUS
<1>1. CASE ReadFile
  <2>1. PICK k \in Nat : IsRest(files, commandLine, k)
    BY DEF FilesInv
  <2>2. IsRest(files', commandLine, k + 1)
    BY <1>1, <2>1, TailIsRest DEF ReadFile
  <2>3. commandLine' = commandLine
    BY <1>1 DEF ReadFile, args
  <2> QED BY <2>2, <2>3 DEF FilesInv
<1>2. CASE UNCHANGED <<files, commandLine>>
  BY <1>2 DEF FilesInv
<1>3. UNCHANGED <<files, commandLine>> \/ ReadFile
  BY DEF Next, ParseOption, EndOfOptions, NextModule, CompileRegex, EmitHeader, EmitCode,
         Link, Unlink, Finish, Ended, vars, args
<1> QED BY <1>1, <1>2, <1>3

\* The number of files read.
FilesRead == Len(commandLine) - Len(files)

\* Reading a file takes the next one of the command line.
LEMMA ReadFileTakes ==
    ASSUME ArgsInv, FilesInv, ReadFile
    PROVE  /\ FilesRead \in Nat
           /\ FilesRead' = FilesRead + 1
           /\ FilesRead + 1 \in DOMAIN commandLine
           /\ Head(files) = commandLine[FilesRead + 1]
           /\ commandLine' = commandLine
<1>1. PICK k \in Nat : IsRest(files, commandLine, k)
  BY DEF FilesInv
<1>2. /\ IsRest(Tail(files), commandLine, k + 1)
      /\ Head(files) = commandLine[k + 1]
      /\ k + 1 <= Len(commandLine)
  BY <1>1, TailIsRest DEF ReadFile
<1>3. files' = Tail(files) /\ commandLine' = commandLine
  BY DEF ReadFile, args
<1>4. FilesRead = k
  BY <1>1 DEF IsRest, FilesRead, ArgsInv
<1>5. FilesRead' = k + 1
  <2>1. Len(commandLine) = k + 1 + Len(Tail(files)) /\ Len(Tail(files)) \in Nat
    BY <1>2 DEF IsRest
  <2>2. FilesRead' = Len(commandLine) - Len(Tail(files))
    BY <1>3 DEF FilesRead
  <2> QED BY <2>1, <2>2
<1>6. k + 1 \in DOMAIN commandLine
  BY <1>2 DEF ArgsInv
<1> QED BY <1>2, <1>3, <1>4, <1>5, <1>6

\* At the end of a run that has gone well all of them have been read.
LEMMA AllRead ==
    ASSUME ArgsInv, FilesInv, files = <<>>
    PROVE  DOMAIN commandLine = 1 .. FilesRead
<1>1. PICK k \in Nat : IsRest(files, commandLine, k)
  BY DEF FilesInv
<1>2. FilesRead = Len(commandLine)
  BY <1>1 DEF IsRest, FilesRead, ArgsInv
<1> QED BY <1>2 DEF ArgsInv

-----------------------------------------------------------------------------
(* Header and artifact. *)

HeaderIs(m, functions) ==
    /\ <<m, "h">> \in DOMAIN disk
    /\ disk[<<m, "h">>] = functions
FileIs(m, extension, mod) ==
    /\ <<m, extension>> \in DOMAIN disk
    /\ disk[<<m, extension>>] = mod

\* The header of a module declares its functions, if headers could be opened.
HeaderDeclares(m) == "header" \notin faults => HeaderIs(m, Declared(modules[m]))

\* Header and artifact of a module come out of its present state.
Consistent(m) ==
    /\ m \in DOMAIN modules
    /\ HeaderDeclares(m)
    /\ Artifact(m) \in DOMAIN disk
    /\ disk[Artifact(m)] = modules[m]

InWork(m) == m = module /\ stage \in {"regexes", "emit", "link", "unlink"}

\* What has been written of the module in work.
WorkInv ==
    /\ stage \in {"emit", "link", "unlink"} => module \in DOMAIN modules /\ HeaderDeclares(module)
    /\ stage = "link" => FileIs(module, "o", modules[module])
    /\ stage = "unlink" => FileIs(module, LibraryExtension, modules[module])
    /\ stage \in {"link", "unlink"} => outputType \in {"SHARED", "STATIC"}

\* Of each module of a file read: it is still to do, in work, or done.
ModulesInv ==
    \A i \in 1 .. FilesRead : \A m \in DOMAIN ModulesOf(commandLine[i]) :
        m \in DOMAIN todo \/ InWork(m) \/ Consistent(m)

\* No fault has occurred that leaves no code and goes unnoticed.
Intact == faults \cap {"fork", "passes"} = {}

\* A run that builds, and that nothing but a header has failed so far.
Sound == Built /\ Intact /\ Unfailed

\* What holds throughout a run.  Failed runs and other types than Built are let off.
HeaderInv ==
    /\ ArgsInv
    /\ FilesInv
    /\ RunInv
    /\ Sound => WorkInv /\ ModulesInv

\* The kind of artifact follows from the type asked for, of which there are four.
LEMMA ArtifactCases ==
    ASSUME Built, NEW m
    PROVE  /\ AskedType = "OBJ" => Artifact(m) = <<m, "o">>
           /\ AskedType = "ASM" => Artifact(m) = <<m, "s">>
           /\ AskedType = "SHARED" => Artifact(m) = <<m, "so">>
           /\ AskedType = "STATIC" => Artifact(m) = <<m, "a">>
           /\ AskedType \in {"OBJ", "ASM", "SHARED", "STATIC"}
BY DEF Built, Artifact

\* Writing a file of one module leaves the files of the others.
LEMMA WriteKeeps ==
    ASSUME Built, NEW m, NEW n, NEW extension, NEW content, m # n,
           UNCHANGED <<args, modules>>, faults \subseteq faults',
           disk' = With(disk, <<n, extension>>, content), Consistent(m)
    PROVE  Consistent(m)'
<1>1. Artifact(m)' = Artifact(m)
  BY DEF Artifact, AskedType, args
<1>2. \E x : Artifact(m) = <<m, x>>
  BY ArtifactCases
<1> QED BY <1>1, <1>2 DEF Consistent, HeaderDeclares, HeaderIs, Declared, With

\* Removing a file of one module leaves the files of the others.
LEMMA RemoveKeeps ==
    ASSUME Built, NEW m, NEW n, NEW extension, m # n,
           UNCHANGED <<args, modules>>, faults \subseteq faults',
           disk' = Without(disk, <<n, extension>>), Consistent(m)
    PROVE  Consistent(m)'
<1>1. Artifact(m)' = Artifact(m)
  BY DEF Artifact, AskedType, args
<1>2. \E x : Artifact(m) = <<m, x>>
  BY ArtifactCases
<1> QED BY <1>1, <1>2 DEF Consistent, HeaderDeclares, HeaderIs, Declared, Without

\* A module stays consistent with its files while neither it nor a file is written.
LEMMA DiskKeeps ==
    ASSUME NEW m, UNCHANGED options, faults \subseteq faults', disk' = disk,
           m \in DOMAIN modules => m \in DOMAIN modules' /\ modules'[m] = modules[m],
           Consistent(m)
    PROVE  Consistent(m)'
<1>1. Artifact(m)' = Artifact(m)
  BY DEF Artifact, AskedType
<1> QED BY <1>1 DEF Consistent, HeaderDeclares, HeaderIs, Declared

\* No module is built, and no file written, when the program starts.
LEMMA HeaderInit == Init => HeaderInv
<1> SUFFICES ASSUME Init PROVE HeaderInv
  OBVIOUS
<1>1. ArgsInv /\ RunInv
  BY ArgsInit, RunInit
<1>2. files = commandLine /\ IsRest(files, commandLine, 0)
  BY <1>1, WholeIsRest DEF Init, ArgsInv
<1>3. FilesRead = 0
  BY <1>1, <1>2 DEF FilesRead, ArgsInv
<1> QED BY <1>1, <1>2, <1>3 DEF Init, HeaderInv, FilesInv, WorkInv, ModulesInv

\* What a step has to carry on.
Good == Sound /\ faults \subseteq faults' /\ WorkInv /\ ModulesInv

\* A file read adds modules that have no file yet.
LEMMA ReadFileGood ==
    ASSUME ArgsInv, FilesInv, Good, ReadFile, Unfailed'
    PROVE  WorkInv' /\ ModulesInv'
<1>1. /\ FilesRead \in Nat
      /\ FilesRead' = FilesRead + 1
      /\ Head(files) = commandLine[FilesRead + 1]
      /\ commandLine' = commandLine
  BY ReadFileTakes
<1>2. /\ stage' = "modules" /\ stage = "modules"
      /\ DOMAIN todo = {} /\ todo' = ModulesOf(Head(files))
      /\ UNCHANGED <<args, modules>> /\ disk' = disk
  BY DEF ReadFile, Die, Unfailed
<1>3. WorkInv'
  BY <1>2 DEF WorkInv
<1>4. ASSUME NEW i \in 1 .. (FilesRead + 1), NEW m \in DOMAIN ModulesOf(commandLine[i])
      PROVE  m \in DOMAIN todo' \/ Consistent(m)'
  <2>1. CASE i = FilesRead + 1
    BY <1>1, <1>2, <2>1
  <2>2. CASE i \in 1 .. FilesRead
    <3>1. Consistent(m)
      BY <1>2, <2>2 DEF Good, ModulesInv, InWork
    <3> QED BY <1>2, <3>1, DiskKeeps DEF Good, args
  <2> QED BY <1>1, <2>1, <2>2
<1> QED BY <1>1, <1>3, <1>4 DEF ModulesInv

\* The module taken next leaves the consistent ones behind it.
LEMMA NextModuleGood ==
    ASSUME Good, NextModule
    PROVE  WorkInv' /\ ModulesInv'
<1>1. PICK n \in DOMAIN todo : module' = n /\ todo' = Without(todo, n)
  BY DEF NextModule
<1>2. /\ UNCHANGED <<args, files, modules>> /\ disk' = disk
      /\ stage = "modules" /\ stage' = "regexes"
  BY DEF NextModule
<1>3. FilesRead' = FilesRead /\ commandLine' = commandLine
  BY <1>2 DEF FilesRead, args
<1>4. ASSUME NEW i \in 1 .. FilesRead, NEW m \in DOMAIN ModulesOf(commandLine[i])
      PROVE  m \in DOMAIN todo' \/ InWork(m)' \/ Consistent(m)'
  <2>1. CASE m = n
    BY <1>1, <1>2, <2>1 DEF InWork
  <2>2. CASE m # n /\ m \in DOMAIN todo
    BY <1>1, <2>2 DEF Without
  <2>3. CASE Consistent(m)
    BY <1>2, <2>3, DiskKeeps DEF Good, args
  <2> QED BY <1>2, <2>1, <2>2, <2>3 DEF Good, ModulesInv, InWork
<1> QED BY <1>2, <1>3, <1>4 DEF WorkInv, ModulesInv

\* The steps that deal with the module in work and leave it in work.
LEMMA StillInWork ==
    ASSUME Good, UNCHANGED <<args, files, todo, module>>,
           stage \in {"regexes", "emit", "link", "unlink"},
           stage' \in {"regexes", "emit", "link", "unlink"},
           \A m : m # module /\ Consistent(m) => Consistent(m)'
    PROVE  ModulesInv'
<1>1. FilesRead' = FilesRead /\ commandLine' = commandLine
  BY DEF FilesRead, args
<1>2. ASSUME NEW i \in 1 .. FilesRead, NEW m \in DOMAIN ModulesOf(commandLine[i])
      PROVE  m \in DOMAIN todo' \/ InWork(m)' \/ Consistent(m)'
  BY DEF Good, ModulesInv, InWork
<1> QED BY <1>1, <1>2 DEF ModulesInv

\* The steps that finish it.
LEMMA WorkDone ==
    ASSUME Good, UNCHANGED <<args, files, todo, module>>,
           stage' = "modules",
           \A m : m # module /\ Consistent(m) => Consistent(m)',
           Consistent(module)'
    PROVE  WorkInv' /\ ModulesInv'
<1>1. FilesRead' = FilesRead /\ commandLine' = commandLine /\ module' = module
  BY DEF FilesRead, args
<1>2. ASSUME NEW i \in 1 .. FilesRead, NEW m \in DOMAIN ModulesOf(commandLine[i])
      PROVE  m \in DOMAIN todo' \/ Consistent(m)'
  BY <1>1 DEF Good, ModulesInv, InWork
<1> QED BY <1>1, <1>2 DEF WorkInv, ModulesInv

\* A regex compiled changes the module in work only.
LEMMA CompileRegexGood ==
    ASSUME Good, CompileRegex, Unfailed'
    PROVE  WorkInv' /\ ModulesInv'
<1>1. /\ stage = "regexes" /\ stage' = "regexes"
      /\ \E mod : modules' = With(modules, module, mod)
      /\ UNCHANGED <<args, files, todo, module>> /\ disk' = disk
  BY DEF CompileRegex, StopOf, Die, Unfailed
<1>2. \A m : m # module /\ m \in DOMAIN modules =>
                 m \in DOMAIN modules' /\ modules'[m] = modules[m]
  BY <1>1 DEF With
<1>3. \A m : m # module /\ Consistent(m) => Consistent(m)'
  BY <1>1, <1>2, DiskKeeps DEF Good, args
<1>4. WorkInv'
  BY <1>1 DEF WorkInv
<1> QED BY <1>1, <1>3, <1>4, StillInWork

\* The header written declares what the module holds.
LEMMA EmitHeaderGood ==
    ASSUME ArgsInv, Good, EmitHeader, Unfailed'
    PROVE  WorkInv' /\ ModulesInv'
<1>1. /\ stage = "regexes" /\ stage' = "emit"
      /\ module \in DOMAIN modules
      /\ \/ disk' = With(disk, <<module, "h">>, Declared(modules[module]))
         \/ "header" \in faults' /\ disk' = disk
      /\ UNCHANGED <<args, files, todo, module, modules>>
  BY ArtifactCases DEF EmitHeader, Die, Fault, Good, Sound, Unfailed, ArgsInv
<1>2. WorkInv'
  BY <1>1 DEF WorkInv, HeaderDeclares, HeaderIs, With
<1>3. \A m : m # module /\ Consistent(m) => Consistent(m)'
  BY <1>1, WriteKeeps, DiskKeeps DEF Good, Sound, args
<1> QED BY <1>1, <1>2, <1>3, StillInWork

\* The code written next to a header defines what the header declares.
LEMMA EmitCodeGood ==
    ASSUME ArgsInv, Good, EmitCode, "passes" \notin faults', Unfailed'
    PROVE  WorkInv' /\ ModulesInv'
<1> DEFINE extension == IF outputType = "ASM" THEN "s" ELSE "o"
<1>1. outputType = AskedType /\ outputType \in {"OBJ", "ASM", "SHARED", "STATIC"}
  BY ArtifactCases DEF EmitCode, Good, Sound, ArgsInv
<1>2. /\ stage = "emit"
      /\ stage' = IF outputType \in {"SHARED", "STATIC"} THEN "link" ELSE "modules"
      /\ disk' = With(disk, <<module, extension>>, modules[module])
      /\ UNCHANGED <<args, files, todo, module, modules, faults>>
  BY <1>1 DEF EmitCode, Die, Fault, Good, Unfailed
<1>3. module \in DOMAIN modules /\ HeaderDeclares(module)
  BY <1>2 DEF Good, WorkInv
<1>4. \A m : m # module /\ Consistent(m) => Consistent(m)'
  BY <1>2, WriteKeeps DEF Good, Sound
<1>5. /\ HeaderDeclares(module)'
      /\ FileIs(module, extension, modules[module])'
      /\ module' \in DOMAIN modules'
  BY <1>2, <1>3 DEF HeaderDeclares, HeaderIs, FileIs, With, Declared, args
<1>6. CASE outputType \in {"SHARED", "STATIC"}
  <2>1. stage' = "link" /\ extension = "o" /\ outputType' = outputType
    BY <1>2, <1>6 DEF args
  <2>2. WorkInv'
    BY <1>5, <1>6, <2>1 DEF WorkInv
  <2> QED BY <1>2, <1>4, <2>1, <2>2, StillInWork
<1>7. CASE outputType \in {"OBJ", "ASM"}
  <2>1. Artifact(module) = <<module, extension>>
    BY <1>1, <1>7, ArtifactCases DEF Good, Sound
  <2>2. Artifact(module)' = <<module, extension>>'
    BY <1>2, <2>1 DEF Artifact, AskedType, args
  <2>3. Consistent(module)'
    BY <1>5, <2>2 DEF Consistent, FileIs
  <2> QED BY <1>2, <1>4, <1>7, <2>3, WorkDone
<1> QED BY <1>1, <1>6, <1>7

\* The library holds the code of the object file it is linked from.
LEMMA LinkGood ==
    ASSUME Good, Link, "fork" \notin faults', Unfailed'
    PROVE  WorkInv' /\ ModulesInv'
<1>1. /\ stage = "link" /\ stage' = "unlink"
      /\ disk' = With(disk, <<module, LibraryExtension>>, disk[<<module, "o">>])
      /\ UNCHANGED <<args, files, todo, module, modules>>
  BY DEF Link, LinkFailed, Die, Unfailed
<1>2. /\ module \in DOMAIN modules /\ HeaderDeclares(module)
      /\ FileIs(module, "o", modules[module])
      /\ outputType \in {"SHARED", "STATIC"}
  BY <1>1 DEF Good, WorkInv
<1>3. outputType' = outputType /\ LibraryExtension' = LibraryExtension
  BY <1>1 DEF LibraryExtension, args
<1>4. LibraryExtension # "h"
  BY DEF LibraryExtension
<1>5. HeaderDeclares(module)'
  BY <1>1, <1>2, <1>4 DEF Good, HeaderDeclares, HeaderIs, Declared, With
<1>6. WorkInv'
  BY <1>1, <1>2, <1>3, <1>5 DEF WorkInv, FileIs, With
<1>7. \A m : m # module /\ Consistent(m) => Consistent(m)'
  BY <1>1, WriteKeeps DEF Good, Sound
<1> QED BY <1>1, <1>6, <1>7, StillInWork

\* Removing the object file leaves a module whose library matches its header.
LEMMA UnlinkGood ==
    ASSUME ArgsInv, Good, Unlink, Unfailed'
    PROVE  WorkInv' /\ ModulesInv'
<1>1. /\ stage = "unlink" /\ stage' = "modules"
      /\ disk' = Without(disk, <<module, "o">>)
      /\ UNCHANGED <<args, files, todo, module, modules>>
  BY DEF Unlink, Die, Unfailed
<1>2. /\ module \in DOMAIN modules /\ HeaderDeclares(module)
      /\ FileIs(module, LibraryExtension, modules[module])
      /\ outputType \in {"SHARED", "STATIC"} /\ outputType = AskedType
  BY <1>1 DEF Good, WorkInv, ArgsInv
<1>3. Artifact(module) = <<module, LibraryExtension>>
  BY <1>2, ArtifactCases DEF Good, Sound, LibraryExtension
<1>4. Artifact(module)' = Artifact(module)
  BY <1>1 DEF Artifact, AskedType, args
<1>5. LibraryExtension # "o"
  BY DEF LibraryExtension
<1>6. HeaderDeclares(module)'
  BY <1>1, <1>2 DEF Good, HeaderDeclares, HeaderIs, Declared, Without
<1>7. Consistent(module)'
  BY <1>1, <1>2, <1>3, <1>4, <1>5, <1>6 DEF Consistent, FileIs, Without
<1>8. \A m : m # module /\ Consistent(m) => Consistent(m)'
  BY <1>1, RemoveKeeps DEF Good, Sound
<1> QED BY <1>1, <1>7, <1>8, WorkDone

\* Every action preserves the invariant behind HeaderMatchesArtifact.
LEMMA HeaderStep == HeaderInv /\ [Next]_vars => HeaderInv'
<1> SUFFICES ASSUME HeaderInv, [Next]_vars PROVE HeaderInv'
  OBVIOUS
<1>1. ArgsInv' /\ FilesInv' /\ RunInv'
  BY ArgsStep, FilesStep, RunStep DEF HeaderInv
<1>2. ASSUME Sound' PROVE WorkInv' /\ ModulesInv'
  <2>1. /\ faults \subseteq faults' /\ Unfailed' /\ Unfailed
        /\ Built /\ Intact' /\ Intact /\ ~Informs
        /\ "fork" \notin faults' /\ "passes" \notin faults'
        /\ UNCHANGED <<options, commandLine>>
    BY <1>2, Monotone DEF Sound, HeaderInv, Built, Intact
  <2>2. Good
    BY <2>1 DEF Good, HeaderInv, Sound
  <2>3. CASE ParseOption \/ EndOfOptions \/ Finish \/ Ended \/ UNCHANGED vars
    <3>1. /\ UNCHANGED <<files, todo, module, disk, modules, faults>>
          /\ stage \in {"args", "modules", "ended"} \/ UNCHANGED outputType
          /\ \/ stage' = stage
             \/ stage \in {"args", "modules"} /\ stage' \in {"args", "modules", "ended"}
      <4>1. CASE ParseOption
        BY <4>1 DEF ParseOption
      <4>2. CASE EndOfOptions
        <5>1. UNCHANGED <<files, todo, module, disk, modules>> /\ stage = "args"
          BY <4>2 DEF EndOfOptions
        <5>2. /\ stage' = "ended" \/ stage' = "modules"
              /\ UNCHANGED faults
          BY <2>1, <4>2 DEF EndOfOptions, Die, Unfailed
        <5> QED BY <5>1, <5>2
      <4>3. CASE Finish
        BY <4>3 DEF Finish
      <4>4. CASE Ended \/ UNCHANGED vars
        <5>1. UNCHANGED <<files, todo, module, disk, modules, faults, stage, outputType>>
          BY <4>4 DEF Ended, vars, args
        <5> QED BY <5>1
      <4> QED BY <2>3, <4>1, <4>2, <4>3, <4>4
    <3>2. FilesRead' = FilesRead
      BY <2>1, <3>1 DEF FilesRead
    <3>3. \A m : Consistent(m) => Consistent(m)'
      BY <2>1, <3>1, DiskKeeps
    <3>4. \A m : InWork(m) => InWork(m)'
      BY <3>1 DEF InWork
    <3>5. ModulesInv'
      BY <2>1, <2>2, <3>1, <3>2, <3>3, <3>4 DEF Good, ModulesInv
    <3>6. WorkInv'
      BY <2>2, <3>1 DEF Good, WorkInv, HeaderDeclares, HeaderIs, FileIs, LibraryExtension
    <3> QED BY <3>5, <3>6
  <2>4. CASE ReadFile
    BY <2>1, <2>2, <2>4, ReadFileGood DEF HeaderInv
  <2>5. CASE NextModule
    BY <2>2, <2>5, NextModuleGood
  <2>6. CASE CompileRegex
    BY <2>1, <2>2, <2>6, CompileRegexGood
  <2>7. CASE EmitHeader
    BY <2>1, <2>2, <2>7, EmitHeaderGood DEF HeaderInv
  <2>8. CASE EmitCode
    BY <2>1, <2>2, <2>8, EmitCodeGood DEF HeaderInv
  <2>9. CASE Link
    BY <2>1, <2>2, <2>9, LinkGood
  <2>10. CASE Unlink
    BY <2>1, <2>2, <2>10, UnlinkGood DEF HeaderInv
  <2> QED BY <2>3, <2>4, <2>5, <2>6, <2>7, <2>8, <2>9, <2>10 DEF Next
<1> QED BY <1>1, <1>2 DEF HeaderInv

\* The invariant of headers and artifacts holds of every run.
LEMMA HeaderHolds == Spec => []HeaderInv
BY HeaderInit, HeaderStep, PTL DEF Spec

\* At the end each module asked for is consistent with its files.
LEMMA AskedIsConsistent ==
    ASSUME HeaderInv, exit = "ok", Built, Intact, NEW a \in Asked
    PROVE  Consistent(a[1])
<1>1. /\ Sound /\ stage = "ended" /\ DOMAIN todo = {} /\ files = <<>>
  BY DEF HeaderInv, RunInv, Sound, Unfailed, Built
<1>2. DOMAIN commandLine = 1 .. FilesRead
  BY <1>1, AllRead DEF HeaderInv
<1>3. PICK i \in DOMAIN commandLine : \E m \in DOMAIN ModulesOf(commandLine[i]) :
          \E def \in Range(ModulesOf(commandLine[i])[m]) : a = <<m, def>>
  BY AskedIs
<1>4. PICK m \in DOMAIN ModulesOf(commandLine[i]) : a[1] = m
  BY <1>3
<1>5. ModulesInv
  BY <1>1 DEF HeaderInv
<1> QED BY <1>1, <1>2, <1>4, <1>5 DEF ModulesInv, InWork

\* main.cc:73-108, aotrc_compiler.cc:181-236.  However many files and modules
\* there are and however they share them, a run without faults leaves with each
\* artifact the header that declares its functions.
THEOREM HeadersMatch == Spec => []HeaderMatchesArtifact
<1>1. HeaderInv => HeaderMatchesArtifact
  <2> SUFFICES ASSUME HeaderInv, exit = "ok", Built, faults = {}, NEW a \in Asked
               PROVE  /\ <<a[1], "h">> \in DOMAIN disk
                      /\ disk[<<a[1], "h">>] = DOMAIN disk[Artifact(a[1])].functions
    BY DEF HeaderMatchesArtifact
  <2>1. Consistent(a[1])
    BY AskedIsConsistent DEF Intact
  <2> QED BY <2>1 DEF Consistent, HeaderDeclares, HeaderIs, Declared
<1> QED BY <1>1, HeaderHolds, PTL

-----------------------------------------------------------------------------
(* The code of each module. *)

\* What is still to do has been asked for; a module without regexes is one the
\* files have.
TodoInv ==
    /\ commandLine \in CommandLines
    /\ \A m \in DOMAIN todo : \E i \in DOMAIN commandLine :
           /\ m \in DOMAIN ModulesOf(commandLine[i])
           /\ todo[m] = ModulesOf(commandLine[i])[m]
    /\ defs \in Seq(Range(defs))
    /\ \A def \in Range(defs) : <<module, def>> \in Asked
    /\ stage = "regexes" /\ defs = <<>> =>
           \/ module \in DOMAIN modules
           \/ \E i \in DOMAIN commandLine : <<>> \in Range(ModulesOf(commandLine[i]))

\* Each function comes from a regex asked for under its label in the module.
OwnFunctions(m, functions) ==
    \A f \in DOMAIN functions : \E a \in Asked :
        /\ a[1] = m
        /\ \/ \E k \in Kinds : f = <<a[2].label, k>> /\ functions[f] = a[2].pattern
           \/ f = <<a[2].label, "get_pattern">> /\ functions[f] = GlobalName(a[2].label)

\* Each global has the pattern of one regex of its label, and the size of one,
\* which need not be the same.
OwnGlobals(m, globals) ==
    \A g \in DOMAIN globals :
        /\ \E a \in Asked :
               /\ a[1] = m /\ GlobalName(a[2].label) = g
               /\ globals[g].pattern = a[2].pattern
        /\ \E a \in Asked :
               /\ a[1] = m /\ GlobalName(a[2].label) = g
               /\ globals[g].size = Length[a[2].pattern]

IsOwn(m, mod) ==
    IsModule(mod) /\ OwnFunctions(m, mod.functions) /\ OwnGlobals(m, mod.globals)

\* No module has code that was not asked for.
CodeInv == \A m \in DOMAIN modules : IsOwn(m, modules[m])

ToDo(m, def) ==
    \/ m \in DOMAIN todo /\ def \in Range(todo[m])
    \/ m = module /\ def \in Range(defs)

Compiled(m, def) ==
    /\ m \in DOMAIN modules
    /\ \A k \in def.kinds \cup {"get_pattern"} :
           <<def.label, k>> \in DOMAIN modules[m].functions
    /\ GlobalName(def.label) \in DOMAIN modules[m].globals

\* Every regex of a file read is still to do, or its functions are there.
CompiledInv ==
    \A i \in 1 .. FilesRead : \A m \in DOMAIN ModulesOf(commandLine[i]) :
        \A def \in Range(ModulesOf(commandLine[i])[m]) : ToDo(m, def) \/ Compiled(m, def)

\* What holds throughout a run of what it compiles.
BuildInv ==
    /\ HeaderInv
    /\ TodoInv
    /\ CodeInv
    /\ Unfailed => CompiledInv

\* The kinds of matcher asked for are those there are.
LEMMA AskedKinds ==
    ASSUME TodoInv, NEW a \in Asked
    PROVE  a[2].kinds \subseteq Kinds
<1>1. PICK i \in DOMAIN commandLine : \E m \in DOMAIN ModulesOf(commandLine[i]) :
          \E def \in Range(ModulesOf(commandLine[i])[m]) : a = <<m, def>>
  BY AskedIs
<1>2. PICK m \in DOMAIN ModulesOf(commandLine[i]) :
          \E def \in Range(ModulesOf(commandLine[i])[m]) : a = <<m, def>>
  BY <1>1
<1>3. \A def \in Range(ModulesOf(commandLine[i])[m]) : def.kinds \subseteq Kinds
  BY ModulesOfFacts DEF TodoInv
<1> QED BY <1>2, <1>3

\* A module that has nothing yet has nothing that was not asked for.
LEMMA NewIsOwn == ASSUME NEW m PROVE IsModule(NewModule) /\ IsOwn(m, NewModule)
BY DEF NewModule, NoFiles, IsOwn, IsModule, OwnFunctions, OwnGlobals

\* A regex that was asked for, compiled into a module, leaves it its own.
LEMMA CompilesKeepsOwn ==
    ASSUME NEW m, NEW def, <<m, def>> \in Asked, NEW mod, NEW mod1,
           IsOwn(m, mod), Compiles(mod, mod1, def)
    PROVE  IsOwn(m, mod1)
<1> DEFINE a0 == <<m, def>>
           g0 == GlobalName(def.label)
<1>1. a0 \in Asked /\ a0[1] = m /\ a0[2] = def
  OBVIOUS
<1>2. ASSUME NEW f \in DOMAIN mod1.functions
      PROVE  \E a \in Asked :
                /\ a[1] = m
                /\ \/ \E k \in Kinds : f = <<a[2].label, k>> /\ mod1.functions[f] = a[2].pattern
                   \/ /\ f = <<a[2].label, "get_pattern">>
                      /\ mod1.functions[f] = GlobalName(a[2].label)
  <2>1. CASE f \in DOMAIN mod.functions /\ mod1.functions[f] = mod.functions[f]
    <3>1. PICK a \in Asked :
              /\ a[1] = m
              /\ \/ \E k \in Kinds : f = <<a[2].label, k>> /\ mod.functions[f] = a[2].pattern
                 \/ /\ f = <<a[2].label, "get_pattern">>
                    /\ mod.functions[f] = GlobalName(a[2].label)
      BY <2>1 DEF IsOwn, OwnFunctions
    <3> QED BY <2>1, <3>1
  <2>2. CASE \E k \in Kinds : f = <<def.label, k>> /\ mod1.functions[f] = def.pattern
    BY <1>1, <2>2
  <2>3. CASE f = <<def.label, "get_pattern">> /\ mod1.functions[f] = GlobalName(def.label)
    BY <1>1, <2>3
  <2> QED BY <2>1, <2>2, <2>3 DEF Compiles
<1>3. ASSUME NEW g \in DOMAIN mod1.globals
      PROVE  /\ \E a \in Asked :
                   /\ a[1] = m /\ GlobalName(a[2].label) = g
                   /\ mod1.globals[g].pattern = a[2].pattern
             /\ \E a \in Asked :
                   /\ a[1] = m /\ GlobalName(a[2].label) = g
                   /\ mod1.globals[g].size = Length[a[2].pattern]
  <2>1. g \in DOMAIN mod.globals =>
            /\ \E a \in Asked :
                  /\ a[1] = m /\ GlobalName(a[2].label) = g
                  /\ mod.globals[g].pattern = a[2].pattern
            /\ \E a \in Asked :
                  /\ a[1] = m /\ GlobalName(a[2].label) = g
                  /\ mod.globals[g].size = Length[a[2].pattern]
    BY DEF IsOwn, OwnGlobals
  <2>2. CASE g # g0
    <3>1. g \in DOMAIN mod.globals /\ mod1.globals[g] = mod.globals[g]
      BY <2>2 DEF Compiles
    <3> QED BY <2>1, <3>1
  <2>3. CASE g = g0
    <3>1. /\ mod1.globals[g].pattern = def.pattern
          /\ mod1.globals[g].size = IF g \in DOMAIN mod.globals THEN mod.globals[g].size
                                    ELSE Length[def.pattern]
      BY <2>3 DEF Compiles
    <3> HIDE DEF a0
    <3>2. a0[1] = m /\ GlobalName(a0[2].label) = g /\ mod1.globals[g].pattern = a0[2].pattern
      BY <1>1, <2>3, <3>1
    <3>3. CASE g \in DOMAIN mod.globals
      BY <1>1, <2>1, <3>1, <3>2, <3>3
    <3>4. CASE g \notin DOMAIN mod.globals
      BY <1>1, <3>1, <3>2, <3>4
    <3> QED BY <3>3, <3>4
  <2> QED BY <2>2, <2>3
<1> QED BY <1>2, <1>3 DEF IsOwn, OwnFunctions, OwnGlobals, Compiles

\* What a step of CompileRegex that does not fail does.
CompilesNext ==
    /\ UNCHANGED <<args, files, todo, module, disk, stage, exit, faults>>
    /\ defs' = Tail(defs)
    /\ DOMAIN modules' = DOMAIN modules \cup {module}
    /\ \A m \in DOMAIN modules \ {module} : modules'[m] = modules[m]
    /\ \E mod :
           /\ \/ module \in DOMAIN modules /\ mod = modules[module]
              \/ module \notin DOMAIN modules /\ mod = NewModule
           /\ IsOwn(module, mod)
           /\ Compiles(mod, modules'[module], Head(defs))

\* It compiles the next regex into the module in work, or it ends the run.
LEMMA CompileRegexDoes ==
    ASSUME TodoInv, CodeInv, CompileRegex
    PROVE  /\ defs # <<>> /\ Head(defs) \in Range(defs) /\ <<module, Head(defs)>> \in Asked
           /\ \/ CompilesNext
              \/ UNCHANGED <<defs, modules>> /\ stage' = "ended" /\ exit' # "ok"
           /\ stage = "regexes"
<1> DEFINE def == Head(defs)
           mod == IF module \in DOMAIN modules THEN modules[module] ELSE NewModule
<1>1. defs # <<>> /\ def \in Range(defs)
  <2>1. defs # <<>> /\ 1 \in DOMAIN defs /\ def = defs[1]
    BY DEF CompileRegex, TodoInv
  <2> QED BY <2>1 DEF Range
<1>2. <<module, def>> \in Asked
  BY <1>1 DEF TodoInv
<1>3. def.kinds \subseteq Kinds
  <2> DEFINE a == <<module, def>>
  <2>1. a \in Asked /\ a[2] = def
    BY <1>2
  <2> HIDE DEF a
  <2>2. a[2].kinds \subseteq Kinds
    BY <2>1, AskedKinds
  <2> QED BY <2>1, <2>2
<1>4. IsModule(mod) /\ IsOwn(module, mod)
  BY NewIsOwn DEF CodeInv, IsOwn
<1>5. Compiles(mod, AddPattern(AddMatchers(mod, def), def), def)
  <2> HIDE DEF mod, def
  <2> QED BY <1>3, <1>4, CompileFacts
<1>6. CASE UNCHANGED <<defs, modules>>
  <2>1. defs # Tail(defs)
    <3>1. defs \in Seq(Range(defs)) /\ defs # <<>>
      BY <1>1 DEF TodoInv
    <3> QED BY <3>1
  <2>2. stage' = "ended" /\ exit' # "ok"
    BY <1>6, <2>1 DEF CompileRegex, StopOf, Die
  <2> QED BY <1>1, <1>2, <1>6, <2>2 DEF CompileRegex
<1>7. CASE ~UNCHANGED <<defs, modules>>
  <2>1. /\ modules' = With(modules, module, AddPattern(AddMatchers(mod, def), def))
        /\ defs' = Tail(defs)
        /\ UNCHANGED <<args, files, todo, module, disk, stage, exit, faults>>
    BY <1>7 DEF CompileRegex
  <2>2. modules'[module] = AddPattern(AddMatchers(mod, def), def)
    BY <2>1 DEF With
  <2>3. /\ DOMAIN modules' = DOMAIN modules \cup {module}
        /\ \A m \in DOMAIN modules \ {module} : modules'[m] = modules[m]
    BY <2>1 DEF With
  <2>4. Compiles(mod, modules'[module], def)
    BY <1>5, <2>2
  <2>5. \/ module \in DOMAIN modules /\ mod = modules[module]
        \/ module \notin DOMAIN modules /\ mod = NewModule
    OBVIOUS
  <2> HIDE DEF mod
  <2>6. CompilesNext
    BY <1>4, <2>1, <2>3, <2>4, <2>5 DEF CompilesNext
  <2> QED BY <1>1, <1>2, <2>6 DEF CompileRegex
<1> QED BY <1>6, <1>7

\* A list whose elements are in a set is a list of that set.
LEMMA ListIn ==
    ASSUME NEW S, NEW s \in Seq(S), NEW T, \A i \in 1 .. Len(s) : s[i] \in T
    PROVE  s \in Seq(T)
OBVIOUS

\* A list is one of its own elements.
LEMMA ListOfRange ==
    ASSUME NEW S, NEW s \in Seq(S)
    PROVE  s \in Seq(Range(s))
<1>1. \A i \in 1 .. Len(s) : s[i] \in Range(s)
  BY DEF Range
<1>2. QED BY <1>1, ListIn

\* Taking the head of a list leaves its other elements.
LEMMA TailRange ==
    ASSUME NEW s, s \in Seq(Range(s)), s # <<>>
    PROVE  /\ Tail(s) \in Seq(Range(Tail(s)))
           /\ Range(s) = {Head(s)} \cup Range(Tail(s))
<1> DEFINE t == Tail(s)
<1>1. Len(s) \in Nat /\ Len(s) > 0 /\ DOMAIN s = 1 .. Len(s) /\ Head(s) = s[1]
  OBVIOUS
<1>2. t \in Seq(Range(s)) /\ Len(t) = Len(s) - 1 /\ DOMAIN t = 1 .. Len(t)
      /\ \A i \in 1 .. Len(t) : t[i] = s[i + 1]
  BY <1>1
<1> HIDE DEF t
<1>3. t \in Seq(Range(t))
  BY <1>2, ListOfRange
<1>4. Range(t) \subseteq Range(s)
  BY <1>1, <1>2 DEF Range
<1>5. ASSUME NEW i \in DOMAIN s PROVE s[i] = Head(s) \/ s[i] \in Range(t)
  <2>1. CASE i = 1
    BY <1>1, <2>1
  <2>2. CASE i # 1
    <3>1. i - 1 \in DOMAIN t /\ t[i - 1] = s[(i - 1) + 1] /\ (i - 1) + 1 = i
      BY <1>1, <1>2, <2>2
    <3>2. t[i - 1] \in Range(t)
      BY <3>1 DEF Range
    <3> QED BY <3>1, <3>2
  <2> QED BY <2>1, <2>2
<1>6. Head(s) \in Range(s)
  BY <1>1 DEF Range
<1>7. Range(s) = {Head(s)} \cup Range(t)
  <2>1. \A x \in Range(s) : x = Head(s) \/ x \in Range(t)
    BY <1>5 DEF Range
  <2> QED BY <1>4, <1>6, <2>1
<1> QED BY <1>3, <1>7 DEF t

\* Nothing is to do, and nothing compiled, when the program starts.
LEMMA BuildInit == Init => BuildInv
<1> SUFFICES ASSUME Init PROVE BuildInv
  OBVIOUS
<1>1. HeaderInv
  BY HeaderInit
<1>2. FilesRead = 0
  BY <1>1 DEF Init, FilesRead, HeaderInv, ArgsInv
<1>3. <<>> \in Seq(Range(<<>>)) /\ Range(<<>>) = {}
  BY DEF Range
<1>4. TodoInv
  BY <1>3 DEF Init, TodoInv, NoFiles
<1>5. CodeInv
  BY DEF Init, CodeInv, NoFiles
<1>6. CompiledInv
  BY <1>2 DEF CompiledInv
<1> QED BY <1>1, <1>4, <1>5, <1>6 DEF BuildInv

\* The steps that neither take up nor finish anything to do.
LEMMA OthersLeave ==
    ASSUME [Next]_vars, ~ReadFile, ~NextModule, ~CompileRegex
    PROVE  /\ UNCHANGED <<files, todo, module, defs, modules>>
           /\ stage' = stage \/ stage' # "regexes"
<1>1. CASE ParseOption
  BY <1>1 DEF ParseOption
<1>2. CASE EndOfOptions
  BY <1>2 DEF EndOfOptions, Die
<1>3. CASE EmitHeader
  BY <1>3 DEF EmitHeader, Die
<1>4. CASE EmitCode
  BY <1>4 DEF EmitCode, Die
<1>5. CASE Link
  BY <1>5 DEF Link, Die
<1>6. CASE Unlink
  BY <1>6 DEF Unlink, Die
<1>7. CASE Finish
  BY <1>7 DEF Finish
<1>8. CASE Ended \/ UNCHANGED vars
  BY <1>8 DEF Ended, vars
<1> QED BY <1>1, <1>2, <1>3, <1>4, <1>5, <1>6, <1>7, <1>8 DEF Next

\* What is to do comes from a file, and leaves when it is done.
LEMMA TodoStep == BuildInv /\ [Next]_vars => TodoInv'
<1> SUFFICES ASSUME BuildInv, [Next]_vars PROVE TodoInv'
  OBVIOUS
<1>1. commandLine' = commandLine /\ Asked' = Asked
  BY Monotone DEF BuildInv, HeaderInv
<1>2. ASSUME ReadFile PROVE TodoInv'
  <2>1. /\ FilesRead + 1 \in DOMAIN commandLine
        /\ Head(files) = commandLine[FilesRead + 1]
    BY <1>2, ReadFileTakes DEF BuildInv, HeaderInv
  <2>2. /\ UNCHANGED <<module, defs, modules>> /\ stage' # "regexes"
        /\ todo' = ModulesOf(Head(files)) \/ todo' = todo
    BY <1>2 DEF ReadFile, Die
  <2> QED BY <1>1, <2>1, <2>2 DEF TodoInv, BuildInv
<1>3. ASSUME NextModule PROVE TodoInv'
  <2>1. PICK n \in DOMAIN todo :
            module' = n /\ defs' = todo[n] /\ todo' = Without(todo, n)
    BY <1>3 DEF NextModule
  <2>2. PICK i \in DOMAIN commandLine :
            n \in DOMAIN ModulesOf(commandLine[i]) /\ todo[n] = ModulesOf(commandLine[i])[n]
    BY DEF TodoInv, BuildInv
  <2>3. defs' \in Seq(Range(defs'))
    BY <2>1, <2>2, ModulesOfFacts DEF TodoInv, BuildInv
  <2>4. \A def \in Range(defs') : <<module', def>> \in Asked
    BY <2>1, <2>2, AskedIs
  <2>5. defs' = <<>> => <<>> \in Range(ModulesOf(commandLine[i]))
    BY <2>1, <2>2 DEF Range
  <2>6. \A m \in DOMAIN todo' : m \in DOMAIN todo /\ todo'[m] = todo[m]
    BY <2>1 DEF Without
  <2> QED BY <1>1, <2>3, <2>4, <2>5, <2>6 DEF TodoInv, BuildInv
<1>4. ASSUME CompileRegex PROVE TodoInv'
  <2>1. /\ defs # <<>>
        /\ \/ CompilesNext
           \/ UNCHANGED <<defs, modules>> /\ stage' = "ended"
    BY <1>4, CompileRegexDoes DEF BuildInv
  <2>2. UNCHANGED <<todo, module>>
    BY <1>4 DEF CompileRegex
  <2>3. CASE CompilesNext
    <3>1. defs' = Tail(defs) /\ module \in DOMAIN modules'
      BY <2>3 DEF CompilesNext
    <3>2. /\ Tail(defs) \in Seq(Range(Tail(defs)))
          /\ Range(Tail(defs)) \subseteq Range(defs)
      BY <2>1, TailRange DEF TodoInv, BuildInv
    <3> QED BY <1>1, <2>2, <3>1, <3>2 DEF TodoInv, BuildInv
  <2>4. CASE UNCHANGED <<defs, modules>> /\ stage' = "ended"
    BY <1>1, <2>2, <2>4 DEF TodoInv, BuildInv
  <2> QED BY <2>1, <2>3, <2>4
<1>5. ASSUME ~ReadFile, ~NextModule, ~CompileRegex PROVE TodoInv'
  <2>1. /\ UNCHANGED <<files, todo, module, defs, modules>>
        /\ stage' = stage \/ stage' # "regexes"
    BY <1>5, OthersLeave
  <2> QED BY <1>1, <2>1 DEF TodoInv, BuildInv
<1> QED BY <1>2, <1>3, <1>4, <1>5

\* Only CompileRegex changes code, and only that of the module in work.
LEMMA CodeStep == BuildInv /\ [Next]_vars => CodeInv'
<1> SUFFICES ASSUME BuildInv, [Next]_vars PROVE CodeInv'
  OBVIOUS
<1>1. Asked' = Asked
  BY Monotone DEF BuildInv, HeaderInv
<1>2. ASSUME \A m \in DOMAIN modules' : IsOwn(m, modules'[m]) PROVE CodeInv'
  BY <1>1, <1>2 DEF CodeInv, IsOwn, OwnFunctions, OwnGlobals
<1>3. CASE UNCHANGED modules
  <2>1. \A m \in DOMAIN modules' : IsOwn(m, modules'[m])
    BY <1>3 DEF CodeInv, BuildInv
  <2> QED BY <1>2, <2>1
<1>4. CASE CompileRegex /\ CompilesNext
  <2>1. <<module, Head(defs)>> \in Asked
    BY <1>4, CompileRegexDoes DEF BuildInv
  <2>2. PICK mod : IsOwn(module, mod) /\ Compiles(mod, modules'[module], Head(defs))
    BY <1>4 DEF CompilesNext
  <2>3. IsOwn(module, modules'[module])
    BY <2>1, <2>2, CompilesKeepsOwn
  <2>4. \A m \in DOMAIN modules' : IsOwn(m, modules'[m])
    BY <1>4, <2>3 DEF CompilesNext, CodeInv, BuildInv
  <2> QED BY <1>2, <2>4
<1>5. \/ UNCHANGED modules
      \/ CompileRegex /\ CompilesNext
  <2>1. CASE CompileRegex
    BY <2>1, CompileRegexDoes DEF BuildInv
  <2>2. CASE ReadFile \/ NextModule
    BY <2>2 DEF ReadFile, NextModule
  <2> QED BY <2>1, <2>2, OthersLeave
<1> QED BY <1>3, <1>4, <1>5

\* A function that is there stays.
LEMMA CompiledStays ==
    ASSUME CompilesNext, NEW m, NEW def, Compiled(m, def)
    PROVE  Compiled(m, def)'
<1>1. PICK mod : /\ module \in DOMAIN modules => mod = modules[module]
                 /\ Compiles(mod, modules'[module], Head(defs))
  BY DEF CompilesNext
<1>2. /\ DOMAIN mod.functions \subseteq DOMAIN modules'[module].functions
      /\ DOMAIN mod.globals \subseteq DOMAIN modules'[module].globals
  BY <1>1 DEF Compiles
<1>3. CASE m = module
  BY <1>1, <1>2, <1>3 DEF CompilesNext, Compiled
<1>4. CASE m # module
  BY <1>4 DEF CompilesNext, Compiled
<1> QED BY <1>3, <1>4

\* A regex leaves what is to do only once its functions are there.
LEMMA CompiledStep == BuildInv /\ [Next]_vars /\ Unfailed' => CompiledInv'
<1> SUFFICES ASSUME BuildInv, [Next]_vars, Unfailed' PROVE CompiledInv'
  OBVIOUS
<1>1. commandLine' = commandLine /\ Unfailed
  BY Monotone DEF BuildInv, HeaderInv
<1>2. CompiledInv
  BY <1>1 DEF BuildInv
<1>3. ASSUME ~ReadFile,
             \A m, def : ToDo(m, def) => ToDo(m, def)' \/ Compiled(m, def)',
             \A m, def : Compiled(m, def) => Compiled(m, def)'
      PROVE  CompiledInv'
  <2>1. files' = files
    BY <1>3 DEF Next, ParseOption, EndOfOptions, NextModule, CompileRegex, EmitHeader,
                EmitCode, Link, Unlink, Finish, Ended, vars
  <2>2. FilesRead' = FilesRead
    BY <1>1, <2>1 DEF FilesRead
  <2> QED BY <1>1, <1>2, <1>3, <2>2 DEF CompiledInv
<1>4. CASE ReadFile
  <2>1. /\ FilesRead \in Nat
        /\ FilesRead' = FilesRead + 1
        /\ Head(files) = commandLine[FilesRead + 1]
    BY <1>4, ReadFileTakes DEF BuildInv, HeaderInv
  <2>2. /\ DOMAIN todo = {} /\ stage = "modules"
        /\ todo' = ModulesOf(Head(files)) /\ UNCHANGED modules
    BY <1>4 DEF ReadFile, Die, Unfailed
  <2>3. Range(defs) = {}
    BY <2>2 DEF BuildInv, HeaderInv, RunInv, Range
  <2>4. ASSUME NEW i \in 1 .. (FilesRead + 1), NEW m \in DOMAIN ModulesOf(commandLine[i]),
               NEW def \in Range(ModulesOf(commandLine[i])[m])
        PROVE  ToDo(m, def)' \/ Compiled(m, def)'
    <3>1. CASE i = FilesRead + 1
      BY <2>1, <2>2, <3>1 DEF ToDo
    <3>2. CASE i \in 1 .. FilesRead
      <4>1. Compiled(m, def)
        BY <1>2, <2>2, <2>3, <3>2 DEF CompiledInv, ToDo
      <4> QED BY <2>2, <4>1 DEF Compiled
    <3> QED BY <2>1, <3>1, <3>2
  <2> QED BY <1>1, <2>1, <2>4 DEF CompiledInv
<1>5. CASE NextModule
  <2>1. PICK n \in DOMAIN todo :
            module' = n /\ defs' = todo[n] /\ todo' = Without(todo, n)
    BY <1>5 DEF NextModule
  <2>2. stage = "modules" /\ UNCHANGED modules
    BY <1>5 DEF NextModule
  <2>3. Range(defs) = {}
    BY <2>2 DEF BuildInv, HeaderInv, RunInv, Range
  <2>4. \A m, def : ToDo(m, def) => ToDo(m, def)'
    BY <2>1, <2>3 DEF ToDo, Without
  <2>5. \A m, def : Compiled(m, def) => Compiled(m, def)'
    BY <2>2 DEF Compiled
  <2>6. ~ReadFile
    BY <2>2, <1>5 DEF NextModule, ReadFile
  <2> QED BY <1>3, <2>4, <2>5, <2>6
<1>6. CASE CompileRegex
  <2>1. defs # <<>> /\ CompilesNext
    <3>1. /\ defs # <<>> /\ \/ CompilesNext
                            \/ stage' = "ended" /\ exit' # "ok"
      BY <1>6, CompileRegexDoes DEF BuildInv
    <3>2. stage' = "ended" => exit' # "running"
      BY RunStep DEF BuildInv, HeaderInv, RunInv
    <3> QED BY <3>1, <3>2 DEF Unfailed
  <2>2. Range(defs) = {Head(defs)} \cup Range(Tail(defs))
    BY <2>1, TailRange DEF BuildInv, TodoInv
  <2>3. UNCHANGED <<todo, module>> /\ defs' = Tail(defs)
    BY <2>1 DEF CompilesNext
  <2>4. ASSUME NEW def, def = Head(defs) PROVE Compiled(module, def)'
    <3>1. PICK mod : Compiles(mod, modules'[module], def)
      BY <2>1, <2>4 DEF CompilesNext
    <3>2. /\ \A k \in def.kinds \cup {"get_pattern"} :
                <<def.label, k>> \in DOMAIN modules'[module].functions
          /\ GlobalName(def.label) \in DOMAIN modules'[module].globals
      BY <3>1 DEF Compiles
    <3>3. module \in DOMAIN modules'
      BY <2>1 DEF CompilesNext
    <3> QED BY <2>3, <3>2, <3>3 DEF Compiled
  <2>5. ASSUME NEW m, NEW def, ToDo(m, def) PROVE ToDo(m, def)' \/ Compiled(m, def)'
    <3>1. CASE m \in DOMAIN todo /\ def \in Range(todo[m])
      BY <2>3, <3>1 DEF ToDo
    <3>2. CASE m = module /\ def \in Range(Tail(defs))
      BY <2>3, <3>2 DEF ToDo
    <3>3. CASE m = module /\ def = Head(defs)
      BY <2>3, <2>4, <3>3 DEF Compiled
    <3> QED BY <2>2, <2>5, <3>1, <3>2, <3>3 DEF ToDo
  <2>6. \A m, def : Compiled(m, def) => Compiled(m, def)'
    BY <2>1, CompiledStays
  <2>7. ~ReadFile
    BY <1>6 DEF CompileRegex, ReadFile
  <2> QED BY <1>3, <2>5, <2>6, <2>7
<1>7. CASE ~ReadFile /\ ~NextModule /\ ~CompileRegex
  <2>1. UNCHANGED <<todo, module, defs, modules>>
    BY <1>7, OthersLeave
  <2>2. \A m, def : ToDo(m, def) => ToDo(m, def)'
    BY <2>1 DEF ToDo
  <2>3. \A m, def : Compiled(m, def) => Compiled(m, def)'
    BY <2>1 DEF Compiled
  <2> QED BY <1>3, <1>7, <2>2, <2>3
<1> QED BY <1>4, <1>5, <1>6, <1>7

\* The invariant of what is compiled holds of every run.
LEMMA BuildHolds == Spec => []BuildInv
<1>1. BuildInv /\ [Next]_vars => BuildInv'
  BY HeaderStep, TodoStep, CodeStep, CompiledStep DEF BuildInv
<1> QED BY <1>1, BuildInit, PTL DEF Spec

-----------------------------------------------------------------------------
(* What a run has built, and what stops one. *)

\* At the end each regex asked for has its functions in the module and the
\* module's artifact, the module is as it is there, and its code is its own.
LEMMA AskedIsBuilt ==
    ASSUME BuildInv, exit = "ok", Built, Intact, NEW a \in Asked
    PROVE  /\ Artifact(a[1]) \in DOMAIN disk
           /\ disk[Artifact(a[1])] = modules[a[1]]
           /\ Compiled(a[1], a[2])
           /\ IsOwn(a[1], modules[a[1]])
<1>1. Consistent(a[1])
  BY AskedIsConsistent DEF BuildInv
<1>2. /\ files = <<>> /\ DOMAIN todo = {} /\ Range(defs) = {} /\ CompiledInv
  BY DEF BuildInv, HeaderInv, RunInv, Unfailed, Built, Range
<1>3. DOMAIN commandLine = 1 .. FilesRead
  BY <1>2, AllRead DEF BuildInv, HeaderInv
<1>4. PICK i \in DOMAIN commandLine : \E m \in DOMAIN ModulesOf(commandLine[i]) :
          \E def \in Range(ModulesOf(commandLine[i])[m]) : a = <<m, def>>
  BY AskedIs
<1>5. PICK m \in DOMAIN ModulesOf(commandLine[i]) :
          \E def \in Range(ModulesOf(commandLine[i])[m]) : a = <<m, def>>
  BY <1>4
<1>6. PICK def \in Range(ModulesOf(commandLine[i])[m]) : a = <<m, def>>
  BY <1>5
<1>7. ToDo(m, def) \/ Compiled(m, def)
  BY <1>2, <1>3 DEF CompiledInv
<1>8. Compiled(a[1], a[2])
  BY <1>2, <1>6, <1>7 DEF ToDo
<1> QED BY <1>1, <1>8 DEF Consistent, BuildInv, CodeInv

\* aotrc_compiler.cc:52-164, main.cc:60-110.  Whatever the options, the files and
\* the modules they share: a run that exits with 0 has left the artifact of each
\* module with every matcher asked for, unless fork or addPassesToEmitFile failed,
\* and nothing else has failed unnoticed but the opening of headers.
THEOREM ReportedBuilt == Spec => []ReportedIsBuilt
<1>1. BuildInv => ReportedIsBuilt
  <2> SUFFICES ASSUME BuildInv PROVE ReportedIsBuilt
    OBVIOUS
  <2>1. Informs => disk = NoFiles
    BY DEF BuildInv, HeaderInv, ArgsInv
  <2>2. exit = "ok" => faults \subseteq {"fork", "header", "passes"}
    BY DEF BuildInv, HeaderInv, RunInv, Unfailed
  <2>3. ASSUME exit = "ok", Built, Intact, NEW a \in Asked
        PROVE  /\ Artifact(a[1]) \in DOMAIN disk
               /\ \A k \in a[2].kinds \cup {"get_pattern"} :
                      <<a[2].label, k>> \in DOMAIN disk[Artifact(a[1])].functions
    BY <2>3, AskedIsBuilt DEF Compiled
  <2> QED BY <2>1, <2>2, <2>3 DEF ReportedIsBuilt, Intact
<1> QED BY <1>1, BuildHolds, PTL

\* generatePatternFunc, getFunctionName.  Where no two labels of a module differ
\* in case only, every matcher is made from the pattern of its own label, and so
\* is the pattern its pattern function returns, whatever the order of modules.
THEOREM LabelsOwn == Spec => []EachLabelItsOwn
<1>1. BuildInv => EachLabelItsOwn
  <2> SUFFICES ASSUME BuildInv, exit = "ok", Built, faults = {}, LabelsApart,
                      NEW a \in Asked
               PROVE  LET mod == disk[Artifact(a[1])]
                      IN  /\ \A k \in a[2].kinds :
                                 mod.functions[<<a[2].label, k>>] = a[2].pattern
                          /\ TellsPattern(mod, a[2])
    BY DEF EachLabelItsOwn
  <2> DEFINE mod == modules[a[1]]
             g == GlobalName(a[2].label)
  <2>1. disk[Artifact(a[1])] = mod /\ Compiled(a[1], a[2]) /\ IsOwn(a[1], mod)
    BY AskedIsBuilt DEF Intact
  <2>2. /\ \A k \in a[2].kinds \cup {"get_pattern"} : <<a[2].label, k>> \in DOMAIN mod.functions
        /\ g \in DOMAIN mod.globals
    BY <2>1 DEF Compiled
  <2>3. OwnFunctions(a[1], mod.functions) /\ OwnGlobals(a[1], mod.globals)
    BY <2>1 DEF IsOwn
  <2>4. a[2].kinds \subseteq Kinds /\ "get_pattern" \notin Kinds
    BY AskedKinds DEF BuildInv, Kinds
  <2>5. ASSUME NEW b \in Asked, b[1] = a[1], Upper[b[2].label] = Upper[a[2].label]
        PROVE  b = a
    BY <2>5 DEF LabelsApart
  <2> HIDE DEF mod
  <2>6. ASSUME NEW k \in a[2].kinds
        PROVE  mod.functions[<<a[2].label, k>>] = a[2].pattern
    <3> DEFINE f == <<a[2].label, k>>
    <3>1. f \in DOMAIN mod.functions
      BY <2>2
    <3>2. PICK b \in Asked :
              /\ b[1] = a[1]
              /\ \/ \E j \in Kinds : f = <<b[2].label, j>> /\ mod.functions[f] = b[2].pattern
                 \/ f = <<b[2].label, "get_pattern">>
      BY <2>3, <3>1 DEF OwnFunctions
    <3>3. b[2].label = a[2].label /\ mod.functions[f] = b[2].pattern
      BY <2>4, <3>2
    <3>4. b = a
      BY <2>5, <3>2, <3>3
    <3> QED BY <3>3, <3>4
  <2>7. mod.functions[<<a[2].label, "get_pattern">>] = g
    <3> DEFINE f == <<a[2].label, "get_pattern">>
    <3>1. f \in DOMAIN mod.functions
      BY <2>2
    <3>2. PICK b \in Asked :
              /\ b[1] = a[1]
              /\ \/ \E j \in Kinds : f = <<b[2].label, j>>
                 \/ /\ f = <<b[2].label, "get_pattern">>
                    /\ mod.functions[f] = GlobalName(b[2].label)
      BY <2>3, <3>1 DEF OwnFunctions
    <3>3. b[2].label = a[2].label /\ mod.functions[f] = GlobalName(b[2].label)
      BY <2>4, <3>2
    <3> QED BY <3>3
  <2>8. mod.globals[g].pattern = a[2].pattern
    <3>1. PICK b \in Asked :
              /\ b[1] = a[1] /\ GlobalName(b[2].label) = g
              /\ mod.globals[g].pattern = b[2].pattern
      BY <2>2, <2>3 DEF OwnGlobals
    <3>2. b = a
      BY <2>5, <3>1 DEF GlobalName
    <3> QED BY <3>1, <3>2
  <2> QED BY <2>1, <2>6, <2>7, <2>8 DEF TellsPattern
<1> QED BY <1>1, BuildHolds, PTL

\* In a module of its own code an initializer has the wrong length only where two
\* labels are not apart.
LEMMA MisfitsNotApart ==
    ASSUME NEW m, NEW def, <<m, def>> \in Asked, def.kinds \subseteq Kinds,
           NEW mod, IsOwn(m, mod), GlobalMisfits(AddMatchers(mod, def), def)
    PROVE  ~LabelsApart
<1> DEFINE a == <<m, def>>
           g == GlobalName(def.label)
<1>1. a \in Asked /\ a[1] = m /\ a[2] = def
  OBVIOUS
<1>2. AddMatchers(mod, def).globals = mod.globals
  BY AddMatchersFacts DEF IsOwn, AddsMatchers
<1>3. g \in DOMAIN mod.globals /\ mod.globals[g].size # Length[def.pattern]
  BY <1>2 DEF GlobalMisfits
<1>4. PICK b \in Asked : /\ b[1] = m /\ GlobalName(b[2].label) = g
                         /\ mod.globals[g].size = Length[b[2].pattern]
  BY <1>3 DEF IsOwn, OwnGlobals
<1> HIDE DEF a
<1>5. b # a
  BY <1>1, <1>3, <1>4
<1>6. Upper[b[2].label] = Upper[a[2].label]
  BY <1>1, <1>4 DEF GlobalName
<1> QED BY <1>1, <1>4, <1>5, <1>6 DEF LabelsApart

\* The run of a program that has not ended has not failed.
LEMMA StopInit == Init => OnlyTheseStop
BY DEF Init, OnlyTheseStop

\* CompileRegex fails for one of the reasons named.
LEMMA CompileRegexStops ==
    ASSUME BuildInv, CompileRegex, exit' \in {"exception", "crash", "hung"}
    PROVE  \/ ~LabelsApart
           \/ \E a \in Asked : StopOf(a[2].pattern) # "none" \/ a[2].kinds = {}
<1> DEFINE def == Head(defs)
           a == <<module, def>>
           known == module \in DOMAIN modules
           mod == IF known THEN modules[module] ELSE NewModule
<1>1. a \in Asked /\ a[1] = module /\ a[2] = def
  BY CompileRegexDoes DEF BuildInv
<1>2. exit = "running"
  BY DEF BuildInv, HeaderInv, RunInv, CompileRegex
<1>3. \/ StopOf(def.pattern) # "none"
      \/ ~(known \/ MakesModule(def))
      \/ GlobalMisfits(AddMatchers(mod, def), def)
  BY <1>2 DEF CompileRegex
<1> HIDE DEF a, def
<1>4. CASE StopOf(def.pattern) # "none"
  BY <1>1, <1>4
<1>5. CASE ~(known \/ MakesModule(def))
  BY <1>1, <1>5 DEF MakesModule
<1>6. CASE GlobalMisfits(AddMatchers(mod, def), def)
  <2>1. IsOwn(module, mod)
    BY NewIsOwn DEF BuildInv, CodeInv
  <2>2. a[2].kinds \subseteq Kinds
    BY <1>1, AskedKinds DEF BuildInv
  <2>3. <<module, def>> \in Asked /\ def.kinds \subseteq Kinds
    BY <1>1, <2>2 DEF a
  <2> HIDE DEF mod
  <2> QED BY <1>6, <2>1, <2>3, MisfitsNotApart
<1> QED BY <1>3, <1>4, <1>5, <1>6

\* Every step that ends a run early does so for one of the reasons named.
LEMMA StopStep == BuildInv /\ OnlyTheseStop /\ [Next]_vars => OnlyTheseStop'
<1> DEFINE Reason(f) ==
        \/ f # {}
        \/ ~LabelsApart
        \/ \E a \in Asked : StopOf(a[2].pattern) # "none" \/ a[2].kinds = {}
        \/ \E i \in DOMAIN commandLine :
               \/ Malformed(commandLine[i])
               \/ <<>> \in Range(ModulesOf(commandLine[i]))
<1> SUFFICES ASSUME BuildInv, OnlyTheseStop, [Next]_vars PROVE OnlyTheseStop'
  OBVIOUS
<1>0. commandLine' = commandLine /\ Asked' = Asked /\ LabelsApart' = LabelsApart
  <2>1. commandLine' = commandLine /\ Asked' = Asked
    BY Monotone DEF BuildInv, HeaderInv
  <2> QED BY <2>1 DEF LabelsApart
<1> SUFFICES ASSUME exit' \in {"exception", "crash", "hung"} PROVE Reason(faults')
  BY <1>0 DEF OnlyTheseStop
<1>1. faults \subseteq faults'
  BY Monotone DEF BuildInv, HeaderInv
<1>2. CASE exit' = exit
  <2>1. Reason(faults)
    BY <1>2 DEF OnlyTheseStop
  <2> QED BY <1>1, <2>1
<1>3. CASE ReadFile /\ exit' # exit
  <2>1. /\ FilesRead + 1 \in DOMAIN commandLine
        /\ Head(files) = commandLine[FilesRead + 1]
    BY <1>3, ReadFileTakes DEF BuildInv, HeaderInv
  <2>2. Malformed(Head(files)) \/ faults' # {}
    BY <1>3 DEF ReadFile, Fault
  <2> QED BY <2>1, <2>2
<1>4. CASE CompileRegex
  BY <1>4, CompileRegexStops
<1>5. CASE EmitHeader /\ exit' # exit
  <2>1. module \notin DOMAIN modules /\ stage = "regexes" /\ defs = <<>>
    BY <1>5 DEF EmitHeader
  <2> QED BY <2>1 DEF BuildInv, TodoInv
<1>6. CASE (EndOfOptions \/ EmitCode \/ Link \/ Unlink) /\ exit' # exit
  BY <1>6 DEF EndOfOptions, EmitCode, Link, LinkFailed, Unlink, Fault, Die
<1>7. CASE Finish
  BY <1>7 DEF Finish
<1>8. CASE ParseOption \/ NextModule \/ Ended \/ UNCHANGED vars
  <2>1. exit' = exit
    BY <1>8 DEF ParseOption, NextModule, Ended, vars
  <2> QED BY <1>2, <2>1
<1> QED BY <1>2, <1>3, <1>4, <1>5, <1>6, <1>7, <1>8 DEF Next

\* main.cc:44-110, aotrc_compiler.cc:12-181.  A run ends otherwise than with 0, or
\* hangs, only for a fault, a malformed entry, a pattern that does not parse or of
\* which no DFA can be made, labels that are not apart, a module without regexes
\* or a regex with every option off.
THEOREM NothingElseStops == Spec => []OnlyTheseStop
BY StopInit, StopStep, BuildInit, BuildHolds, PTL DEF Spec

=============================================================================
