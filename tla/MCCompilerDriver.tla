-------------------------- MODULE MCCompilerDriver --------------------------
(***************************************************************************)
(* Instances of CompilerDriver for TLC: modules m and n, labels that       *)
(* differ or differ in case only, patterns of two lengths, of which one    *)
(* does not parse, one has no states and one an epsilon cycle.             *)
(***************************************************************************)
EXTENDS CompilerDriver

MCUpper == [l \in {"a", "A", "b"} |-> IF l = "b" THEN "B" ELSE "A"]
MCLength == [p \in {"p", "q", "rr", "bad", "none", "loop"} |-> IF p \in {"p", "q"} THEN 1 ELSE 2]

\* The options of a regex given as a string, which are none.
Plain == [k \in {} |-> TRUE]
Def(l, p, o) == [label |-> l, form |-> "regex", pattern |-> p, options |-> o]
Not(l, f) == [label |-> l, form |-> f, pattern |-> "p", options |-> Plain]
One(m, seq) == [x \in {m} |-> seq]

Given(on, off) == [k \in on \cup off |-> k \in on]
Ways == {Plain, Given({"sub_match", "search"}, {"full_match"})}

\* One regex, or two with different labels.
Singles == {<<Def(l, p, k)>> : l \in {"a", "b"}, p \in {"p", "rr"}, k \in Ways}
Pairs ==
    {<<Def("a", p, k), Def("b", q, j)>> : p \in {"p"}, q \in {"rr", "bad", "none", "loop"}, k, j \in Ways}

\* Labels that differ in case, with patterns of one length or of two.
Case == {<<Def("a", "p", k), Def("A", q, k)>> : k \in Ways, q \in {"q", "rr"}}

\* A regex with every option off, first or second; a module without regexes; an
\* entry that is a list, or that has no pattern.
Off == Given({}, {"full_match"})
Odd ==
    {<<Def("b", "p", Plain), Def("a", "q", Off)>>,
     <<Def("a", "p", Off), Def("b", "q", Plain)>>,
     <<>>,
     <<Not("a", "other")>>,
     <<Not("a", "other"), Def("b", "p", Given({"search"}, {}))>>,
     <<Def("b", "p", Plain), Not("a", "malformed")>>}

\* One file of one or two modules.
OneFile ==
    {<<One("m", s)>> : s \in Pairs \cup Singles \cup Case \cup Odd}
        \cup {<<[x \in {"m", "n"} |-> IF x = "m" THEN s ELSE t]>> : s, t \in Singles}

\* Two documents that may share a module, in one file or in two.
TwoDocuments ==
    {<<One("m", <<Def("a", "p", k)>>), One(m, <<Def("b", q, j)>>)>> :
        k, j \in Ways, q \in {"q", "rr"}, m \in {"m", "n"}}

MCCommandLines ==
    {<<f>> : f \in OneFile \cup TwoDocuments}
        \cup {<<<<d[1]>>, <<d[2]>>>> : d \in TwoDocuments}

Option(name) == [opt |-> name, arg |-> "none"]
Type(name) == [opt |-> "output-type", arg |-> name]

\* No option and one, one given twice, and others between that change nothing or
\* everything.
MCOptionLists ==
    {<<>>, <<Type("ir")>>, <<Type("asm"), Type("hir")>>, <<Type("shared"), Type("asm")>>,
     <<Type("static"), Type("unknown")>>, <<Option("unknown"), Type("shared")>>,
     <<Option("build-shared"), Type("obj"), Option("linker-path")>>,
     <<Option("version"), Type("shared")>>, <<Type("asm"), Option("help")>>}

=============================================================================
