------------------------- MODULE MCCompiledPattern -------------------------
(***************************************************************************)
(* Instances of CompiledPattern, and with it of PatternParser, for TLC.    *)
(***************************************************************************)
EXTENDS CompiledPattern

\* Two letters and a byte above 127, which languageChars does not list.
MCChar == {"a", "b", "e-acute"}
MCSkipped == {"e-acute"}

\* A letter, a class of every character, the byte, and a reversed class.
MCAtoms == {{"a"}, MCChar, {"e-acute"}, {}}

\* As long as the words the meaning of a pattern is known for.
MCSubjects == UNION {[1 .. l -> MCChar] : l \in 0 .. MaxLen}

=============================================================================
