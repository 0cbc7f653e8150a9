---------------------------- MODULE MCEdgeRanges ----------------------------
(***************************************************************************)
(* Instances of EdgeRanges for TLC: every class of a few ranges over chars *)
(* of both signs, those with reversed bounds included.                     *)
(***************************************************************************)
EXTENDS EdgeRanges

MCClasses == [lo : MinChar .. MaxChar, hi : MinChar .. MaxChar]

=============================================================================
