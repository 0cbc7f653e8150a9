---------------------------- MODULE MCHirMachine ----------------------------
(***************************************************************************)
(* Instances of HirMachine for TLC: the programs of every machine of at    *)
(* most two states over two characters, up to a renaming of the            *)
(* characters, with every order of their edges.                            *)
(***************************************************************************)
EXTENDS HirMachine

CONSTANTS
    MaxStates,      \* machines have at most this many states
    MaxLen          \* subjects have at most this many characters

MCChar == {"a", "b"}

MCSubjects == UNION {[1 .. l -> MCChar] : l \in 0 .. MaxLen}

Machine(n, delta, accept) ==
    [n      |-> n,
     edges  |-> [s \in 0 .. (n - 1) |-> [t \in 0 .. (n - 1) |->
                    {c \in MCChar : delta[s, c] = t}]],
     accept |-> accept]

\* In a machine of two states the second is reached from the first, over "b":
\* a machine where only "a" leads there is another one with the two renamed.
MCMachines ==
    UNION {{Machine(n, delta, accept) :
                delta \in {d \in [(0 .. (n - 1)) \X MCChar -> -1 .. (n - 1)] :
                               n > 1 => d[0, "b"] = 1},
                accept \in SUBSET (0 .. (n - 1))} : n \in 1 .. MaxStates}

=============================================================================
