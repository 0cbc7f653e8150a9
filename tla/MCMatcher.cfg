CONSTANTS
    Char <- MCChar
    Machines <- CheckedMachines
    Subjects <- MCSubjects
    SizeMod = 8
    MaxStates = 2
    MaxLen = 4
SPECIFICATION Spec
INVARIANTS
    TypeOK
    FullMatchExact
    AcceptJustified
    SpanIsLongestMatch
    PrefixNeverMissed
PROPERTIES
    AbandonedStartHasNoMatch
    Terminates
    ImplementsContract
