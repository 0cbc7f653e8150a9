CONSTANTS
    Char <- MCChar
    Machines <- HalfDead
    Subjects <- MCSubjects
    SizeMod = 8
    MaxStates = 1
    MaxLen = 3
SPECIFICATION Spec
INVARIANT SpanWithinSubject
