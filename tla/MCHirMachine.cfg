CONSTANTS
    Char <- MCChar
    Machines <- MCMachines
    Subjects <- MCSubjects
    SizeMod = 5
    MaxStates = 2
    MaxLen = 2
SPECIFICATION Spec
INVARIANTS
    VerifierAccepts
    Translates
    CursorIsCurrent
PROPERTIES
    ImplementsMatcher
