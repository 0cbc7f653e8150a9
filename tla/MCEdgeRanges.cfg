CONSTANTS
    NegativeChars = 1
    MaxChar = 4
    Classes <- MCClasses
    MaxAdds = 3
SPECIFICATION Spec
INVARIANTS
    CharsKept
    Minimal
    ComplementExact
    AlphabetExact
    GeneratedTestExact
PROPERTIES
    Terminates
