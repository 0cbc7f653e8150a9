CONSTANTS
    Char <- MCChar
    Skipped = {"x"}
    Nfas <- MCNfas
    Subjects <- MCSubjects
    N = 4
    MaxEdges = 4
    MaxLen = 2
SPECIFICATION Spec
INVARIANTS
    TranslationsExact
    AcceptExact
    EdgesExact
    DfaUsable
    LiveNfaLiveDfa
    LanguagePreserved
PROPERTIES
    Terminates
