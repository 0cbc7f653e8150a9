CONSTANTS
    Char <- MCChar
    Skipped <- MCSkipped
    Atoms <- MCAtoms
    MaxLen = 3
    MaxTokens = 5
    Counts = {0, 2}
    MaxCompiled = 4
    Subjects <- MCSubjects
    SizeMod = 5
SPECIFICATION PipelineSpec
INVARIANTS
    ShapeKept
    LanguageExact
    NoDeadEnd
    CycleOnlyFromStar
    FullMatchMeansPattern
    SpanMeansPattern
PROPERTIES
    CallReturns
