CONSTANTS
    Char <- MCChar
    Skipped = {}
    Nfas <- MCNfas
    N = 4
SPECIFICATION Spec
INVARIANTS
    OnlyReachable
    ClosureExact
PROPERTIES
    ReturnsIfAcyclic
