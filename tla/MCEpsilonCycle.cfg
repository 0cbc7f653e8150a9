CONSTANTS
    Char <- MCChar
    Skipped = {}
    Nfas <- MCStarOfStar
    N = 4
SPECIFICATION Spec
PROPERTIES
    EveryCallReturns
