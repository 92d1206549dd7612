SPECIFICATION FairSpec
CONSTANTS
    N = 2
    Files = 3
    Capacity = 2
    MayDie = {0, 1}
INVARIANTS
    ParsingSafety
    CleanEnd
PROPERTIES
    ParsingEnds
    ShutdownEnds
