SPECIFICATION FairSpec
CONSTANTS
    Checksums = {k1, k2}
    Imports = {1}
    NoRow = NoRow
    MaxValue = 2
    MaxQueue = 2
    MayDie = TRUE
INVARIANTS
    PRSafety
    AnswersCommitted
PROPERTIES
    QuitEnds
