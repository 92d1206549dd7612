SPECIFICATION Spec
CONSTANTS
    b1 = b1
    b2 = b2
    h1 = h1
    h2 = h2
    h3 = h3
    o1 = o1
    o2 = o2
    Builder = {b1, b2}
    Taskhash = {h1, h2, h3}
    Outhash = {o1, o2}
    Outputs <- AnyOutput
    NoOutput = NoOutput
    None = None
    NoAnswer = NoAnswer
    Idle = Idle
    Tries = 2
    MaxBuilds = 2
    MaxClock = 1
    MaxStray = 1
    SetBack = FALSE
SYMMETRY Sym
INVARIANTS
    HashSafety
    UnwantedOnlyAfterFallback
PROPERTIES
    ImplementsUnihashMap
\* Every builder has a bounded number of builds.
CHECK_DEADLOCK FALSE
