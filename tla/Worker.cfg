SPECIFICATION FairSpec
CONSTANTS
    Task = {a, b}
    NumberTasks = 2
    Rehashing = {a}
    MaxHashes = 1
    CmdCap = 2
    PipeCap = 1
    MayDie = {"cooker", "worker"}
INVARIANTS
    WorkerSafety
    HashesCurrent
    ChildrenKnown
PROPERTIES
    ImplementsTaskService
    EndIsReported
    NobodyBlocks
