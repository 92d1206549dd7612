SPECIFICATION Spec
CONSTANTS
    Task = {a, b, c}
    NumberTasks = 2
    Rehashing = {a}
    MaxHashes = 1
    CmdCap = 3
    PipeCap = 1
    MayDie = {}
INVARIANTS
    EndsWhenTold
