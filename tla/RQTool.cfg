SPECIFICATION Spec
CONSTANTS
    NoTask = NoTask
    Tasks <- ToolTasks
    Depends <- ToolDepends
    Setscene <- ToolSetscene
    SetsceneDepends <- ToolSceneDeps
    Targets = {"img"}
    Hashes <- Hashes2
    InitHash <- ToolHash
    Pn <- ToolFile
    File <- ToolFile
    StampBase <- SameAsTask
    NoExec = {"img"}
    Enforce = FALSE
    Whitelisted = {}
    OldStamps <- ToolOld
    TaskName <- ToolName
    NumberThreads <- NoLimits
    NumberTasks = 2
    Abort = FALSE
    Forced = FALSE
    SkipSetscene = FALSE
    SetsceneOnly = FALSE
    Pressure = FALSE
    Rehashing = {"p1", "tool"}
    MayStop = TRUE
    WorkerMayDie = FALSE
    DiskMonitor = TRUE
    MaxUnderflow = 2
INVARIANTS
    OrderSafety
    DecidedOnce
    InputsAvailable
    FailedHasReason
    NothingLeftBehind
    BuildsWhatItCan
PROPERTIES
    ImplementsTaskOrder
