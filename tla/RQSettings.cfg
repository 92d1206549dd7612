SPECIFICATION FairSpec
CONSTANTS
    NoTask = NoTask
    Tasks <- ToolTasks
    Depends <- ToolDepends
    Setscene <- ToolSetscene
    SetsceneDepends <- ToolSceneDeps
    Targets = {"p1", "img"}
    Hashes <- Hashes2
    InitHash <- ToolHash
    Pn <- ToolFile
    File <- ToolFile
    StampBase <- SameAsTask
    NoExec = {}
    Enforce = TRUE
    Whitelisted = {"tool", "c1", "p1", "c2", "p2"}
    OldStamps <- ForcedOld
    TaskName <- ToolName
    NumberThreads <- NoLimits
    NumberTasks = 1
    Abort = TRUE
    Forced = TRUE
    SkipSetscene = FALSE
    SetsceneOnly = FALSE
    Pressure = TRUE
    Rehashing = {}
    MayStop = TRUE
    WorkerMayDie = TRUE
    DiskMonitor = TRUE
    MaxUnderflow = 2
INVARIANTS
    ThreadLimit
    ForcedTargetsRun
PROPERTIES
    Ends
