SPECIFICATION Spec
CONSTANTS
    NoTask = NoTask
    Tasks <- LateTasks
    Depends <- LateDepends
    Setscene <- LateSetscene
    SetsceneDepends <- NoSceneDeps
    Targets = {"r", "c", "x"}
    Hashes <- Hashes2
    InitHash <- LateHash
    Pn <- LateFile
    File <- LateFile
    StampBase <- SameAsTask
    NoExec = {}
    Enforce = FALSE
    Whitelisted = {}
    OldStamps <- NoStamps
    TaskName <- LateName
    NumberThreads <- NoLimits
    NumberTasks = 3
    Abort = TRUE
    Forced = FALSE
    SkipSetscene = FALSE
    SetsceneOnly = FALSE
    Pressure = FALSE
    Rehashing = {"x"}
    MayStop = FALSE
    WorkerMayDie = TRUE
    DiskMonitor = FALSE
    MaxUnderflow = 2
INVARIANTS
    Isolation
    CompleteMeansBuilt
    DecisionsStand
