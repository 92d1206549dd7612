SPECIFICATION Spec
CONSTANTS
    NoTask = NoTask
    Tasks <- TwinTasks
    Depends <- TwinDepends
    Setscene <- TwinSetscene
    SetsceneDepends <- NoSceneDeps
    Targets = {"img"}
    Hashes <- Hashes2
    InitHash <- TwinHash
    Pn <- TwinPn
    File <- TwinFile
    StampBase <- SameAsTask
    NoExec = {}
    Enforce = FALSE
    Whitelisted = {}
    OldStamps <- NoStamps
    TaskName <- TwinName
    NumberThreads <- NoLimits
    NumberTasks = 2
    Abort = TRUE
    Forced = FALSE
    SkipSetscene = FALSE
    SetsceneOnly = FALSE
    Pressure = FALSE
    Rehashing = {}
    MayStop = FALSE
    WorkerMayDie = FALSE
    DiskMonitor = FALSE
    MaxUnderflow = 2
INVARIANTS
    DecidedOnce
