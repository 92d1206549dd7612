SPECIFICATION FairSpec
CONSTANTS
    NoTask = NoTask
    Tasks <- TwinTasks
    Depends <- TwinDepends
    Setscene <- TwinSetscene
    SetsceneDepends <- NoSceneDeps
    Targets = {"img"}
    Hashes <- Hashes2
    InitHash <- TwinHash
    Pn <- TwinPn
    File <- TwinFile
    StampBase <- TwinBase
    NoExec = {}
    Enforce = FALSE
    Whitelisted = {}
    OldStamps <- NoStamps
    TaskName <- TwinName
    NumberThreads <- NoLimits
    NumberTasks = 2
    Abort = FALSE
    Forced = FALSE
    SkipSetscene = FALSE
    SetsceneOnly = FALSE
    Pressure = FALSE
    Rehashing = {"p", "pm"}
    MayStop = FALSE
    WorkerMayDie = FALSE
    DiskMonitor = FALSE
    MaxUnderflow = 2
INVARIANTS
    OneAtATime
    DistinctStamps
PROPERTIES
    Ends
