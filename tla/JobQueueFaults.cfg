SPECIFICATION Spec
CONSTANTS
    Jobs = {j1, j2}
    Workers = {w1, w2}
    MaxAttempts = 2
    Unknown = {j2}
    Total = 2
    Lanes = 2
    CanFail <- Everything
    CanLose <- Everything
    CanStop = TRUE
    CanCrash = TRUE
    None = None
    j1 = j1
    j2 = j2
    w1 = w1
    w2 = w2
INVARIANT KeptOnce
INVARIANT OneWorkerPerJob
INVARIANT RunsBounded
PROPERTY JobLifeSpec
