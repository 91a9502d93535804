SPECIFICATION Spec
CONSTANTS
    Tests = {a1, a2}
    Sections = 2
    Objective = {1}
    Clients = {c1, c2}
    Workers = {w1}
    MaxAttempts = 2
    MaxJobs = 1
    CanFail <- Anything
    CanLose <- Anything
    CanStop = TRUE
    CanCrash = TRUE
    Refused = {"read", "save", "score", "finalize", "mark"}
    None = None
    a1 = a1
    a2 = a2
    c1 = c1
    c2 = c2
    w1 = w1
    w2 = w2
INVARIANT ResultIsWhole
PROPERTY TestLifeSpec
CHECK_DEADLOCK FALSE
