SPECIFICATION FairSpec
CONSTANTS
    Tests = {a1}
    Sections = 3
    Objective = {1}
    Clients = {c1}
    Workers = {w1, w2}
    MaxAttempts = 2
    MaxJobs = 2
    CanFail = {"enqueue"}
    CanLose = {}
    CanStop = FALSE
    CanCrash = FALSE
    Refused = {"read", "save", "score"}
    None = None
    a1 = a1
    a2 = a2
    c1 = c1
    c2 = c2
    w1 = w1
    w2 = w2
INVARIANT WaitingIsAttended
 
PROPERTY SubmittedIsDecided
CHECK_DEADLOCK FALSE
