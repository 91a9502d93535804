\* A learner pays again after the month has run out.
SPECIFICATION Spec
CONSTANTS
    u1 = u1
    p1 = p1
    p2 = p2
    t1 = t1
    t2 = t2
    k1 = k1
    k2 = k2
    k3 = k3
    h1 = h1
    h2 = h2
    Users = {u1}
    Plans = {p1}
    Txs = {t1, t2}
    Trans = {k1, k2}
    Handlers = {h1}
    Period <- Monthly
    DefaultPlan = p1
    None = None
    MaxTime = 3
    CanFail = {}
    CanLose = {}
    CanCrash = FALSE
    Patient = FALSE
    Misquoted = {}
CHECK_DEADLOCK FALSE
PROPERTIES RefusedOnlyIfRunning
