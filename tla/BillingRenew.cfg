\* Two payments of one learner, for the same plan or for another, at different
\* times; the plan of the first may be withdrawn meanwhile.  Nothing fails, and Click
\* waits for an answer before it asks again.
SPECIFICATION FairSpec
CONSTANTS
    u1 = u1
    p1 = p1
    p2 = p2
    t1 = t1
    t2 = t2
    k1 = k1
    k2 = k2
    k3 = k3
    h1 = h1
    h2 = h2
    Users = {u1}
    Plans = {p1, p2}
    Txs = {t1, t2}
    Trans = {k1, k2}
    Handlers = {h1, h2}
    Period <- MonthlyAndLifetime
    DefaultPlan = p2
    None = None
    MaxTime = 2
    CanFail = {}
    CanLose = {}
    CanCrash = FALSE
    Patient = TRUE
    Misquoted = {}
CHECK_DEADLOCK FALSE
INVARIANTS PaidIsServed ConfirmedIsServed
PROPERTIES RenewalKeepsPaidTime ChargedIsDecided
