\* One transaction, three attempts to pay it (one of them for another amount), two
\* callbacks at once.  Every statement may fail and every process may die, except
\* that Activate's commit and the statement after it report truly (LinkReports).
SPECIFICATION Spec
CONSTANTS
    u1 = u1
    p1 = p1
    p2 = p2
    t1 = t1
    t2 = t2
    k1 = k1
    k2 = k2
    k3 = k3
    h1 = h1
    h2 = h2
    Users = {u1}
    Plans = {p1}
    Txs = {t1}
    Trans = {k1, k2, k3}
    Handlers = {h1, h2}
    Period <- Monthly
    DefaultPlan = None
    None = None
    MaxTime = 1
    CanFail = {"load", "cancel", "prepare", "claim", "interval", "snap", "write", "unclaim"}
    CanLose = {"prepare", "claim", "unclaim", "reply"}
    CanCrash = TRUE
    Patient = FALSE
    Misquoted = {k3}
SYMMETRY Interchangeable
CHECK_DEADLOCK FALSE
INVARIANTS SoleSettler OneGrantPerPayment CanceledNeverGranted
PROPERTIES PaidAccessSpec
