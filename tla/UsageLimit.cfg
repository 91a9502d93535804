\* The AI fails, plans of every limit and of two window lengths replace each other,
\* the clock moves and the learner hangs up on a refund of its own context.
SPECIFICATION Spec
CONSTANTS
    compare = compare
    coach = coach
    speaking = speaking
    free = free
    basic = basic
    pro = pro
    most = most
    gone = gone
    Requests = {compare, coach, speaking}
    Plans = {free, basic, pro, most, gone}
    Unlimited = Unlimited
    Absent = Absent
    None = None
    Detached = {compare}
    CanFail = {"read", "charge", "ai", "refund"}
    CanHang = {compare}
    MaxTime = 1
    Limits <- LimitsOf
    Spans <- SpansOf
    Scripts <- ScriptsOf
INVARIANTS ServedWithinLimit ChargedIsAnswered
CHECK_DEADLOCK FALSE
