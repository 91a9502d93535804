SPECIFICATION Spec
CONSTANTS
    Nothing = Nothing
    None = None
    i1 = i1
    i2 = i2
    t1 = t1
    t2 = t2
    r1 = r1
    r2 = r2
    k1 = k1
    k2 = k2
    c1 = c1
    c2 = c2
    w1 = w1
    w2 = w2
    a1 = a1
    a2 = a2
    q1 = q1
    q2 = q2
    p1 = p1
    p2 = p2
    win1 = win1
    win2 = win2
    tab1 = tab1
    tab2 = tab2
    Items = {i1, i2}
    MaxEdits = 2
    MaxBreaks = 1
    Length = 2
    MaxChecks = 3
    Calls = {1, 2}
    MaxCuts = 1
    Sockets = {1, 2}
    MaxTurns = 2
    MaxUpsets = 1
    MaxVersions = 2
    MaxRows = 2
    MaxTouches = 1
    MaxCalls = 2
    MaxMishaps = 1
    Terms = {t1, t2}
    Parts = {"noun"}
    FirstPart = "noun"
    Stocks <- OneEntryOrNone
    MaxKeys = 2
    MaxSuggests = 2
    MaxSlips = 1
    Records = {r1, r2}
    Fields = {"a", "b"}
    MaxTexts = 1
    MaxPosts = 2
    MaxLosses = 1
    Tasks = {k1, k2}
    MaxWorks = 2
    MaxSubmits = 2
    MaxHitches = 1
    Searches = {"", "w"}
    Choices = {c1, c2}
    MaxLeaves = 2
    MaxLooks = 2
    MaxSnags = 1
    Words = {w1, w2}
    Limit = 1
    MaxMarks = 2
    MaxStarts = 2
    MaxFaults = 1
    Askers = {a1, a2}
    Topics = {q1, q2}
    Allowance = 1
    MaxAsks = 3
    MaxFlops = 1
    MaxSays = 3
    MaxDrops = 1
    Levels = {"A2", "B1"}
    FirstLevel = "A2"
    Prompts = {1}
    Minutes = 2
    Track = 1
    MaxNow = 4
    Papers = {p1, p2}
    Quota = 2
    MaxSittings = 2
    MaxOrders = 3
    MaxHands = 2
    MaxBlows = 1
    Windows = {win1, win2}
    Cooldown = 1
    Lifetime = 2
    MaxWrong = 1
    Sends = 2
    MaxCodes = 2
    MaxTries = 2
    MaxMisses = 1
    MaxAttempts = 2
    MaxTakes = 2
    MaxUploads = 3
    MaxTrips = 1
    MaxTalkTurns = 2
    MaxTalks = 2
    MaxBlips = 1
    MaxPresses = 3
    MaxMisfires = 1
    MaxQuestions = 2
    MaxOptions = 3
    MaxStrokes = 2
    MaxRequests = 2
    MaxFailures = 1
    Tabs = {tab1, tab2}
    Slots = {1, 2}
    MaxTokens = 3
    MaxTroubles = 1
INVARIANTS  FeedbackIsTrue TurnsAreKept  RowsAreTheAnswer MarksCountInOrder 
INVARIANTS QuietMeansShown BandsAreFinal CodesCountOnce RecordingsAreKept SavedIsTheTalk StepIsTheServers
INVARIANTS SessionsEndForACause TokensEnd
PROPERTIES  HandEditsSurvive OwnFieldsSpared 
 
CHECK_DEADLOCK FALSE
