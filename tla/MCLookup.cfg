SPECIFICATION Spec
CONSTANTS
    c1 = c1
    c2 = c2
    u = u
    v = v
    host = host
    dom = dom
    anon = anon
    key = key
    Calls = {c1, c2}
    Targets = {u}
    Types = {host, dom}
    TypesOf <- MCTypesOf
    Sections = {"general"}
    General = "general"
    HasSection = {}
    Fold <- MCFold
    Accounts = {anon, key}
    AuthScope <- MCAuthScope
    Jobs <- MCJobs
    Codes = {"upstream"}
    NoError = "none"
    None = None
    MaxCount = 1
    HeldFirst <- MCHeldFirst
    MaxChanges = 1
    TTL = 0
    Timeout = 1
    Horizon = 2
INVARIANTS
    CacheIsTrue
    AnswerIsTrue
    UncachedIsCurrent
    CleanIsTrue
    FailureIsNamed
SYMMETRY Symmetry
CHECK_DEADLOCK FALSE
