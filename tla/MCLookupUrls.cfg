SPECIFICATION Spec
CONSTANTS
    c1 = c1
    c2 = c2
    u = u
    v = v
    host = host
    dom = dom
    anon = anon
    key = key
    Calls = {c1, c2}
    Targets = {u, v}
    Types = {host}
    TypesOf <- MCUrlTypesOf
    Sections = {"general"}
    General = "general"
    HasSection = {}
    Fold <- MCUrlFold
    Accounts = {anon}
    AuthScope <- MCAuthScope
    Jobs <- MCUrlJobs
    Codes = {"upstream"}
    NoError = "none"
    None = None
    MaxCount = 1
    HeldFirst <- MCUrlHeldFirst
    MaxChanges = 0
    TTL = 0
    Timeout = 1
    Horizon = 2
INVARIANTS
    AnswerIsOwn
SYMMETRY Symmetry
CHECK_DEADLOCK FALSE
