SPECIFICATION CliFairSpec
CONSTANTS
    u = u
    v = v
    host = host
    dom = dom
    anon = anon
    Calls = {1, 2}
    Last = 2
    BadRequest = "bad_request"
    Targets = {u, v}
    Types = {host, dom}
    TypesOf <- MCTypesOf
    Sections = {"general", "whois"}
    General = "general"
    HasSection <- MCHasSection
    Fold <- MCFold
    Accounts = {anon}
    AuthScope <- MCAuthScope
    Jobs <- MCJobs
    Codes = {"bad_request", "upstream"}
    NoError = "none"
    None = None
    MaxCount = 1
    HeldFirst <- MCHeldFirst
    MaxChanges = 1
    TTL = 0
    Timeout = 0
    Horizon = 1
INVARIANTS
    SectionsAreTrue
    SectionsAccounted
    ExitOkIsVerified
    ExitCodeTells
PROPERTIES
    RunEnds
CHECK_DEADLOCK FALSE
