SPECIFICATION Spec
CONSTANTS
    Texts = {"key"}
    Ints = {"limit", "max_per_hour"}
    Times = {"timeout"}
    ApiKey = "key"
    SdkKey = "sdk_key"
    Limit = "limit"
    Timeout = "timeout"
    MaxPerHour = "max_per_hour"
    Section <- MCSection
    Sections = {"api", "query", "network", "ratelimit"}
    Words <- MCWords
    Lines <- MCLines
    MaxLines = 3
    Environments <- MCEnvironments
    TimeoutFlags <- MCTimeoutFlags
    Default <- MCDefault
    AnonymousCeiling = 2
    KeyedCeiling = 4
    Fraction = 10
    MaxDuration = 7
    Statuses = {0, 200, 400, 401, 403, 404, 429, 500}
    Bad = Bad
    NaN = NaN
    None = None
INVARIANTS
    SettingsAreAsWritten
    ConfigIsUsable
    AuthIsTrue
CHECK_DEADLOCK FALSE
