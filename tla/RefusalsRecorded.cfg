CONSTANTS
    Accounts = {a1}
    NoUser = NoUser
    MfaAccounts = {}
    Requests = {r1}
    AccessTTL = 1
    RefreshTTL = 1
    ChallengeTTL = 1
    LoginWindow = 1
    MaxFailedLogins = 1
    Refusable = {}
    MaxSessions = 1
    MaxTokens = 2
    MaxTime = 0
SPECIFICATION Spec
PROPERTIES RefusalsRecorded
CHECK_DEADLOCK FALSE
