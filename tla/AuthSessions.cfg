CONSTANTS
    Accounts = {a1}
    NoUser = NoUser
    MfaAccounts = {a1}
    Requests = {r1, r2}
    AccessTTL = 1
    RefreshTTL = 1
    ChallengeTTL = 1
    LoginWindow = 1
    MaxFailedLogins = 1
    Refusable = {a1}
    MaxSessions = 2
    MaxTokens = 3
    MaxTime = 1
SPECIFICATION FairSpec
INVARIANTS
    TypeOK
    CurrentNeverUsed
    TokensAccounted
    CascadeComplete
PROPERTIES
    NeverResurrected
    ImplementsLedger
    EveryRequestEnds
CHECK_DEADLOCK FALSE
