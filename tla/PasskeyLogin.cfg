CONSTANTS
    Requests = {r1, r2, r3}
    Accounts = {a1}
    Credentials = {k1}
    Counting = {k1}
    None = None
    MaxChallenges = 3
    MaxPasskeys = 2
    MaxCount = 2
SYMMETRY Interchangeable
SPECIFICATION Spec
INVARIANTS
    TypeOK
    SpentChallengeGone
    SignInOnRecord
    ReplayExplained
CHECK_DEADLOCK FALSE
