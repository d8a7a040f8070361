CONSTANTS
    Requests = {r1, r2, r3}
    Accounts = {a1}
    Credentials = {k1}
    Counting = {k1}
    None = None
    MaxChallenges = 2
    MaxPasskeys = 1
    MaxCount = 1
SYMMETRY Interchangeable
SPECIFICATION Spec
INVARIANTS ResponseGrantsOnce
CHECK_DEADLOCK FALSE
