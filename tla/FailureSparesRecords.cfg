CONSTANTS
    Accounts = {a1}
    Cases = {c1}
    Contents = {scan}
    Unreadable = {}
    Scanned = {scan}
    Requests = {r1}
    None = None
    MaxFaults = 1
SPECIFICATION Spec
INVARIANTS FailureSparesRecords
CHECK_DEADLOCK FALSE
