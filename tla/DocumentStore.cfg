CONSTANTS
    Accounts = {a1, a2}
    Cases = {c1, c2}
    Contents = {scan, junk}
    Unreadable = {junk}
    Scanned = {scan}
    Requests = {r1, r2, r3}
    None = None
    MaxFaults = 1
SYMMETRY Interchangeable
SPECIFICATION Spec
INVARIANTS
    TypeOK
    BytesOnRecord
    JobWithDocument
    TrailMatches
    LeftoversExplained
PROPERTIES
    ImplementsCatalogue
CHECK_DEADLOCK FALSE
