CONSTANTS
    a1 = a1
    c1 = c1
    d1 = d1
    Accounts = {a1}
    Cases = {c1}
    Documents = {d1}
    Owner <- OneOwner
    CaseOf <- OneCase
    Entries = {e1, e2}
    Notes = {n1}
    None = None
    MaxRequests = 3
    MaxFaults = 1
SPECIFICATION FairSpec
INVARIANTS
    TypeOK
    AnswersHold
    CompleteHasText
    TrailReconciles
PROPERTIES
    EveryRequestEnds
CHECK_DEADLOCK FALSE
