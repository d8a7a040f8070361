CONSTANTS
    Requests = {r1, r2, r3}
    VALID_WINDOW = 1
    RECOVERY_CODE_COUNT = 2
    MaxSecrets = 2
    MaxStep = 2
SYMMETRY Slots
SPECIFICATION Spec
INVARIANTS
    TypeOK
    CodesBelongToSecret
    GrantedOnRecord
PROPERTIES
    ActiveUntilDisabled
CHECK_DEADLOCK FALSE
