CONSTANTS
    Requests = {r1, r2}
    VALID_WINDOW = 1
    RECOVERY_CODE_COUNT = 1
    MaxSecrets = 1
    MaxStep = 2
SYMMETRY Slots
SPECIFICATION Spec
INVARIANTS CodeGrantedOnce
CHECK_DEADLOCK FALSE
