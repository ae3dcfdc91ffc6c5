SPECIFICATION TSpec
CONSTANTS
    Writes = {w1}
    NoWrite = NoWrite
    OwnerOps = {"revise"}
    w1 = w1
PROPERTIES
    PauseStands
CHECK_DEADLOCK FALSE
