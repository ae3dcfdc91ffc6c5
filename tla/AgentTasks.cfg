SPECIFICATION TLiveSpec
CONSTANTS
    Writes = {w1}
    NoWrite = NoWrite
    OwnerOps = {"pause", "cancel", "revise", "resume", "defer", "reconcile"}
    w1 = w1
INVARIANTS
    WriteAtMostOnce
    RevokedIsStopped
PROPERTIES
    TaskEndIsFinal
    OwnerCallEnds
CHECK_DEADLOCK FALSE
