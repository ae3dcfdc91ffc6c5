SPECIFICATION SSpec
CONSTANTS
    Deciders = {d1, d2}
    Cancellers = {}
    Waiters = {}
    MaxRevision = 0
    MaxTorn = 1
INVARIANTS
    TornApprovalIsUnscheduled
CHECK_DEADLOCK FALSE
