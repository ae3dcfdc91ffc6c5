SPECIFICATION SLiveSpec
CONSTANTS
    Deciders = {d1}
    Cancellers = {c1}
    Waiters = {w1}
    MaxRevision = 1
    MaxTorn = 1
CHECK_DEADLOCK FALSE
INVARIANTS
    EffectNeedsApproval
PROPERTIES
    NoEffectAfterEnd
    EndIsFinal
    EveryRunEnds
    EveryWaiterWakes
