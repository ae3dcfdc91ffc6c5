SPECIFICATION LiveSpec
CONSTANTS
    MaxGens = 2
    Budget = 2
INVARIANTS
    CompletedWasHeard
    FlushedStaysSilent
    ClosedOwnsNothing
PROPERTIES
    SpokenOnce
    DoneLetsGo
    CloseEnds
CHECK_DEADLOCK FALSE
