SPECIFICATION OLiveSpec
CONSTANTS
    m1 = m1
    m2 = m2
    Sources <- MCSources
    RoomOf <- MCRoomOf
    Historical <- MCHistorical
    MaxRevision <- MCMaxRevision
    MaxAttempts = 2
    Workers = {a, b}
    a = a
    b = b
    MaxSetbacks = 1
    MaxOverruns = 1
INVARIANTS
    OneWorkerPerRow
    ReceiptIsFinal
PROPERTIES
    SupersededStays
    EveryObservationEnds
CHECK_DEADLOCK FALSE
