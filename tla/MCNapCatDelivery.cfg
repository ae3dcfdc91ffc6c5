SPECIFICATION LiveSpec
CONSTANTS
    c1 = c1
    d1 = d1
    b1 = b1
    b2 = b2
    l1 = l1
    l2 = l2
    m1 = m1
    m2 = m2
    NoLease = NoLease
    NoMessage = NoMessage
    NoPart = NoPart
    Connections = {c1}
    Plans = {d1}
    Parts = {b1, b2}
    Required = {b1, b2}
    ProactivePlans = {}
    Leases = {l1, l2}
    Messages = {m1, m2}
    LeaseTicks = 2
    DeferTicks = 1
    ClockLag = 0
    AttemptCap = 3
    MaxAttempts = 2
    Budget = 2
    ConnectionOf <- MCConnectionOf
    PlanOf <- MCPlanOf
    Ordinal <- MCOrdinal
    Delay <- MCDelay
INVARIANTS
    AtMostOnce
    ShownInOrder
    AcceptedIsAccounted
PROPERTIES
    ImplementsMessenger
    ReceiptsAreBooked
    EveryPlanEnds
