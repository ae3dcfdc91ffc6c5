SPECIFICATION Spec
CONSTANTS
    c1 = c1
    d1 = d1
    d2 = d2
    b1 = b1
    b2 = b2
    sticker = sticker
    hello = hello
    l1 = l1
    l2 = l2
    m1 = m1
    m2 = m2
    NoLease = NoLease
    NoMessage = NoMessage
    Connections = {c1}
    Plans = {d1, d2}
    Parts = {b1, b2, sticker, hello}
    Required = {b1, b2, hello}
    ProactivePlans = {d2}
    Leases = {l1, l2}
    Messages = {m1, m2}
    LeaseTicks = 2
    DeferTicks = 1
    ClockLag = 1
    AttemptCap = 1
    ConnectionOf <- MCConnectionOf
    PlanOf <- MCPlanOf
    Ordinal <- MCOrdinal
    Delay <- MCDelay
INVARIANTS
    OneSendingPart
    AttemptedInOrder
    VerdictMatchesParts
PROPERTIES
    DeliveredIsFinal
    NoSendAfterCancel
    LeaseNotStolen
    VerdictIsFinal
SYMMETRY Symmetry
CHECK_DEADLOCK FALSE
