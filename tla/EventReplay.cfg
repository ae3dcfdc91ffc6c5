SPECIFICATION LiveSpec
CONSTANTS
    MaxEvents = 3
    Kinds = {"preemptive", "critical", "domain"}
    QueueSize = 2
    PageLimit = 2
    MaxResets = 1
    Budget = 1
INVARIANTS
    HolesStemFromResets
PROPERTIES
    ImplementsFeed
    EventsReachThePage
