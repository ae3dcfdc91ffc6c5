SPECIFICATION LiveSpec
CONSTANTS
    MaxEvents = 3
    Kinds = {"preemptive", "domain"}
    QueueSize = 2
    PageLimit = 2
    MaxResets = 1
    Budget = 0
PROPERTIES
    ResetIsConsumed
