SPECIFICATION Spec
CONSTANTS
    Locals = {l1}
    Shareds = {}
    Proactives = {}
    Realtimes = {}
    Stoppers = {s1}
    Resetters = {}
    Parties = {{l1, s1}}
    Nobody = Nobody
    Deltas = 1
    Budget = 1
INVARIANTS InterruptedHasVerdict
CHECK_DEADLOCK FALSE
