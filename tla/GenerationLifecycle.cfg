SPECIFICATION LiveSpec
CONSTANTS
    Locals = {l1}
    Shareds = {h1}
    Proactives = {p1}
    Realtimes = {r1}
    Stoppers = {s1}
    Resetters = {x1}
    Parties = {{l1, p1, s1, x1}, {h1, r1, s1}}
    Nobody = Nobody
    Deltas = 1
    Budget = 1
INVARIANTS RevokedNeverCompletes
PROPERTIES OutputMovesForward VerdictIsFinal RevokedIsSilent CallsReturn
CHECK_DEADLOCK FALSE
