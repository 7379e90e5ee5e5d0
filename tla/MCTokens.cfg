SPECIFICATION FairSpec
CONSTANTS
    w = w
    p = p
    x = x
    y = y
    z = z
    Sources = {w}
    Sessions = {x, y}
    Of <- OfWatch
    Faults = {"unreachable", "lost", "keyring", "absent", "ends", "dropped", "withdrawn"}
    MaxStale = 2
    MaxFaults = 2
INVARIANTS TypeOK SpentOnce StoredGood AskedRightly NoLoop
PROPERTIES Answered
