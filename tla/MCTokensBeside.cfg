SPECIFICATION Spec
CONSTANTS
    w = w
    p = p
    x = x
    y = y
    z = z
    Sources = {w, p}
    Sessions = {x, z}
    Of <- OfBoth
    Faults = {"unreachable", "lost", "keyring", "absent", "ends", "dropped", "withdrawn"}
    MaxStale = 2
    MaxFaults = 1
INVARIANTS StoredGood AskedRightly
