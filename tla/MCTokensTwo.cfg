SPECIFICATION Spec
CONSTANTS
    w = w
    p = p
    x = x
    y = y
    z = z
    Sources = {w, p}
    Sessions = {x, z}
    Of <- OfBoth
    Faults = {}
    MaxStale = 2
    MaxFaults = 1
INVARIANTS NeverAgain
