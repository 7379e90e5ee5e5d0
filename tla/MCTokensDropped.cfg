SPECIFICATION Spec
CONSTANTS
    w = w
    p = p
    x = x
    y = y
    z = z
    Sources = {w}
    Sessions = {x, y}
    Of <- OfWatch
    Faults = {"dropped"}
    MaxStale = 2
    MaxFaults = 1
INVARIANTS NeverAgain
