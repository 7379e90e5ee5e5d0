SPECIFICATION Spec
CONSTANTS
    a = a
    b = b
    c = c
    Msgs = {a, b}
    Old = {a}
    Engines = {"pass", "folder"}
    Offers = {"Absent"}
    Others = {"Arrive"}
    Faults = {}
    Budget = 2
    MaxChanges = 1
    MaxFaults = 0
INVARIANTS
    ThroughHeld
CHECK_DEADLOCK FALSE
