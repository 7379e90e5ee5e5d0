SPECIFICATION Spec
CONSTANTS
    a = a
    b = b
    c = c
    Msgs = {a}
    Old = {a}
    Engines = {"pass"}
    Offers = {"Absent"}
    Others = {}
    Faults = {"Stop"}
    Budget = 1
    MaxChanges = 0
    MaxFaults = 1
PROPERTIES
    NeverDropsLive
CHECK_DEADLOCK FALSE
