SPECIFICATION Spec
CONSTANTS
    a = a
    b = b
    c = c
    Msgs = {a, b}
    Old = {a}
    Engines = {"pass"}
    Offers = {"Absent", "Supported", "Qresync"}
    Others = {"Arrive", "Expunge", "Reflag", "Renumber"}
    Faults = {"Fail", "Garble", "Crash"}
    Budget = 1
    MaxChanges = 2
    MaxFaults = 1
INVARIANTS
    ThroughHeld
PROPERTIES
    NeverDropsLive
