SPECIFICATION FairSpec
CONSTANTS
    a = a
    b = b
    c = c
    Msgs = {a}
    Old = {a}
    Engines = {"pass"}
    Offers = {"Qresync"}
    Others = {"Expunge"}
    Faults = {}
    Budget = 1
    MaxChanges = 1
    MaxFaults = 0
PROPERTIES
    Disappears
CHECK_DEADLOCK FALSE
