SPECIFICATION Spec
CONSTANTS
    d1 = d1
    d2 = d2
    Drains = {d1}
    Window = {}
    Acts = {}
    Faults = {"stopped"}
    MaxSaves = 2
    MaxRows = 8
    MaxFaults = 2
INVARIANTS RemovalStands
CHECK_DEADLOCK FALSE
