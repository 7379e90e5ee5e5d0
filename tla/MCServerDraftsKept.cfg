SPECIFICATION Spec
CONSTANTS
    d1 = d1
    d2 = d2
    Drains = {d1, d2}
    Window = {d1}
    Acts = {"unseal"}
    Faults = {"later", "refused", "lost", "cut", "stopped"}
    MaxSaves = 2
    MaxRows = 3
    MaxFaults = 1
INVARIANTS TypeOK KeptStays
CHECK_DEADLOCK FALSE
