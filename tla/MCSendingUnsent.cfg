SPECIFICATION Spec
CONSTANTS
    window = window
    watch = watch
    Drains = {window}
    Acts = {"Unsend"}
    Faults = {}
    MaxRows = 1
    MaxFaults = 0
INVARIANTS
    UnsentStays
CHECK_DEADLOCK FALSE
