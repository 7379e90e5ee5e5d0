SPECIFICATION Spec
CONSTANTS
    window = window
    watch = watch
    Drains = {window}
    Acts = {}
    Faults = {"Cancel"}
    MaxRows = 1
    MaxFaults = 1
INVARIANTS
    StoppedStays
CHECK_DEADLOCK FALSE
