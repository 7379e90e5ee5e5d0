SPECIFICATION Spec
CONSTANTS
    window = window
    watch = watch
    Drains = {window}
    Acts = {}
    Faults = {"Crash"}
    MaxRows = 1
    MaxFaults = 1
INVARIANTS
    OnItsWay
CHECK_DEADLOCK FALSE
