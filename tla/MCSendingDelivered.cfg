SPECIFICATION FairSpec
CONSTANTS
    window = window
    watch = watch
    Drains = {window}
    Acts = {"Unsend", "Requeue", "Discard", "Save"}
    Faults = {"Later", "Refuse", "Cancel"}
    MaxRows = 3
    MaxFaults = 2
PROPERTIES
    Delivered
CHECK_DEADLOCK FALSE
