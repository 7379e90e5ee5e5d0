SPECIFICATION FairSpec
CONSTANTS
    d1 = d1
    d2 = d2
    Drains = {d1}
    Window = {}
    Acts = {}
    Faults = {"later", "lost", "cut"}
    MaxSaves = 2
    MaxRows = 8
    MaxFaults = 2
INVARIANTS TypeOK KeptStays RemovalStands
PROPERTIES CopiesSettle
CHECK_DEADLOCK FALSE
