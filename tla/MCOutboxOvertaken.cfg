CONSTANTS
    Message = {m1, m2}
    Value = {a, b}
    Gone = Gone
    Engine = {e1}
    Shown = "marks"
    Inbox = a
    Archive = b
    Kinds = {"set"}
    Faults = {"retry"}
    SYNCS_TO_FIND = 2
    MaxId = 2
    MaxFaults = 1
    MaxElsewhere = 0
SPECIFICATION Spec
PROPERTIES ReachesInOrder
