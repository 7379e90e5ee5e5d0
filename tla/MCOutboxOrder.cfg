CONSTANTS
    Message = {m1, m2}
    Value = {a, b}
    Gone = Gone
    Engine = {e1}
    Shown = "marks"
    Inbox = a
    Archive = b
    Kinds = {"set", "move"}
    Faults = {"unsaid", "cancel", "crash"}
    SYNCS_TO_FIND = 2
    MaxId = 3
    MaxFaults = 1
    MaxElsewhere = 1
SYMMETRY Symmetry
SPECIFICATION Spec
INVARIANTS PendingShown
PROPERTIES ReachesInOrder NeverDroppedUnsaid
