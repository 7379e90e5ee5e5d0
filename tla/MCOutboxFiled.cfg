CONSTANTS
    Message = {m1, m2}
    Value = {a, b}
    Gone = Gone
    Engine = {e1}
    Shown = "mailbox"
    Inbox = a
    Archive = b
    Kinds = {"move"}
    Faults = {"unsaid", "expunge", "reset", "crash"}
    SYNCS_TO_FIND = 1
    MaxId = 3
    MaxFaults = 1
    MaxElsewhere = 1
SPECIFICATION Spec
PROPERTIES ReachesInOrder NeverDroppedUnsaid
