CONSTANTS
    Message = {m1, m2}
    Value = {a, b}
    Gone = Gone
    Engine = {e1}
    Shown = "marks"
    Inbox = a
    Archive = b
    Kinds = {"set", "file"}
    Faults = {"unsaid", "hidden", "expunge", "retry", "park", "fatal", "cancel", "crash", "stopped", "reset"}
    SYNCS_TO_FIND = 1
    MaxId = 2
    MaxFaults = 1
    MaxElsewhere = 1
SPECIFICATION FairSpec
INVARIANTS TypeOK
PROPERTIES Converges
