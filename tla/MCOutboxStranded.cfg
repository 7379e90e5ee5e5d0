CONSTANTS
    Message = {m1}
    Value = {a, b}
    Gone = Gone
    Engine = {e1}
    Shown = "marks"
    Inbox = a
    Archive = b
    Kinds = {"set"}
    Faults = {"reset", "expunge"}
    SYNCS_TO_FIND = 1
    MaxId = 1
    MaxFaults = 1
    MaxElsewhere = 1
SPECIFICATION FairSpec
PROPERTIES GivenUpAtLast
