CONSTANTS
    Message = {m1}
    Value = {a, b}
    Gone = Gone
    Engine = {e1}
    Shown = "mailbox"
    Inbox = a
    Archive = b
    Kinds = {"file"}
    Faults = {}
    SYNCS_TO_FIND = 1
    MaxId = 1
    MaxFaults = 0
    MaxElsewhere = 0
SPECIFICATION Spec
PROPERTIES NextSyncShowsIt
