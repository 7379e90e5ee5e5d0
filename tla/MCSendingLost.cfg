SPECIFICATION Spec
CONSTANTS
    window = window
    watch = watch
    Drains = {window, watch}
    Acts = {"Unsend", "Requeue", "Discard"}
    Faults = {"Later", "Refuse", "Cancel", "Lost", "LetGo", "Crash"}
    MaxRows = 3
    MaxFaults = 2
SYMMETRY Alike
INVARIANTS
    TypeOK
    NotSentAgain
    NeverLost
    QueuedHasRow
    OneRow
PROPERTIES
    KeepsPromise
CHECK_DEADLOCK FALSE
