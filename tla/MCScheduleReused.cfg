CONSTANTS
    Every = 1
    Silence = 2
    Far = 3
    Waits = {1}
    Outcomes = {"Finished"}
    Asks = {"Away", "Polled"}
    Beside = FALSE
    MaxPasses = 2
    MaxNotes = 2
SPECIFICATION Spec
PROPERTY CancelledSilent
