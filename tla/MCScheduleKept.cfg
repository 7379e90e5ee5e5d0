CONSTANTS
    Every = 1
    Silence = 1
    Far = 1
    Waits = {1, 2}
    Outcomes = {"Finished", "Again"}
    Asks = {"Manual", "Polled"}
    Beside = TRUE
    MaxPasses = 2
    MaxNotes = 2
SPECIFICATION Spec
INVARIANTS OnePass PushAnswered WakeKept
