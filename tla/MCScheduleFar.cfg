CONSTANTS
    Every = 1
    Silence = 2
    Far = 2
    Waits = {3}
    Outcomes = {"Again"}
    Asks = {}
    Beside = FALSE
    MaxPasses = 2
    MaxNotes = 2
SPECIFICATION Spec
INVARIANT FarAskedAgain
