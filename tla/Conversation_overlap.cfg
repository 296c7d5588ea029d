SPECIFICATION Spec
CONSTANTS
    Inputs = 2
    Workers = {w1, w2}
    w1 = w1
    w2 = w2
    MaxAttempts = 2
    MaxGeneration = 1
    Slots = 1
    Stalling = {1}
    CheckedDelivery = TRUE
    Portless = {}
    Questions = FALSE
    LongWaits = FALSE
SYMMETRY WorkerSymmetry
INVARIANTS OneTurn
CHECK_DEADLOCK FALSE
