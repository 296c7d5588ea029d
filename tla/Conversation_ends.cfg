SPECIFICATION FairSpec
CONSTANTS
    Inputs = 3
    Workers = {w1}
    w1 = w1
    MaxAttempts = 1
    MaxGeneration = 1
    Slots = 1
    Stalling = {}
    CheckedDelivery = TRUE
    Portless = {}
    Questions = FALSE
    LongWaits = FALSE
PROPERTIES InputsEnd QueueOrder
CHECK_DEADLOCK FALSE
