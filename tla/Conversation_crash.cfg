SPECIFICATION Spec
CONSTANTS
    Inputs = 2
    Workers = {w1, w2}
    w1 = w1
    w2 = w2
    MaxAttempts = 2
    MaxGeneration = 2
    Slots = 1
    Stalling = {}
    CheckedDelivery = TRUE
    Portless = {1}
    Questions = TRUE
    LongWaits = TRUE
SYMMETRY WorkerSymmetry
INVARIANTS TypeOK TurnOwnsRuntime RuntimeOwnerLives ConsumedWasAdopted ParkedCanBeAnswered NoKnownReplay AdoptedIsNotRun SteersEndWithTurn
CHECK_DEADLOCK FALSE
