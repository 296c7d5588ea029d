CONSTANTS
    j1 = j1  j2 = j2  w1 = w1  w2 = w2  web = web  q1 = q1  q2 = q2
    Jobs = {j1}
    Clocked = {j1}
    Workers = {w1}
    Web = web
    Questions = {q1}
    LeaseMs = 2
    DrainMs = 2
    Budget = 3
    MaxAttempts = 1
    RetryBaseMs = 1
    RetryCapMs = 2
    Skew <- NoSkew
    MaxSkew = 0
    MaxLag = 1
    MaxClaims = 2
    MaxSteps = 3
    Horizon = 5
SPECIFICATION Spec
CHECK_DEADLOCK FALSE
INVARIANTS
    TypeOK
    RunMatchesJob
    NothingAfterTheEnd
    FirstStopDecides
    ParkedIsAnswerable
PROPERTIES
    ImplementsRunLifecycle
    OnlyActiveTimeIsCharged
    StopIsFinal
    FrozenStays
