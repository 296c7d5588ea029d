CONSTANTS
    j1 = j1  j2 = j2  w1 = w1  w2 = w2  web = web  q1 = q1  q2 = q2
    Jobs = {j1}
    Clocked = {}
    Workers = {w1, w2}
    Web = web
    Questions = {}
    LeaseMs = 2
    DrainMs = 2
    Budget = 2
    MaxAttempts = 2
    RetryBaseMs = 1
    RetryCapMs = 2
    Skew <- SkewedHosts
    MaxSkew = 1
    MaxLag = 1
    MaxClaims = 2
    MaxSteps = 0
    Horizon = 6
SPECIFICATION Spec
CHECK_DEADLOCK FALSE
PROPERTIES
    LeaseNeverRevived
