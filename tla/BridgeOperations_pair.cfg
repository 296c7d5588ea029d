\* A process and a write on one device, which crashes once.
CONSTANTS
    c1 = c1
    w1 = w1
    p1 = p1
    f1 = f1
    m1 = m1
    None = None
    Ops = {p1, w1}
    AgentOps = {}
    Capability <- MCCapability
    Amount <- MCAmount
    Metrics = {"resource"}
    Capacity = 0
    MaxUsage = 0
    Plans = {{p1, w1}}
    NFiles = 1
    MaxLate = 0
    MaxCrashes = 1
    MaxPauses = 0
SPECIFICATION Spec
INVARIANTS AtMostOnce TruthfulResult
