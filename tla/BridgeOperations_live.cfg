\* A changeset, a write or a process: one crash, one pause, requests lost at will.
CONSTANTS
    c1 = c1
    w1 = w1
    p1 = p1
    f1 = f1
    m1 = m1
    None = None
    Ops = {c1, w1, p1}
    AgentOps = {}
    Capability <- MCCapability
    Amount <- MCAmount
    Metrics = {"resource"}
    Capacity = 0
    MaxUsage = 0
    Plans = {{c1}, {w1}, {p1}}
    NFiles = 1
    MaxLate = 0
    MaxCrashes = 1
    MaxPauses = 1
SPECIFICATION FairSpec
PROPERTIES Settles OutboxDrainsOrStopRefused
