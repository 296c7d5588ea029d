\* One operation of each kind, a changeset with two files: one crash, one pause, one late request.
CONSTANTS
    c1 = c1
    w1 = w1
    p1 = p1
    f1 = f1
    m1 = m1
    None = None
    Ops = {c1, p1, w1, f1, m1}
    AgentOps = {}
    Capability <- MCCapability
    Amount <- MCAmount
    Metrics = {"resource"}
    Capacity = 0
    MaxUsage = 0
    Plans = {{c1}, {p1}, {w1}, {f1}, {m1}}
    NFiles = 2
    MaxLate = 1
    MaxCrashes = 1
    MaxPauses = 1
SPECIFICATION Spec
INVARIANTS TypeOK OutcomeAlwaysLands
PROPERTY KeepsThePromise
