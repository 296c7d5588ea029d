\* An operation of the root and one of a child agent share a budget of two, of a
\* resource or of telemetry; usage may be measured up to twice what was reserved.
CONSTANTS
    o1 = o1
    a1 = a1
    Ops = {o1, a1}
    AgentOps = {a1}
    Capability <- MCCapability
    Amount <- MCAmount
    Metrics = {"resource", "telemetry"}
    Capacity = 2
    MaxUsage = 2
    Plans = {{o1, a1}}
SPECIFICATION LedgerSpec
INVARIANTS BudgetAccounts UnleasedHasNoResult
PROPERTY CutIsFinal
CHECK_DEADLOCK FALSE
