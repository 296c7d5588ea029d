SPECIFICATION Spec
CONSTANTS
    Sites = {"job_heartbeat", "scheduled_heartbeat", "job_event", "question_event"}
    leaseLockWait = 3
    leaseRetryReserve = 2
    maxLeaseLockAttempts = 3
    LeaseLength = 9
    DrainWindow = 5
    MaxDelay = 1
    AdmissionLocks = 4
    Skews <- HostSkews
    MaxWork = 1
    MaxTime = 13
INVARIANTS RetryWaitsBounded AppliedOnce StopEndsRetries
PROPERTY NoRetryAfterReturn
CHECK_DEADLOCK FALSE
