---------------------------- MODULE LeaseLockRetry ----------------------------
(***************************************************************************)
(* One heartbeat or event write of a leased job: a transaction that waits  *)
(* for locks, is rolled back when a wait exceeds its lock_timeout (55P03), *)
(* and is tried again inside what is left of the lease.  `row' is the job  *)
(* row as committed, which the runner's other calls, users and maintenance *)
(* change meanwhile; `call' is the retry loop.  Time is the database's, in *)
(* units of half a second (minimumRetryLockWaitMs).                        *)
(***************************************************************************)
EXTENDS Integers

CONSTANTS
    Sites,            \* the kinds of call
    leaseLockWait,    \* 5000 ms: the lock wait of a first attempt
    leaseRetryReserve,\* 1500 ms: kept ahead of the lease's end
    maxLeaseLockAttempts,
    LeaseLength, DrainWindow,
    MaxDelay,         \* from a lease read to the first lock wait of a retry
    AdmissionLocks,   \* locks of a scheduled job's admission, 6 to 14 in the code
    Skews,            \* host clock less database clock
    MaxWork,          \* statement_timeout of the statements under the locks
    MaxTime           \* bound on the clock

ASSUME RetryAssumption ==
    /\ Sites \subseteq {"job_heartbeat", "scheduled_heartbeat", "job_event", "question_event"}
    /\ {leaseLockWait, maxLeaseLockAttempts, LeaseLength, DrainWindow} \subseteq Nat \ {0}
    /\ {leaseRetryReserve, MaxDelay, AdmissionLocks, MaxWork, MaxTime} \subseteq Nat
    /\ Skews \subseteq Int

VARIABLES now, site, row, call, aborted, applied

vars == <<now, site, row, call, aborted, applied>>

contendedLockWaits == 3
minimumRetryLockWait == 1

\* The contended locks of an attempt before its run's 703 lock: those of a
\* scheduled job's principal, settings and sessions (lockNativeOnceJobAdmission),
\* the question mode's.  A denied admission skips locks, as if they were free.
FirstLocks(s) ==
    CASE s = "scheduled_heartbeat" -> AdmissionLocks
      [] s = "question_event" -> 1
      [] OTHER -> 0

\* Then 703, the runtime root, under whose lock the job row is locked, and the
\* run row of an event.
Root(s) == FirstLocks(s) + 2
LastLock(s) == IF s \in {"job_event", "question_event"} THEN Root(s) + 1 ELSE Root(s)

\* lockRootCreation only tries the 703 lock of a scheduled job.
NoWait(s, n) == s = "scheduled_heartbeat" /\ n = FirstLocks(s) + 1

\* The lock waits among the first n locks.
Waits(s, n) == IF s = "scheduled_heartbeat" /\ n > FirstLocks(s) THEN n - 1 ELSE n

StopMode == site \in {"job_heartbeat", "scheduled_heartbeat"}

Lesser(a, b) == IF a <= b THEN a ELSE b

Never == MaxTime + LeaseLength + DrainWindow + 1

Ends == 0..Never
PCs == {"starting", "locking", "working", "backoff", "reading", "deciding", "done"}
Nexts == {"none", "retry", "exhausted", "lease_lost", "stopped"}

Outcomes == Nexts \cup {"committed", "failed", "aborted"}

Rows == [owned : BOOLEAN, lease : Ends, canceled : (0..MaxTime) \cup {Never}, drain : Ends]

Calls == [pc : PCs, attempt : 1..maxLeaseLockAttempts, wait : 1..leaseLockWait, held : Nat,
          t : Nat, fence : Ends, next : Nexts, end : Ends, readAt : 0..MaxTime,
          outcome : Outcomes]

TypeOK ==
    /\ now \in 0..MaxTime /\ site \in Sites
    /\ row \in Rows /\ call \in Calls
    /\ aborted \in BOOLEAN /\ applied \in Nat

FirstAttempt ==
    [pc |-> "starting", attempt |-> 1, wait |-> leaseLockWait, held |-> 0, t |-> 0,
     fence |-> 0, next |-> "none", end |-> 0, readAt |-> 0, outcome |-> "none"]

\* The call starts inside its lease, as claimed or renewed last.
Init ==
    /\ now = 0 /\ site \in Sites
    /\ row \in [owned : {TRUE}, lease : 1..LeaseLength, canceled : {Never}, drain : {Never}]
    /\ call = FirstAttempt
    /\ aborted = FALSE /\ applied = 0

RowCurrent == row.owned /\ now < row.lease /\ now < row.drain

-----------------------------------------------------------------------------
(* The retry loop *)

Goto(pc) == call' = [call EXCEPT !.pc = pc, !.t = 0]
Done(outcome) == call' = [FirstAttempt EXCEPT !.pc = "done", !.attempt = call.attempt,
                                              !.outcome = outcome]

\* A connection, BEGIN, the trace's statement: then the first lock wait.
BeginAttempt ==
    /\ call.pc = "starting" /\ call' = [call EXCEPT !.pc = "locking", !.t = 0, !.held = 0]
    /\ UNCHANGED <<now, site, row, aborted, applied>>

\* lockedLeasedJob checks the row, once the root's lock admits to it, on the
\* host's clock.
GetLock ==
    LET n == call.held + 1 IN
    /\ call.pc = "locking"
    /\ \E s \in Skews :
         IF n = Root(site) /\ ~(row.owned /\ now + s < row.lease /\ now + s < row.drain)
         THEN Done("lease_lost")
         ELSE call' = [call EXCEPT
                !.held = n, !.t = 0,
                !.fence = IF n = Root(site) THEN Lesser(row.lease, row.drain) ELSE @,
                !.pc = IF n = LastLock(site) THEN "working" ELSE @]
    /\ UNCHANGED <<now, site, row, aborted, applied>>

\* assertLockedLeaseCurrent fences the commit by the lease as locked.
Commit ==
    /\ call.pc = "working"
    /\ IF now < call.fence THEN Done("committed") /\ applied' = applied + 1
       ELSE Done("lease_lost") /\ UNCHANGED applied
    /\ UNCHANGED <<now, site, row, aborted>>

\* Mutant: whatever failed is tried again.
Fail_Retries ==
    /\ call.pc \in {"starting", "locking", "working"}
    /\ \/ UNCHANGED applied
       \/ call.pc = "working" /\ now < call.fence /\ applied' = applied + 1
    /\ IF call.attempt < maxLeaseLockAttempts THEN Goto("backoff") ELSE Done("failed")
    /\ UNCHANGED <<now, site, row, aborted>>

\* Any other failure.  A connection lost at the COMMIT leaves its outcome open.
Fail ==
    /\ call.pc \in {"starting", "locking", "working"}
    /\ \/ UNCHANGED applied
       \/ call.pc = "working" /\ now < call.fence /\ applied' = applied + 1
    /\ Done("failed")
    /\ UNCHANGED <<now, site, row, aborted>>

\* 55P03: a wait reached lock_timeout, or a NOWAIT lock of a scheduled job is
\* busy.  The transaction is rolled back, whichever statement it was.
LockTimesOut ==
    /\ call.pc \in {"locking", "working"}
    /\ IF aborted THEN Done("aborted")
       ELSE IF call.attempt < maxLeaseLockAttempts THEN Goto("backoff")
       ELSE Done("exhausted")
    /\ UNCHANGED <<now, site, row, aborted, applied>>

BackoffEnds ==
    /\ call.pc = "backoff"
    /\ IF aborted THEN Done("aborted") ELSE Goto("reading")
    /\ UNCHANGED <<now, site, row, aborted, applied>>

\* Mutant: the whole rest of the lease for each wait.
LockWait_Undivided(end) == Lesser(leaseLockWait, end - now - leaseRetryReserve)

\* The rest of the lease, less the reserve, over the waits of an attempt.
LockWait(end) ==
    Lesser(leaseLockWait, (end - now - leaseRetryReserve) \div contendedLockWaits)

\* Mutant: a cancel request does not concern a heartbeat.
Verdict_IgnoresStop ==
    IF ~RowCurrent THEN "lease_lost"
    ELSE IF LockWait(Lesser(row.lease, row.drain)) >= minimumRetryLockWait THEN "retry"
    ELSE "exhausted"

Verdict ==
    IF ~RowCurrent THEN "lease_lost"
    ELSE IF StopMode /\ (row.canceled # Never \/ row.drain # Never) THEN "stopped"
    ELSE IF LockWait(Lesser(row.lease, row.drain)) >= minimumRetryLockWait THEN "retry"
    ELSE "exhausted"

\* nextLeaseLockWait, an unlocked read with a timeout of its own.
ReadLease ==
    LET end == Lesser(row.lease, row.drain) IN
    /\ call.pc = "reading"
    /\ \/ call' = [call EXCEPT !.pc = "deciding", !.t = 0, !.next = Verdict, !.readAt = now,
                     !.end = end, !.wait = IF Verdict = "retry" THEN LockWait(end) ELSE @]
       \/ call' = [call EXCEPT !.pc = "deciding", !.t = 0, !.next = "exhausted"]
    /\ UNCHANGED <<now, site, row, aborted, applied>>

\* Mutant: the runner's return is not looked at again after the read.
Decide_Late ==
    /\ call.pc = "deciding"
    /\ IF call.next # "retry" THEN Done(call.next)
       ELSE call' = [call EXCEPT !.pc = "starting", !.attempt = @ + 1]
    /\ UNCHANGED <<now, site, row, aborted, applied>>

\* The runner may have returned during the read.
Decide ==
    /\ call.pc = "deciding"
    /\ IF aborted THEN Done("aborted")
       ELSE IF call.next # "retry" THEN Done(call.next)
       ELSE call' = [call EXCEPT !.pc = "starting", !.attempt = @ + 1]
    /\ UNCHANGED <<now, site, row, aborted, applied>>

-----------------------------------------------------------------------------
(* The runner, the other transactions on the row, and time *)

\* What happens after the call has returned is the queue's (JobQueue).
Open == call.pc # "done"

\* heartbeatRetries.abort(): the runner returns.
RunnerReturns ==
    /\ Open /\ StopMode /\ ~aborted /\ aborted' = TRUE
    /\ UNCHANGED <<now, site, row, call, applied>>

\* The row is locked by the attempt from the root's lock to its end.
RowLocked ==
    call.pc \in {"locking", "working"} /\ call.held >= Root(site)

RequestCancel ==
    /\ Open /\ ~RowLocked /\ row.canceled = Never
    /\ row' = [row EXCEPT !.canceled = now]
    /\ UNCHANGED <<now, site, call, aborted, applied>>

\* The runner's heartbeat, next to an event write: it renews the lease, or
\* freezes the receipt drain of a canceled job (freezeJobReceiptDrain).
OtherHeartbeat ==
    /\ Open /\ ~StopMode /\ ~RowLocked /\ RowCurrent
    /\ row' = IF row.canceled = Never THEN [row EXCEPT !.lease = now + LeaseLength]
              ELSE [row EXCEPT !.drain = row.canceled + DrainWindow,
                               !.lease = Lesser(row.canceled + DrainWindow, now + LeaseLength)]
    /\ UNCHANGED <<now, site, call, aborted, applied>>

\* Maintenance takes an expired job back, or the runner settled it.
LosesJob ==
    /\ Open /\ ~RowLocked /\ row.owned /\ (~RowCurrent \/ aborted)
    /\ row' = [row EXCEPT !.owned = FALSE]
    /\ UNCHANGED <<now, site, call, aborted, applied>>

\* How long the call may stay where it is.
Limit ==
    CASE call.pc = "locking" -> IF NoWait(site, call.held + 1) THEN 0 ELSE call.wait
      [] call.pc \in {"starting", "deciding"} -> MaxDelay
      [] call.pc = "backoff" -> minimumRetryLockWait
      [] call.pc = "reading" -> leaseLockWait
      [] call.pc = "working" -> MaxWork
      [] OTHER -> 0

Tick ==
    /\ now < MaxTime /\ call.t < Limit
    /\ now' = now + 1 /\ call' = [call EXCEPT !.t = @ + 1]
    /\ UNCHANGED <<site, row, aborted, applied>>

CallStep ==
    \/ BeginAttempt \/ GetLock \/ Commit \/ Fail
    \/ LockTimesOut \/ BackoffEnds \/ ReadLease \/ Decide

Next ==
    \/ CallStep \/ Tick
    \/ RunnerReturns \/ RequestCancel \/ OtherHeartbeat \/ LosesJob

Spec == Init /\ [][Next]_vars

-----------------------------------------------------------------------------
(* Properties *)

\* The waits an attempt may make beyond the three nextLeaseLockWait divides by.
ExcessWaits(s) ==
    LET n == Waits(s, LastLock(s)) IN
    IF n > contendedLockWaits THEN n - contendedLockWaits ELSE 0

\* A retried attempt outlasts the lease (or drain window) it read by no more than
\* the waits nextLeaseLockWait has not counted.  The heartbeat of an unscheduled
\* job and an ordinary event write have none: their last lock wait ends inside
\* the lease.  A question event has one, a scheduled job's heartbeat those of its
\* admission, and only the commit fence keeps those two inside.
RetryWaitsBounded ==
    call.attempt > 1 /\ call.pc = "locking" =>
        now < call.end + ExcessWaits(site) * call.wait

\* The event is written once: an attempt whose outcome is unknown, a connection
\* lost at its COMMIT, is not repeated (retryLeaseLockTimeout).
AppliedOnce == applied <= 1

\* No heartbeat is tried again once its runner has returned.
NoRetryAfterReturn == [][aborted => call'.attempt = call.attempt]_vars

\* A heartbeat is not tried again against a cancel that was committed before it
\* looked, though the cancel may still be overtaken by the attempt it then makes.
StopEndsRetries ==
    StopMode /\ call.attempt > 1 /\ call.pc \in {"starting", "locking", "working"} =>
        row.canceled >= call.readAt
===============================================================================
