------------------------------ MODULE JobQueue ------------------------------
(***************************************************************************)
(* The persistent job queue: allrice_jobs / allrice_runs / the run's event *)
(* log and its task clock (packages/database/src/execution/queue.ts and    *)
(* queue/, task-clock.ts, task-native-wait.ts), driven by the worker's     *)
(* runner of one claim (apps/worker/src/job-runner.ts) and by the web.     *)
(*                                                                         *)
(* A database transaction locks the root, the clock and the job row before *)
(* it reads them, so it is one action: it decides on the row it locked and *)
(* commits up to MaxLag later.  Its clock reads are the database's (now)   *)
(* or, where the code calls new Date(), the host's (Local).  A lease token *)
(* is fresh per claim; claiming is also what increments the attempt, so    *)
(* the attempt number stands for the token, and names the runner it made.  *)
(***************************************************************************)
EXTENDS Integers, Sequences, FiniteSets

CONSTANTS
    Jobs,         \* run/job pairs (one job per run)
    Clocked,      \* those whose run has a task clock (a frozen runtime policy)
    Workers,      \* worker processes
    Web,          \* the host that serves the API
    Questions,    \* questions a run may ask its user
    LeaseMs,      \* lease length the worker asks for
    DrainMs,      \* receiptDrainMs
    Budget,       \* policy.timeoutMs; 0 is unlimited
    MaxAttempts,  \* max_attempts
    RetryBaseMs,  \* base of the retry backoff
    RetryCapMs,   \* its cap
    Skew,         \* host clock minus database clock
    MaxSkew,      \* bound of |Skew|
    MaxLag,       \* bound: how long a transaction may take
    MaxClaims,    \* bound: claims of one job
    MaxSteps,     \* bound: events after which a handler appends no more
    Horizon       \* bound: the last instant

Hosts == Workers \cup {Web}

ASSUME ConstantsAssumption ==
    /\ Clocked \subseteq Jobs
    /\ LeaseMs \in Nat \ {0} /\ DrainMs \in Nat \ {0}
    /\ Budget \in Nat /\ MaxAttempts \in Nat \ {0}
    /\ RetryBaseMs \in Nat /\ RetryCapMs \in Nat
    /\ MaxSkew \in Nat /\ Skew \in [Hosts -> (-MaxSkew)..MaxSkew]
    /\ MaxLag \in Nat /\ MaxClaims \in Nat /\ MaxSteps \in Nat /\ Horizon \in Nat

VARIABLES
    now,      \* the database clock
    row,      \* row[j]: the job, its run, clock, questions, root and events
    runner,   \* runner[j][a]: the in-memory runner of claim a of job j
    scanned   \* <<w, j>>: w's maintenance scan picked j and has not processed it

vars == <<now, row, runner, scanned>>

Null  == -1                                  \* SQL null of a time or a token
Never == Horizon + MaxLag + MaxSkew + 1      \* unboundedTaskDeadline

Attempts == 1..MaxClaims

TerminalJobStatuses == {"succeeded", "failed", "dead_letter", "canceled"}
TerminalRunStates   == {"succeeded", "failed", "canceled"}
TerminalEventTypes  == {"run.succeeded", "run.failed", "run.canceled"}
LeasedStatuses      == {"claimed", "running"}
LiveJobStatuses == {"queued", "retry_wait", "waiting_approval"} \cup LeasedStatuses
JobStatuses == {"absent"} \cup LiveJobStatuses \cup TerminalJobStatuses
RunStates   == {"absent", "queued", "running", "waiting_approval"}
                 \cup TerminalRunStates
EventTypes  == {"run.created", "run.started", "step", "run.retrying",
                "lease.recovered"} \cup TerminalEventTypes

\* An event carries the attempt of the runner that wrote it, or the row's.
Events == [type : EventTypes, attempt : 0..MaxClaims]

Rows == [status : JobStatuses, attempt : 0..MaxClaims,
         token : {Null} \cup Attempts, lease : Int, availableAt : Int,
         timeoutAt : Int, cancelAt : Int, revoked : BOOLEAN,
         drain : {"none", "cancel", "timeout"}, drainDeadline : Int,
         run : RunStates, left : Int,
         question : [Questions -> {"none", "pending", "closed"}],
         wait : [Questions -> {"none", "parked", "ready", "continued"}],
         root : {"open", "user_request", "budget_exhausted"},
         events : Seq(Events)]

\* pc: claimed and about to start; inside the handler; the handler returned and
\* completeJob is next; it threw and failJob is next; the finally block; returned
\* with a heartbeat still in flight; gone.
PCs == {"none", "starting", "executing", "completing", "failing", "cleanup",
        "detached", "done"}

Runners == [worker : Workers \cup {Web}, pc : PCs, aborted : BOOLEAN]

EmptyRow ==
    [status |-> "absent", attempt |-> 0, token |-> Null, lease |-> Null,
     availableAt |-> 0, timeoutAt |-> 0, cancelAt |-> Null, revoked |-> FALSE,
     drain |-> "none", drainDeadline |-> Null, run |-> "absent", left |-> 0,
     question |-> [q \in Questions |-> "none"],
     wait |-> [q \in Questions |-> "none"], root |-> "open", events |-> << >>]

Local(h) == now + Skew[h]                    \* new Date() on host h

\* Instants a transaction that starts now may commit at.
CommitTimes == {t \in now..(now + MaxLag) : t <= Horizon}

\* Bound: every lease written runs out, on every host's clock, by the horizon.
InHorizon(t) == t + MaxSkew <= Horizon

MinOf(a, b) == IF a <= b THEN a ELSE b

-----------------------------------------------------------------------------
(* Pure parts: queue/policy.ts, queue/receipt-drain.ts, task-clock.ts.      *)

IsTerminalJobStatus(s) == s \in TerminalJobStatuses

\* retryDelayMs: exponential from the base, capped.
RetryDelayMs(attempt) == MinOf(RetryCapMs, RetryBaseMs * 2^(attempt - 1))

ASSUME RetryDelayAssumption == \A a \in Attempts : RetryDelayMs(a) \in Nat

\* Mutant: the cause is derived again from the latest request.
QueueStopCause_Rederived(d, t) ==
    IF d.cancelAt # Null THEN "cancel"
    ELSE IF d.timeoutAt <= t THEN "timeout" ELSE "none"

\* One absolute stop cause: a frozen drain, else a cancel request, else the
\* deadline.
QueueStopCause(d, t) ==
    IF d.drain # "none" THEN d.drain
    ELSE IF d.cancelAt # Null THEN "cancel"
    ELSE IF d.timeoutAt <= t THEN "timeout" ELSE "none"

\* Mutant: trusts the scan for the lease's expiry.
QueueMaintenanceAction_NoExpiryCheck(d, t) ==
    IF IsTerminalJobStatus(d.status) THEN "none"
    ELSE IF QueueStopCause(d, t) # "none" THEN QueueStopCause(d, t)
    ELSE IF d.status = "retry_wait" /\ d.availableAt <= t THEN "promote_retry"
    ELSE IF d.status \in LeasedStatuses
         THEN IF d.attempt >= MaxAttempts THEN "dead_letter" ELSE "recover_lease"
    ELSE "none"

QueueMaintenanceAction(d, t) ==
    IF IsTerminalJobStatus(d.status) THEN "none"
    ELSE IF QueueStopCause(d, t) # "none" THEN QueueStopCause(d, t)
    ELSE IF d.status = "retry_wait" /\ d.availableAt <= t THEN "promote_retry"
    ELSE IF d.status \in LeasedStatuses /\ d.lease # Null /\ d.lease <= t
         THEN IF d.attempt >= MaxAttempts THEN "dead_letter" ELSE "recover_lease"
    ELSE "none"

\* What the run does with its budget: a pending question is a blocked operation
\* of the root agent.
TaskClockPhase(d) ==
    IF d.run \in TerminalRunStates THEN "terminal"
    ELSE IF \E q \in Questions : d.question[q] = "pending" THEN "waiting"
    ELSE IF d.run = "queued" THEN "queued" ELSE "active"

\* The budget left at t of a clock whose last refresh left row d.  While it runs,
\* the deadline holds it (and d.left is 0); while it is paused, d.left does.
LeftAt(d, t) == IF TaskClockPhase(d) = "active" THEN d.timeoutAt - t ELSE d.left

\* Mutant: only a queued run's clock is stopped.
DeadlineAt_WaitingRuns(left, phase, t) ==
    IF Budget = 0 \/ (left > 0 /\ phase = "queued") THEN Never ELSE t + left

DeadlineAt(left, phase, t) ==
    IF Budget = 0 \/ (left > 0 /\ phase \in {"waiting", "queued"})
    THEN Never ELSE t + left

\* Mutant: the elapsed time is charged by the new phase.
RefreshTaskClock_NewPhase(j, d0, d, t) ==
    IF j \notin Clocked \/ TaskClockPhase(d) = "terminal" THEN d
    ELSE LET left == LeftAt(d, t)
             phase == TaskClockPhase(d)
         IN [d EXCEPT !.timeoutAt = DeadlineAt(left, phase, t),
                      !.left = IF phase = "active" THEN 0 ELSE left]

\* refreshTaskClock: d is the row as the transaction has written it so far, d0
\* the row of the last refresh.
RefreshTaskClock(j, d0, d, t) ==
    IF j \notin Clocked \/ TaskClockPhase(d) = "terminal" THEN d
    ELSE LET left == LeftAt(d0, t)
             phase == TaskClockPhase(d)
         IN [d EXCEPT !.timeoutAt = DeadlineAt(left, phase, t),
                      !.left = IF phase = "active" THEN 0 ELSE left]

\* The row a leased or maintenance transaction works on: root and clock locked,
\* clock refreshed, job locked.
Opened(j) == RefreshTaskClock(j, row[j], row[j], now)

\* appendEvent.  Its conflict on an earlier terminal event is left out:
\* NothingAfterTheEnd shows that no caller reaches it.
AppendEventOf(d, type, attempt) ==
    [d EXCEPT !.events = Append(@, [type |-> type, attempt |-> attempt])]

AppendEvent(d, type) == AppendEventOf(d, type, d.attempt)

\* Mutant: the deadline stays on the row.
ClearLease_TokenOnly(d) == [d EXCEPT !.token = Null]

ClearLease(d) == [d EXCEPT !.token = Null, !.lease = Null]

RunStateOf(status) == IF status = "dead_letter" THEN "failed" ELSE status

\* Mutant: an event type made from the job status.
TerminalEventOf_JobStatus(status) ==
    CASE status = "succeeded"   -> "run.succeeded"
      [] status = "canceled"    -> "run.canceled"
      [] status = "dead_letter" -> "run.dead_letter"
      [] OTHER                  -> "run.failed"

TerminalEventOf(status) ==
    CASE status = "succeeded" -> "run.succeeded"
      [] status = "canceled"  -> "run.canceled"
      [] OTHER                -> "run.failed"

ClosePending(qs) ==
    [q \in Questions |-> IF qs[q] = "pending" THEN "closed" ELSE qs[q]]

TransitionTerminal(d, status) ==
    AppendEvent([ClearLease(d) EXCEPT !.status = status,
                                      !.run = RunStateOf(status),
                                      !.question = ClosePending(@)],
                TerminalEventOf(status))

TransitionStoppedJob(d, cause) ==
    TransitionTerminal(d, IF cause = "cancel" /\ ~d.revoked THEN "canceled"
                                                            ELSE "failed")

\* cancelRuntimeRootTransaction: the first reason stays.
CancelRuntimeRoot(d, reason) ==
    [d EXCEPT !.root = IF @ = "open" THEN reason ELSE @]

\* Only a running job inside its lease has work to drain.
CanDrain(d, t) == d.status = "running" /\ d.token # Null /\ d.lease > t

\* The row freezeJobReceiptDrain writes; cancelAt is the caller's copy of the
\* request time, which anchors the window of a cancellation.
FreezeJobReceiptDrain(d, cause, cancelAt, t, renew) ==
    IF ~CanDrain(d, t) THEN d
    ELSE LET frozen == IF d.drain # "none" THEN d.drain ELSE cause
             anchor == IF frozen = "cancel"
                       THEN (IF cancelAt # Null THEN cancelAt ELSE t)
                       ELSE d.timeoutAt
             deadline == IF d.drain # "none" THEN d.drainDeadline
                                             ELSE anchor + DrainMs
         IN [d EXCEPT !.drain = frozen, !.drainDeadline = deadline,
                      !.cancelAt = IF @ = Null THEN t ELSE @,
                      !.lease = MinOf(deadline, IF renew THEN t + LeaseMs ELSE @)]

\* Its result: the drain window is open.
DrainOpen(d, frozenRow, t) ==
    CanDrain(d, t) /\ frozenRow.drainDeadline > t /\ frozenRow.lease > t

RetainStopReceiptLease(d, cause, cancelAt, t, renew) ==
    CancelRuntimeRoot(FreezeJobReceiptDrain(d, cause, cancelAt, t, renew),
        IF (IF d.drain # "none" THEN d.drain ELSE cause) = "timeout"
        THEN "budget_exhausted" ELSE "user_request")

StopJobOrDrain(d, cause, t, renew) ==
    LET kept == RetainStopReceiptLease(d, cause, d.cancelAt, t, renew)
    IN IF DrainOpen(d, kept, t) THEN kept ELSE TransitionStoppedJob(kept, cause)

\* Mutant: a second request moves the time of the first.
RequestCancellation_Latest(d, h) ==
    LET cut == [CancelRuntimeRoot(d, "user_request") EXCEPT !.cancelAt = now]
        cause == IF QueueStopCause(d, Local(h)) = "none" THEN "cancel"
                 ELSE QueueStopCause(d, Local(h))
    IN RetainStopReceiptLease(cut, cause, Local(h), now, FALSE)

\* requestCancellationTransaction on a live job: root cut, request recorded on
\* the database clock, drain frozen with the host's clock as its anchor.
RequestCancellation(d, h) ==
    LET cut == [CancelRuntimeRoot(d, "user_request") EXCEPT
                    !.cancelAt = IF @ = Null THEN now ELSE @]
        cause == IF QueueStopCause(d, Local(h)) = "none" THEN "cancel"
                 ELSE QueueStopCause(d, Local(h))
    IN RetainStopReceiptLease(cut, cause,
           IF d.cancelAt # Null THEN d.cancelAt ELSE Local(h), now, FALSE)

-----------------------------------------------------------------------------
(* Lease checks.                                                            *)

\* lockedLeasedJob's condition on the row it locked, on the caller's clock.
HoldsLease(d, a, status, t) ==
    /\ d.status = status /\ d.token = a /\ d.lease > t
    /\ ~(d.drain # "none" /\ d.drainDeadline <= t)

\* Mutant: no check at commit.
LockedLeaseCurrent_Unchecked(d, t) == d.lease # Null

\* assertLockedLeaseCurrent: the lease as locked, on the database clock at commit.
LockedLeaseCurrent(d, t) ==
    /\ d.lease # Null /\ d.lease > t
    /\ ~(d.drain # "none" /\ d.drainDeadline <= t)

\* lockOwner (task-native-wait.ts): database clock, and no stop requested.
IsOwner(d, a, t) ==
    /\ d.status = "running" /\ d.token = a /\ d.lease > t /\ d.cancelAt = Null

Clock(j, a) == Local(runner[j][a].worker)

\* Commit row d for job j at t.
Commit(j, d, t) == row' = [row EXCEPT ![j] = d] /\ now' = t

Goto(j, a, pc) == runner' = [runner EXCEPT ![j][a].pc = pc]

\* A runner that returned or died leaves nothing behind in memory.
Gone == [worker |-> Web, pc |-> "done", aborted |-> FALSE]

Returns(j, a) == runner' = [runner EXCEPT ![j][a] = Gone]

-----------------------------------------------------------------------------
(* Web operations.                                                          *)

\* enqueueRunInTransaction, after its idempotency check found no earlier run; the
\* submission asks for no delay.
EnqueueRun(j) ==
    /\ row[j].status = "absent"
    /\ Commit(j, AppendEvent([row[j] EXCEPT
                     !.status = "queued", !.run = "queued", !.availableAt = Local(Web),
                     !.timeoutAt = IF j \in Clocked \/ Budget = 0 THEN Never
                                   ELSE Local(Web) + Budget,
                     !.left = IF j \in Clocked THEN Budget ELSE 0],
                   "run.created"), now)
    /\ UNCHANGED <<runner, scanned>>

\* cancelRun / requestEmployeeAccessCancellationTransaction: a job that is over
\* stays as it is, its root is cut all the same.  (A user's cancel of one that
\* ended otherwise is refused as a whole; the platform's, ignoreTerminal, is not.)
CancelRun(j) ==
    /\ row[j].status # "absent"
    /\ \/ /\ IsTerminalJobStatus(row[j].status)
          /\ Commit(j, CancelRuntimeRoot(row[j], "user_request"), now)
       \/ /\ ~IsTerminalJobStatus(row[j].status)
          /\ Commit(j, RequestCancellation(row[j], Web), now)
    /\ UNCHANGED <<runner, scanned>>

\* The same with revokeCompletedReview: a succeeded review keeps its history and
\* carries the revocation mark.
RevokeCompletedReview(j) ==
    /\ row[j].status = "succeeded"
    /\ Commit(j, [CancelRuntimeRoot(row[j], "user_request") EXCEPT
                     !.cancelAt = IF @ = Null THEN now ELSE @], now)
    /\ UNCHANGED <<runner, scanned>>

\* updateExperiencePolicy stops dispatched batches by the request alone.
CancelByPolicyChange(j) ==
    /\ row[j].status \in LiveJobStatuses
    /\ Commit(j, [row[j] EXCEPT !.cancelAt = IF @ = Null THEN now ELSE @], now)
    /\ UNCHANGED <<runner, scanned>>

-----------------------------------------------------------------------------
(* Claiming and starting.                                                   *)

\* Mutant: a canceled job may be claimed.
ClaimNextJob_Canceled(w, j) ==
    LET d == row[j]  a == d.attempt + 1 IN
    /\ d.status = "queued" /\ d.availableAt <= now /\ a <= MaxClaims
    /\ \E t \in CommitTimes :
         /\ d.timeoutAt > t /\ InHorizon(t + LeaseMs)
         /\ Commit(j, [d EXCEPT !.status = "claimed", !.attempt = a,
                                !.token = a, !.lease = t + LeaseMs], t)
    /\ runner' = [runner EXCEPT ![j][a] =
                    [worker |-> w, pc |-> "starting", aborted |-> FALSE]]
    /\ UNCHANGED scanned

\* claimNextJob: the scan reads the clock once, the claim again.
ClaimNextJob(w, j) ==
    LET d == row[j]  a == d.attempt + 1 IN
    /\ d.status = "queued" /\ d.cancelAt = Null
    /\ d.availableAt <= now /\ d.timeoutAt > now
    /\ a <= MaxClaims
    /\ \E t \in CommitTimes :
         /\ d.timeoutAt > t /\ InHorizon(t + LeaseMs)
         /\ Commit(j, [d EXCEPT !.status = "claimed", !.attempt = a,
                                !.token = a, !.lease = t + LeaseMs], t)
    /\ runner' = [runner EXCEPT ![j][a] =
                    [worker |-> w, pc |-> "starting", aborted |-> FALSE]]
    /\ UNCHANGED scanned

\* The row startClaimedJob writes when it admits the handler: questions of an
\* earlier owner are closed unless a ready wait carries them over.
Running(j, d, t) ==
    LET open == [q \in Questions |->
                   IF d.question[q] = "pending" /\ d.wait[q] # "ready"
                   THEN "closed" ELSE d.question[q]]
    IN RefreshTaskClock(j, d,
         AppendEvent([d EXCEPT !.status = "running", !.run = "running",
                               !.question = IF j \in Clocked THEN open ELSE @],
                     "run.started"), t)

\* Mutant: a cancel request is left to the first heartbeat.
StartClaimedJob_IgnoresCancel(j, a) ==
    LET d == Opened(j) IN
    /\ runner[j][a].pc = "starting"
    /\ d.status = "claimed" /\ d.token = a /\ d.lease > now /\ d.timeoutAt > now
    /\ \E t \in CommitTimes :
         LockedLeaseCurrent(d, t) /\ Commit(j, Running(j, d, t), t)
    /\ Goto(j, a, "executing")
    /\ UNCHANGED scanned

\* startClaimedJob.  No fence guards the early exits: they end a claim whose row
\* is locked.  Current authority is an input: admission may be denied.
StartClaimedJob(j, a) ==
    LET d == Opened(j) IN
    /\ runner[j][a].pc = "starting"
    /\ d.status = "claimed" /\ d.token = a /\ d.lease > now
    /\ \/ /\ d.cancelAt # Null
          /\ Commit(j, TransitionTerminal(d, "canceled"), now)
          /\ Returns(j, a)
       \/ /\ d.cancelAt = Null /\ d.timeoutAt <= now
          /\ Commit(j, TransitionTerminal(d, "failed"), now)
          /\ Returns(j, a)
       \/ /\ d.cancelAt = Null /\ d.timeoutAt > now
          /\ \E denied \in {"failed", "dead_letter"} :
               Commit(j, TransitionTerminal(d, denied), now)
          /\ Returns(j, a)
       \/ /\ d.cancelAt = Null /\ d.timeoutAt > now
          /\ \E t \in CommitTimes :
               LockedLeaseCurrent(d, t) /\ Commit(j, Running(j, d, t), t)
          /\ Goto(j, a, "executing")
    /\ UNCHANGED scanned

\* failClaimedJobStart, after the admission transaction kept deadlocking.
FailClaimedJobStart(j, a) ==
    LET d == Opened(j)  cause == QueueStopCause(d, now) IN
    /\ runner[j][a].pc = "starting"
    /\ HoldsLease(d, a, "claimed", Clock(j, a))
    /\ \E t \in CommitTimes :
         /\ LockedLeaseCurrent(d, t)
         /\ Commit(j, IF cause # "none" THEN TransitionStoppedJob(d, cause)
                      ELSE TransitionTerminal(d, "failed"), t)
    /\ Returns(j, a)
    /\ UNCHANGED scanned

-----------------------------------------------------------------------------
(* The runner while its handler runs.                                       *)

Active(j, a) == runner[j][a].pc \in {"executing", "completing", "failing"}

\* What a heartbeat writes.  scheduled / authorized: the current authority of a
\* scheduled task and of a platform task.  Answers [row, active].
HeartbeatRow(d, h, scheduled, authorized) ==
    LET d1 == IF ~scheduled /\ d.cancelAt = Null
              THEN RequestCancellation(d, h) ELSE d
        cause == QueueStopCause(d1, Local(h))
        revoked == [d1 EXCEPT !.cancelAt = IF @ = Null THEN now ELSE @,
                              !.revoked = TRUE]
    IN IF cause # "none"
       THEN [row |-> StopJobOrDrain(d1, cause, now, TRUE), active |-> FALSE]
       ELSE IF ~authorized
       THEN [row |-> StopJobOrDrain(revoked, "cancel", now, TRUE), active |-> FALSE]
       ELSE [row |-> [d1 EXCEPT !.lease = Local(h) + LeaseMs], active |-> TRUE]

\* heartbeatJob: every branch commits only inside the lease as locked.  One may
\* still be in flight when the runner has given up joining it ("detached").
HeartbeatJob(j, a) ==
    LET d == Opened(j)  h == runner[j][a].worker IN
    /\ Active(j, a) \/ runner[j][a].pc \in {"cleanup", "detached"}
    /\ HoldsLease(d, a, "running", Clock(j, a))
    /\ InHorizon(now + LeaseMs) /\ InHorizon(Clock(j, a) + LeaseMs)
    /\ \E scheduled, authorized \in BOOLEAN, t \in CommitTimes :
         LET beat == HeartbeatRow(d, h, scheduled, authorized) IN
         /\ LockedLeaseCurrent(d, t)
         /\ Commit(j, beat.row, t)
         /\ IF runner[j][a].pc = "detached" THEN Returns(j, a)
            ELSE runner' = [runner EXCEPT ![j][a].aborted = @ \/ ~beat.active]
    /\ UNCHANGED scanned

\* A heartbeat that finds its lease gone, or fails for good, aborts the handler.
HeartbeatFails(j, a) ==
    /\ Active(j, a) /\ ~runner[j][a].aborted
    /\ runner' = [runner EXCEPT ![j][a].aborted = TRUE]
    /\ UNCHANGED <<now, row, scanned>>

\* Mutant: any live lease on the job will do.
AppendJobEvent_AnyToken(j, a) ==
    LET d == Opened(j) IN
    /\ Active(j, a)
    /\ HoldsLease(d, d.token, "running", Clock(j, a)) /\ Len(d.events) < MaxSteps
    /\ \E t \in CommitTimes :
         LockedLeaseCurrent(d, t) /\ Commit(j, AppendEventOf(d, "step", a), t)
    /\ UNCHANGED <<runner, scanned>>

\* Mutant: the lease is not looked at.
AppendJobEvent_Unfenced(j, a) ==
    /\ Active(j, a) /\ Len(row[j].events) <= MaxSteps
    /\ Commit(j, AppendEventOf(Opened(j), "step", a), now)
    /\ UNCHANGED <<runner, scanned>>

\* appendJobEvent, from the handler, the runner or the flush of its finally block,
\* and the question notices it records: a question asked is pending until it is
\* answered and never reopens.
AppendJobEvent(j, a) ==
    LET d == Opened(j) IN
    /\ Active(j, a) \/ runner[j][a].pc = "cleanup"
    /\ HoldsLease(d, a, "running", Clock(j, a))
    /\ Len(d.events) < MaxSteps
    /\ \E t \in CommitTimes :
         /\ LockedLeaseCurrent(d, t)
         /\ \/ Commit(j, AppendEventOf(d, "step", a), t)
            \/ /\ j \in Clocked
               /\ \E q \in Questions, notice \in {"pending", "closed"} :
                    LET asked == [d.question EXCEPT
                                   ![q] = IF @ = "closed" THEN @ ELSE notice]
                    IN Commit(j, RefreshTaskClock(j, d,
                               AppendEventOf([d EXCEPT !.question = asked],
                                             "step", a), t), t)
    /\ UNCHANGED <<runner, scanned>>

\* recordTaskProgress, decision "cancel" of a paused task: the root is cut and
\* the request recorded, the drain is left to the next heartbeat or scan.
CancelByProgress(j, a) ==
    LET d == Opened(j) IN
    /\ runner[j][a].pc = "executing"
    /\ IsOwner(d, a, now)
    /\ Commit(j, [CancelRuntimeRoot(d, "user_request") EXCEPT !.cancelAt = now], now)
    /\ UNCHANGED <<runner, scanned>>

\* parkNativeQuestion: the run waits for its user without a process or a lease.
\* At most one wait of a run is open.
ParkNativeQuestion(j, a, q) ==
    LET d == Opened(j) IN
    /\ runner[j][a].pc = "executing"
    /\ IsOwner(d, a, now) /\ d.question[q] = "pending"
    /\ \A p \in Questions : d.wait[p] \in {"none", "continued"}
    /\ d.wait[q] = "none"
    /\ \E t \in CommitTimes :
         Commit(j, RefreshTaskClock(j, d,
                     [ClearLease(d) EXCEPT !.status = "waiting_approval",
                        !.run = "waiting_approval", !.wait[q] = "parked"], t), t)
    /\ Goto(j, a, "cleanup")
    /\ UNCHANGED scanned

\* continueNativeQuestion: the resumed segment delivers the answer once.
ContinueNativeQuestion(j, a, q) ==
    LET d == Opened(j) IN
    /\ runner[j][a].pc = "executing"
    /\ IsOwner(d, a, now) /\ d.wait[q] = "ready"
    /\ \E t \in CommitTimes :
         Commit(j, RefreshTaskClock(j, d,
                     [d EXCEPT !.wait[q] = "continued",
                               !.question[q] = "closed"], t), t)
    /\ UNCHANGED <<runner, scanned>>

\* The handler returns a result or throws; an aborted one goes to cleanup.
HandlerReturns(j, a) ==
    /\ runner[j][a].pc = "executing"
    /\ IF runner[j][a].aborted THEN Goto(j, a, "cleanup")
       ELSE \E pc \in {"completing", "failing"} : Goto(j, a, pc)
    /\ UNCHANGED <<now, row, scanned>>

\* completeJob: a stop decides over the result, missing evidence fails the job.
CompleteJob(j, a) ==
    LET d == Opened(j)  cause == QueueStopCause(d, Clock(j, a)) IN
    /\ runner[j][a].pc = "completing"
    /\ HoldsLease(d, a, "running", Clock(j, a))
    /\ \E t \in CommitTimes :
         /\ LockedLeaseCurrent(d, t)
         /\ \/ cause # "none" /\ Commit(j, TransitionStoppedJob(d, cause), t)
            \/ /\ cause = "none"
               /\ \E outcome \in {"succeeded", "failed"} :
                    Commit(j, TransitionTerminal(d, outcome), t)
    /\ Goto(j, a, "cleanup")
    /\ UNCHANGED scanned

\* completeJob throws (a delivery guard, a database error): failJob is next
\* unless the handler was aborted meanwhile.  If failJob throws, nothing is.
SettlementThrows(j, a) ==
    /\ \/ /\ runner[j][a].pc = "completing"
          /\ Goto(j, a, IF runner[j][a].aborted THEN "cleanup" ELSE "failing")
       \/ runner[j][a].pc = "failing" /\ Goto(j, a, "cleanup")
    /\ UNCHANGED <<now, row, scanned>>

\* What failJob writes when nothing stopped the job.
FailedRow(j, d, retryable, h, t) ==
    IF retryable /\ d.attempt < MaxAttempts /\ d.timeoutAt > Local(h)
    THEN AppendEvent(RefreshTaskClock(j, d,
           [ClearLease(d) EXCEPT !.status = "retry_wait", !.run = "queued",
              !.availableAt = Local(h) + RetryDelayMs(d.attempt)], t),
           "run.retrying")
    ELSE TransitionTerminal(d, IF retryable /\ d.attempt >= MaxAttempts
                               THEN "dead_letter" ELSE "failed")

\* Mutant: a retryable failure is retried although a stop was requested.
FailJob_IgnoresStop(j, a) ==
    LET d == Opened(j)  h == runner[j][a].worker IN
    /\ runner[j][a].pc = "failing"
    /\ HoldsLease(d, a, "running", Local(h))
    /\ \E t \in CommitTimes, retryable \in BOOLEAN :
         /\ LockedLeaseCurrent(d, t)
         /\ Commit(j, FailedRow(j, d, retryable, h, t), t)
    /\ Goto(j, a, "cleanup")
    /\ UNCHANGED scanned

\* failJob: a stop decides over the failure.
FailJob(j, a) ==
    LET d == Opened(j)  h == runner[j][a].worker
        cause == QueueStopCause(d, Local(h)) IN
    /\ runner[j][a].pc = "failing"
    /\ HoldsLease(d, a, "running", Local(h))
    /\ \E t \in CommitTimes, retryable \in BOOLEAN :
         /\ LockedLeaseCurrent(d, t)
         /\ Commit(j, IF cause # "none" THEN TransitionStoppedJob(d, cause)
                      ELSE FailedRow(j, d, retryable, h, t), t)
    /\ Goto(j, a, "cleanup")
    /\ UNCHANGED scanned

\* Any leased call that finds its lease gone throws lease_lost; a start returns,
\* a running segment goes to its finally block.
LeaseLost(j, a) ==
    LET d == Opened(j) IN
    /\ \/ /\ runner[j][a].pc = "starting"
          /\ ~(d.status = "claimed" /\ d.token = a /\ d.lease > now)
          /\ Returns(j, a)
       \/ /\ Active(j, a)
          /\ ~(HoldsLease(d, a, "running", Clock(j, a)) /\ LockedLeaseCurrent(d, now))
          /\ Goto(j, a, "cleanup")
    /\ UNCHANGED <<now, row, scanned>>

-----------------------------------------------------------------------------
(* The runner's finally block, crashes and shutdown.                        *)

\* An unaborted runner returns; one whose heartbeat could not be joined in time
\* returns with it in flight and leaves the end to maintenance.
Cleanup(j, a) ==
    /\ runner[j][a].pc = "cleanup"
    /\ \/ ~runner[j][a].aborted /\ Returns(j, a)
       \/ Goto(j, a, "detached")
    /\ UNCHANGED <<now, row, scanned>>

\* finishJobDrain, called by an aborted runner after its flush.
FinishJobDrain(j, a) ==
    LET d == Opened(j)  cause == QueueStopCause(d, Clock(j, a)) IN
    /\ runner[j][a].pc = "cleanup" /\ runner[j][a].aborted
    /\ \/ /\ HoldsLease(d, a, "running", Clock(j, a)) /\ cause # "none"
          /\ \E t \in CommitTimes :
               /\ LockedLeaseCurrent(d, t)
               /\ Commit(j, TransitionStoppedJob(d, cause), t)
       \/ UNCHANGED <<now, row>>        \* nothing to finish, or the lease is gone
    /\ Returns(j, a)
    /\ UNCHANGED scanned

\* The process dies or is asked to stop: the runner returns, the row stays leased.
RunnerStops(j, a) ==
    /\ runner[j][a].pc \notin {"none", "done"}
    /\ Returns(j, a)
    /\ UNCHANGED <<now, row, scanned>>

-----------------------------------------------------------------------------
(* Maintenance and the clock.                                               *)

\* Mutant: the run keeps its state.
WakeNativeQuestionWaits_JobOnly(j, q) ==
    LET d == Opened(j) IN
    /\ d.status = "waiting_approval" /\ d.wait[q] = "parked"
    /\ Commit(j, RefreshTaskClock(j, d,
                   [d EXCEPT !.status = "queued", !.availableAt = now,
                             !.wait[q] = "ready"], now), now)
    /\ UNCHANGED <<runner, scanned>>

\* wakeNativeQuestionWaits: an accepted answer (an input) or a cancel request
\* makes a parked run claimable again.
WakeNativeQuestionWaits(j, q) ==
    LET d == Opened(j) IN
    /\ d.status = "waiting_approval" /\ d.wait[q] = "parked"
    /\ Commit(j, RefreshTaskClock(j, d,
                   [d EXCEPT !.status = "queued", !.run = "queued",
                             !.availableAt = now, !.wait[q] = "ready"], now), now)
    /\ UNCHANGED <<runner, scanned>>

\* Mutant: the scan leaves cancel requests to heartbeats.
MaintenanceDue_NoCancel(d, t) ==
    /\ d.status \in LiveJobStatuses
    /\ \/ d.status # "waiting_approval" /\ d.timeoutAt <= t
       \/ d.status = "retry_wait" /\ d.availableAt <= t
       \/ d.status \in LeasedStatuses /\ d.lease <= t

\* Mutant: a claim that never started is overlooked.
MaintenanceDue_RunningOnly(d, t) ==
    /\ d.status \in LiveJobStatuses
    /\ \/ d.cancelAt # Null
       \/ d.status # "waiting_approval" /\ d.timeoutAt <= t
       \/ d.status = "retry_wait" /\ d.availableAt <= t
       \/ d.status = "running" /\ d.lease <= t

\* maintainQueue's scan, on the clock and the rows of that instant.
MaintenanceDue(d, t) ==
    /\ d.status \in LiveJobStatuses
    /\ \/ d.cancelAt # Null
       \/ d.status # "waiting_approval" /\ d.timeoutAt <= t
       \/ d.status = "retry_wait" /\ d.availableAt <= t
       \/ d.status \in LeasedStatuses /\ d.lease <= t

ScanQueue(w, j) ==
    /\ <<w, j>> \notin scanned /\ MaintenanceDue(row[j], Local(w))
    /\ scanned' = scanned \cup {<<w, j>>}
    /\ UNCHANGED <<now, row, runner>>

\* A recovered job is available since the scan.
RecoverLease(j, d, scan) ==
    RefreshTaskClock(j, d,
      AppendEvent([ClearLease(d) EXCEPT !.status = "queued", !.run = "queued",
                     !.availableAt = scan], "lease.recovered"), now)

\* The row maintainQueue writes for a scanned job, decided on the row it locks.
MaintainedRow(j, d, t, scan) ==
    LET action == IF d.status \in LiveJobStatuses
                  THEN QueueMaintenanceAction(d, t) ELSE "none" IN
    CASE action \in {"cancel", "timeout"} -> StopJobOrDrain(d, action, now, FALSE)
      [] action = "promote_retry" -> [d EXCEPT !.status = "queued"]
      [] action = "dead_letter"   -> TransitionTerminal(d, "dead_letter")
      [] action = "recover_lease" -> RecoverLease(j, d, scan)
      [] OTHER                    -> d

\* The clock the scan read is not kept: one value stands for every time up to now,
\* since a job available then is available.
MaintainQueue(w, j) ==
    /\ <<w, j>> \in scanned
    /\ \E scan \in MinOf(now, Local(w))..Local(w) :
         Commit(j, MaintainedRow(j, Opened(j), Local(w), scan), now)
    /\ scanned' = scanned \ {<<w, j>>}
    /\ UNCHANGED runner

Tick ==
    /\ now < Horizon /\ now' = now + 1
    /\ UNCHANGED <<row, runner, scanned>>

-----------------------------------------------------------------------------

Init ==
    /\ now = MaxSkew          \* so that no host's clock is before its origin
    /\ row = [j \in Jobs |-> EmptyRow]
    /\ runner = [j \in Jobs |-> [a \in Attempts |->
                    [worker |-> Web, pc |-> "none", aborted |-> FALSE]]]
    /\ scanned = {}

WebStep(j) ==
    EnqueueRun(j) \/ CancelRun(j) \/ RevokeCompletedReview(j) \/ CancelByPolicyChange(j)

RunnerStep(j, a) ==
    \/ StartClaimedJob(j, a) \/ FailClaimedJobStart(j, a)
    \/ HeartbeatJob(j, a) \/ HeartbeatFails(j, a) \/ AppendJobEvent(j, a)
    \/ CancelByProgress(j, a) \/ HandlerReturns(j, a)
    \/ CompleteJob(j, a) \/ SettlementThrows(j, a) \/ FailJob(j, a)
    \/ LeaseLost(j, a) \/ Cleanup(j, a) \/ FinishJobDrain(j, a) \/ RunnerStops(j, a)
    \/ \E q \in Questions : ParkNativeQuestion(j, a, q) \/ ContinueNativeQuestion(j, a, q)

MaintenanceStep(j) ==
    \/ \E w \in Workers : ScanQueue(w, j) \/ MaintainQueue(w, j)
    \/ \E q \in Questions : WakeNativeQuestionWaits(j, q)

Next ==
    \/ Tick
    \/ \E j \in Jobs :
         \/ WebStep(j) \/ MaintenanceStep(j)
         \/ \E w \in Workers : ClaimNextJob(w, j)
         \/ \E a \in Attempts : RunnerStep(j, a)

Spec == Init /\ [][Next]_vars

\* Every process and user may stop at any moment; the clock runs, and some worker
\* keeps polling: its tick runs maintainQueue before it claims.
Fairness ==
    /\ WF_vars(Tick)
    /\ \A j \in Jobs :
         /\ WF_vars(\E w \in Workers : ScanQueue(w, j))
         /\ WF_vars(\E w \in Workers : MaintainQueue(w, j))

FairSpec == Spec /\ Fairness

-----------------------------------------------------------------------------
(* Safety.                                                                  *)

TypeOK ==
    /\ now \in Nat
    /\ row \in [Jobs -> Rows]
    /\ runner \in [Jobs -> [Attempts -> Runners]]
    /\ scanned \subseteq Workers \X Jobs

\* A claimed or running job, and no other, carries a lease token and a deadline,
\* and the token is the newest claim's: no path hands a job back to an earlier
\* claim or leaves a lease on a job that is queued, parked or over.
LeaseMatchesStatus ==
    \A j \in Jobs :
        LET d == row[j] IN
        IF d.status \in LeasedStatuses
        THEN d.token = d.attempt /\ d.lease # Null
        ELSE d.token = Null /\ d.lease = Null

\* The run the user sees and the job the workers see never disagree.
RunMatchesJob ==
    \A j \in Jobs :
        row[j].run = CASE row[j].status \in {"claimed", "retry_wait"} -> "queued"
                       [] row[j].status = "dead_letter" -> "failed"
                       [] OTHER -> row[j].status

\* A run is over exactly when its last event says so, with the run's outcome, and
\* no earlier event is terminal: appendEvent's conflict is never reached, and no
\* runner, however late, writes after the end.
NothingAfterTheEnd ==
    \A j \in Jobs :
        LET d == row[j]  n == Len(d.events) IN
        /\ \A i \in 1..n : d.events[i].type \in TerminalEventTypes => i = n
        /\ IF d.status \in TerminalJobStatuses
           THEN n > 0 /\ d.events[n].type = TerminalEventOf(d.status)
           ELSE n > 0 => d.events[n].type \notin TerminalEventTypes

\* The log is fenced by attempt: attempts never decrease along it, one attempt
\* starts at most once, and nothing a worker wrote for an attempt follows that
\* attempt's retry or its lease recovery.
LogFencedByAttempt ==
    \A j \in Jobs :
        LET e == row[j].events IN
        \A i, k \in 1..Len(e) :
            i < k =>
              /\ e[i].attempt <= e[k].attempt
              /\ e[k].type = "run.started" => e[i].attempt < e[k].attempt
              /\ e[k].type = "step" /\ e[i].type \in {"run.retrying", "lease.recovered"}
                   => e[i].attempt < e[k].attempt

\* The first stop a running job meets decides its end, whatever is requested or
\* reported later; while it drains, its lease stays inside the frozen window.
FirstStopDecides ==
    \A j \in Jobs :
        LET d == row[j] IN
        /\ d.drain # "none" =>
             /\ d.cancelAt # Null /\ d.root # "open"
             /\ d.status \in {"running",
                   IF d.drain = "cancel" /\ ~d.revoked THEN "canceled" ELSE "failed"}
        /\ d.drain # "none" /\ d.status = "running" => d.lease <= d.drainDeadline

\* A parked run can always be taken up again: it holds a parked wait whose
\* question is still pending, the only open wait of the run, and with budget left
\* it has no deadline however long the user takes.
ParkedIsAnswerable ==
    \A j \in Jobs :
        LET d == row[j]
            open == {q \in Questions : d.wait[q] \in {"parked", "ready"}} IN
        /\ Cardinality(open) <= 1
        /\ d.status = "waiting_approval" =>
             /\ \E q \in Questions : d.wait[q] = "parked" /\ d.question[q] = "pending"
             /\ d.left > 0 => d.timeoutAt = Never

-----------------------------------------------------------------------------
(* Action properties.                                                       *)

\* A live lease is renewed only by a transaction that commits inside it; an
\* expired one is never revived.
LeaseNeverRevived ==
    [][\A j \in Jobs :
         /\ row[j].token # Null /\ row'[j].token = row[j].token
         /\ row'[j].lease > row[j].lease
         => now' < row[j].lease]_vars

\* Once a stop is requested, the job only goes on draining, or ends as canceled or
\* failed; a parked one is first made claimable, and nothing claims it.
StopIsFinal ==
    [][\A j \in Jobs :
         row[j].cancelAt # Null =>
           \/ row'[j].status = row[j].status
           \/ row'[j].status \in {"canceled", "failed"}
           \/ row[j].status = "waiting_approval" /\ row'[j].status = "queued"]_vars

\* What is frozen stays: the stop cause and window, the time of the request, the
\* root's cut, and everything of a job that is over but its revocation mark.
FrozenStays ==
    [][\A j \in Jobs :
         LET d == row[j]  e == row'[j] IN
         /\ d.drain # "none" => e.drain = d.drain /\ e.drainDeadline = d.drainDeadline
         /\ d.cancelAt # Null => e.cancelAt = d.cancelAt
         /\ d.root # "open" => e.root = d.root
         /\ d.status \in TerminalJobStatuses =>
              e = [d EXCEPT !.cancelAt = e.cancelAt, !.root = e.root]]_vars

\* The task clock charges exactly the time the run is active: queueing, waiting for
\* the user, parking, retrying and resuming neither spend budget nor give it back.
OnlyActiveTimeIsCharged ==
    [][\A j \in Clocked :
         LET d == row[j]  e == row'[j] IN
         Budget > 0 /\ d.status # "absent" /\ e.status \notin TerminalJobStatuses =>
           LeftAt(e, now') = LeftAt(d, now)
              - (IF TaskClockPhase(d) = "active" THEN now' - now ELSE 0)]_vars

\* Nobody takes a live, unstopped lease away, not even a maintenance pass that
\* acts on a stale scan: while it is live on every host's clock, only a step of
\* its own runner gives it up.
LiveLeaseIsHeld ==
    [][\A j \in Jobs :
         LET d == row[j] IN
         /\ d.status \in LeasedStatuses /\ d.lease > now + MaxSkew
         /\ d.timeoutAt > now + MaxSkew /\ d.cancelAt = Null
         /\ row'[j].token # d.token
         => runner'[j][d.token] # runner[j][d.token]]_vars

-----------------------------------------------------------------------------
(* Liveness, under FairSpec.                                                *)

\* A requested stop ends the run, whether or not any handler cooperates.
StopSettles ==
    \A j \in Jobs :
        (row[j].status # "absent" /\ row[j].cancelAt # Null)
            ~> row[j].status \in TerminalJobStatuses

\* A claim whose runner is gone does not keep its job.
OrphanIsRecovered ==
    \A j \in Jobs : \A a \in Attempts :
        (row[j].token = a /\ runner[j][a].pc = "done") ~> row[j].token # a

-----------------------------------------------------------------------------
(* The queue implements what it promises the user of a run.                 *)

\* The outcome the last event of the log announces.
Verdict(d) ==
    LET last == d.events[Len(d.events)].type IN
    IF d.events = << >> THEN "none"
    ELSE CASE last = "run.succeeded" -> "succeeded"
           [] last = "run.failed"    -> "failed"
           [] last = "run.canceled"  -> "canceled"
           [] OTHER                  -> "none"

Lifecycle == INSTANCE RunLifecycle WITH
    Runs    <- Jobs,
    state   <- [j \in Jobs |-> row[j].run],
    stop    <- [j \in Jobs |-> row[j].cancelAt # Null],
    verdict <- [j \in Jobs |-> Verdict(row[j])]

\* Every behaviour of the queue, seen through the run, its cancel request and its
\* last event, is one the lifecycle allows.
ImplementsRunLifecycle == Lifecycle!Spec

=============================================================================
