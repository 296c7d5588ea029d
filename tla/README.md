# A TLA+ development of the AllRice execution plane

AllRice runs work of AI "employees" for the users of a company. A request in the
browser becomes a *run* with one *job*; worker processes claim jobs from
PostgreSQL, execute them through a native harness, and record what happens in the
run's event log. This directory models that execution plane in TLA+, checks the
model with TLC on small instances and proves its central invariants with TLAPS
for every instance. Four parts are modelled: the persistent job queue with its
runner; the retry of lease transactions; the operations a run carries out on the
user's computer (ledger, device journal and the link between them); and the
conversation runtime, which decides whose turn it is in a chat.

Paths below are relative to the repository.

## 1. Inventory

| Component | State it keeps | Operations | Interacts with | What is hard |
|---|---|---|---|---|
| **Job queue** (`packages/database/src/execution/queue.ts`, `queue/`) | rows of `allrice_jobs`, `allrice_runs`, `allrice_run_events`: status, attempt, lease (worker, token, expiry), cancel request, receipt drain (cause, deadline), deadline | enqueue, cancel, claim, start, heartbeat, append event, complete, fail, finish drain, maintain | web (enqueue, cancel), worker (the rest), task clock, runtime root | zombie runners, stale scans, stops racing results, leases that end during a transaction, host clocks against the database clock |
| **Claimed-job runner** (`apps/worker/src/job-runner.ts`) | in memory: phase, abort signal, heartbeat in flight | one segment of a run, with a heartbeat timer beside it | queue, handler | crash at any point, a heartbeat that outlives its runner, abort racing completion |
| **Task clock** (`task-clock.ts`) | `allrice_task_clocks`: active and waiting time, phase | refresh (inside other transactions), record question | queue, ledger, progress guard | charging exactly the active time across phases |
| **Native question waits and dispatch ledger** (`task-native-wait.ts`) | `allrice_native_question_waits`, `allrice_native_task_dispatches` | park, wake, continue; begin and complete a native task | queue, clock, conversation | a run without process or lease that must stay answerable; at most one dispatch of a prompt across crashes |
| **Conversation runtime** (`conversation/`) | `allrice_conversation_runtimes`, follow-ups, commands | acquire, bind, record turn, release; queue follow-ups, steer | queue, harness | one owner per session, order of follow-ups, steers that arrive late |
| **Runtime operation ledger** (`runtime-ledger/ledger.ts`) | roots, operations, approvals, receipts | create, approve, dispatch, receive receipts, cancel | queue (root cut), bridge, cloud | cancellation against receipts in flight, unknown outcomes |
| **Rice Bridge** (`apps/rice-bridge`) | the device's durable journal | receive, begin, outcome, stopped, uncertain, acknowledge | ledger over the network | crash between effect and record, duplicated and lost messages |
| **Schedules and automations** (`native-schedule-*`, `execution/automation.ts`) | occurrences, calendars | reserve, dispatch, recover | queue | one run per occurrence, authority revoked meanwhile |
| **Lease lock retry** (`queue/lease-lock-retry.ts`) | none (attempts of one call) | retry a rolled-back lease transaction | queue | splitting what is left of a lease |
| **Worker poll loop** (`apps/worker/src/index.ts`) | active executions, stop flag | tick: maintain, then claim | queue | one failing row, shutdown |
| **Cloud / local execution** | sandbox operations | dispatch, settle | ledger | as the ledger |
| Authority, tenants, employees, tool broker, providers, web, libraries | policy data, credentials, files | mostly single transactions, I/O, rendering | all | little protocol state of their own |

What makes each correct, in a sentence:

* **queue**: one owner at a time; a lost owner writes nothing; the first stop
  decides; a run ends once, and its log says how; what was asked to stop stops;
* **clock**: exactly the active time is charged, and waiting costs nothing;
* **waits**: a parked run can be taken up again, once;
* **dispatch ledger**: where it is kept, a prompt reaches the harness at most once;
* **conversation**: one run owns the session, follow-ups run in order;
* **ledger and bridge**: an operation takes effect at most once, its outcome is
  recorded or honestly unknown, nothing is dispatched after the cut;
* **schedules**: one run per occurrence.

The hazards this list comes from, with their lines and the properties that cover
them, are in `PROJECT.json`.

## 2. Plan

Order: the behaviour the others depend on first.

| # | Module | Content | State |
|---|---|---|---|
| 1 | `JobQueue` | queue, runner, clock phases, question waits, maintenance | done |
| 2 | `RunLifecycle` | what the queue promises the user of a run; `JobQueue` implements it | done |
| 3 | `JobQueueProofs` | inductive invariant; type, lease, run and stop theorems | done |
| 3a | `JobQueueStepProofs`, `JobQueueHistoryProofs` | the ways a step writes a row; theorems of the log, parking, stops, budget, held leases; the refinement of `RunLifecycle` | done |
| 4 | `RuntimeOperation`, `OperationLedger` | the operation contract; the server's ledger of operations, reservations and receipts | done |
| 5 | `BridgeJournal`, `BridgeOperations` | device journal, client, unreliable link, crashes and pauses; composes the ledger and the journal | done |
| 6 | `OperationPromise` | at most one effect, truthful verdicts; `BridgeOperations` implements it | done |
| 6a | `OperationLedgerProofs`, `BridgeProofs` | inductive invariants of the ledger and of device, link and ledger together; their theorems and the refinement of `OperationPromise` | done |
| 7 | `ConversationStore`, `Conversation` | runtime ownership, follow-ups, steers, questions, and the native dispatch ledger, composed with the queue's claims, retries and crashes | done |
| 7a | `ConversationStoreProofs`, `ConversationProofs` | what every transaction keeps of the session's rows; the inductive invariant and the theorems of the conversation | done |
| 8 | `LeaseLockRetry`, `LeaseLockRetryProofs` | the retry loop against its lease, and its theorems | done |
| 9 | `TaskClock` | all phase inputs (operations, resource waits, paused progress, authorization deadline); refines the queue's view of the clock | planned |
| 10 | `NativeSchedule` | occurrences | planned |

Every invariant, action property and refinement that a passing run checks is now
a theorem as well (section 8). The theorems still worth having belong to the
planned modules: that `TaskClock` implements the queue's view of the clock, and
one run per occurrence of `NativeSchedule`.

## 3. The job queue model

### State

`row[j]` is everything the database keeps for one run: the job (`status`,
`attempt`, `token`, `lease`, `availableAt`, `timeoutAt`, `cancelAt`, `revoked`,
`drain`, `drainDeadline`), its run (`run`), the task clock (`left`, the budget
left while the clock is paused), the task's questions and question waits
(`question`, `wait`), the runtime root's cut (`root`) and the event log
(`events`). `runner[j][a]` is the in-memory runner made by claim `a`: its worker,
where it is in `runClaimedJob` (`pc`), and its abort signal. `scanned` holds the
candidates a worker's maintenance scan has picked and not processed. `now` is
the database clock.

A lease token is a fresh UUID per claim, and a claim is also what increments the
attempt. So the attempt number stands for the token, and `runner[j][1]` may well
be alive, a zombie, while `runner[j][2]` holds the lease.

### Atomicity and clocks

Every transaction locks the runtime root, the clock and the job row before it
reads them, and PostgreSQL serializes it there; it is one action. It decides at
`now` on the row it locked and commits at some `t` up to `MaxLag` later, so a
lease can end in between: that is what `assertLockedLeaseCurrent` is for. Calls
that the code makes without a lock are separate actions: the scan of
`maintainQueue` (`ScanQueue`) and its per-row transactions (`MaintainQueue`), the
claim and the start, the handler's return and `completeJob`.

Where the code reads `clock_timestamp()` the model reads `now`; where it reads
`new Date()` it reads `Local(h) = now + Skew[h]` of the host that runs it.

### Actions and code

| Action | Code |
|---|---|
| `EnqueueRun` | `enqueueRunInTransaction`, after its idempotency check |
| `CancelRun`, `RevokeCompletedReview` | `requestCancellationTransaction`, from `cancelRun` and from `requestEmployeeAccessCancellationTransaction` (whose `ignoreTerminal` cuts the root of a job that is over and leaves the job) |
| `CancelByPolicyChange` | the bare cancel request of `updateExperiencePolicy` |
| `CancelByProgress` | decision "cancel" in `task-progress.ts` |
| `ClaimNextJob` | `claimNextJob` |
| `StartClaimedJob`, `FailClaimedJobStart` | the same functions, called from `runClaimedJob` |
| `HeartbeatJob`, `HeartbeatFails` | `heartbeatJob` and the runner's timer |
| `AppendJobEvent` | `appendJobEvent`, with the question notices it records, also from the flush of the finally block |
| `ParkNativeQuestion`, `ContinueNativeQuestion`, `WakeNativeQuestionWaits` | `task-native-wait.ts` |
| `HandlerReturns`, `SettlementThrows`, `LeaseLost`, `Cleanup` | the control flow of `runClaimedJob` |
| `CompleteJob`, `FailJob`, `FinishJobDrain` | the same functions |
| `RunnerStops` | the process dies, or returns because it is stopping |
| `ScanQueue`, `MaintainQueue` | `maintainQueue` |
| `Tick` | time |

The pure parts keep their names: `QueueStopCause`, `QueueMaintenanceAction`,
`TaskClockPhase`, `RefreshTaskClock`, `FreezeJobReceiptDrain`,
`RetainStopReceiptLease`, `StopJobOrDrain`, `TransitionTerminal`.

### What is abstracted

* Authority, policy and evidence checks are inputs: a start may be denied, a
  heartbeat may find the schedule or the platform grant revoked, a completion may
  lack evidence, a handler may return, throw or never end.
* All events a handler appends are `step`; payloads, results, error texts and
  audits are left out, and so are the projections of a transition on messages,
  employee runs, conversations and browser tasks.
* `appendEvent` throws if the log already has a terminal event. The model appends
  anyway, and `NothingAfterTheEnd` shows the check is never needed by a caller.
* The task clock keeps the budget *left* instead of the active time; a pending
  question is the one reason to wait. Jobs outside `Clocked` have a fixed
  deadline.
* A submission asks for no delay. One job at a time is looked at by a claim:
  priority, tenant fairness and the background slot decide *which* job is
  claimed, never whether a claim is legal.

### `RunLifecycle`

The promise to the user of a run, with no worker, lease or clock: it is queued,
executes, may go back or wait, and gets one verdict together with its final
state; after a stop is recorded it starts no further segment and cannot succeed;
it is reported canceled only if a stop was recorded. `ImplementsRunLifecycle`
maps the run's state, its cancel request and the last event of its log onto it.

## 4. The operation models

A run that works on the user's computer creates *operations* (a file, a changeset
of several files, a process, a PDF reading, an MCP call) in a ledger on the
server. Rice Bridge, an agent on the device, polls for them, journals what it is
about to do, asks for permission, acts, and reports receipts until the server
acknowledges them.

* `RuntimeOperation` is the contract both sides share
  (`packages/contracts/src/runtime-v2/operations.ts`): statuses, signals, the
  transition table and `advanceRuntimeOperation` (`Advance`).
* `OperationLedger` (`runtime-ledger/ledger.ts`): operation rows with lease and
  reservation, the root, its budget and the stored receipts. Every transaction
  holds the root's row lock, so each is one action: `CreateOperation`, `Dispatch`
  and the recovery of a dispatch, `StartOperation`, `RecordReceipt` (which stores
  a rejected signal as a conflict), cancellation of the root or of an agent,
  lease expiry, settlement and overdraft. A lease is `none`, `live` or `expired`:
  only the order of its expiry and the transactions matters.
* `BridgeJournal` (`apps/rice-bridge/src/journal.ts`): entries, changeset
  checkpoints and the outbox, and what opening the journal after a crash makes of
  them (`AfterRestart`, `RestartSignal`).
* `BridgeOperations` composes the two with the client
  (`operation-client.ts`, `changeset-executor.ts`): flush, claim, journal, start,
  execute, report. `done[o][i]` counts what really happened on the disk. A
  request may be lost, be served without the client hearing of it, or be served
  after the client gave up; the device may crash between any two steps and
  restarts from its journal; the user may pause it.
* `OperationPromise` states what the user is promised: an operation acts only
  after one permission, each effect happens at most once, a verdict is true and
  final, and doubt is allowed. `KeepsThePromise` maps the ledger's status, the
  start permission and `done` onto it.

Admission (policy, grants, approvals) may refuse any request. One budget row and
one attempt per operation are modelled. `Metrics` says what the row may count: time
and bytes are a *resource*, which admission and settlement hold to its capacity;
tokens, calls and cost are *telemetry* (`isObservedExecutionMetric`,
`execution-usage-policy.ts:11`), which is reserved and settled all the same and
stops nothing. A root with several rows adds no behaviour: any row may refuse a
creation and any overdrawn resource cuts the root, as `CancelRoot` may at any time.
`recordReceipt` also refuses a receipt whose evidence does not fit its operation
(`ledger.ts:1629-1887`: file, changeset, process, PDF, MCP and cloud evidence, files
that must have been stored); that is left out, because the Bridge makes its evidence
from the result it reports, and so is what such a receipt would do to the outbox.
Also left out: background services, output
streaming, cloud MCP sessions, the older command protocol, the browser bridge.

## 5. The conversation model

`ConversationStore` holds the rows of one chat session as a record `db` (the
runtime `rt`, and per input its job, follow-up row, steer command, native
dispatches and question wait) and what each transaction makes of them.
`Conversation` adds the handlers (`handler[r][a]`: attempt `a` of input `r`, in
the order of `employee-run.ts`), the workers, and the native harness (`native`,
external: prompts received, inputs adopted, questions asked).

| Action | Code |
|---|---|
| `Submit`, `UpdateQueuedMessage`, `CancelRun` | the delivery decision of `enqueueRunInTransaction`, `queued-messages.ts`, `cancelRun` |
| `ClaimNextJob`, `StartClaimedJob` | the same functions, with the claim's clause for orphaned queue heads |
| `Acquire`, `Prepare`, `BeginNativeTask`, `BindThread`, `ReadOrigin`, `PromptNative`, `RecordTurn`, `AnnounceTurn` | the handler up to its turn: `acquireConversationRuntime`, the resumed question's answer, the dispatch ledger, `bindConversationThread`, the origin a checked run must not have (`dsh-adapter.ts:920`), `bindLeasedNativeSession` and the prompt, `recordConversationTurn`, `turn.started` |
| `ConsumeAnswer`, `ContinueNativeQuestion` | a resumed segment, before it continues: the answer is consumed, then the wait continued (`dsh-adapter.ts:2383`, `employee-run.ts:1396-1412`) |
| `ClaimSteer`, `SteerNative`, `SettleSteer` | `pollEmployeeConversationSteers`: claim, the harness call, then consume, defer or reject |
| `AskUser`, `ParkNativeQuestion`, `WakeNativeQuestionWaits` | a native question and `task-native-wait.ts` |
| `NativeTurnEnds`, `DrainEnds`, `CompleteNativeTask`, `CompleteJob` | the end of a turn: last look at steers, the dispatch's end, the job's |
| `Abort`, `Release`, `FailJob` | an aborted or failed handler: its finally block, then the runner's catch |
| `Crash`, `LeaseExpires`, `MaintainQueue`, `DayPasses` | a worker process dies; time; maintenance; the 24 hours of a queued input |

An attempt has the *question-wait port* or not (`handler[r][a].port`, a choice for the
runs in `Portless`, in `Prepare`): the code builds it only for tasks with progress that are
neither repair nor review, in a question mode other than timed and on the dsh
adapter (`employee-run.ts:1358`), and the mode may be switched between two attempts.
Only an attempt with the port records a dispatch and completes it, parks, or takes
up a parked question. The port's `confirmStopped`, which completes the dispatch of a
canceled run whose harness has stopped, is left out: such a run has no further
attempt.

Each step of a handler is one transaction or one harness call, so that other
handlers, the user and crashes come in between. The lease is a Boolean: whether
it still holds, not when it ends; the handlers in `Stalling` may outlive theirs,
the others are aborted in time. A thread is the generation that bound it; a
segment of a run opens one turn. A configuration that differs between two runs of
the session drops the thread. The harness may lose its reply to a steer, but does
not claim an adoption that did not happen and adopts an input once per thread
(its journal knows the input's id). The harness' reply `unknown` is treated as a
refusal, as the steer loop does. `SKIP LOCKED` in the release of the next
follow-up is not modelled: the row locks of one session are taken in sequence.

## 6. The lease retry model

`LeaseLockRetry` follows one heartbeat or event write through
`retryLeaseLockTimeout`: its attempts, the contended locks of each, the
lock timeout, backoff, lease read (`nextLeaseLockWait`: `Verdict`, `LockWait`) and
decision, and the commit fence. Beside it the job row changes: renewals and drains
by the runner's heartbeat, cancel requests, the loss of the job. Time is in units
of half a second; a phase may last as long as its timeout allows (`Limit`), and
`MaxDelay` bounds the way from a lease read to the retry's first lock.

The locks depend on the call (`FirstLocks`, `Root`, `LastLock`). Every one locks its
run's 703 lock and the runtime root; an event then locks its run row, and before all
that a question's event the question mode (`queue.ts:3014`). The heartbeat of a
*scheduled* or automation job first passes `lockNativeOnceJobAdmission`
(`queue.ts:2910`) under the same `lock_timeout`: principals, settings, sessions,
schedule and authority rows, `AdmissionLocks` of them, 6 to 14 in the code
depending on the kind of automation (`native-schedule-once-authority.ts:99`,
`automation-conversation.ts:149`, `content-maintenance.ts:31`,
`work-automation.ts:34`). It then only *tries* the 703 lock (`NoWait`). A branch that
skips a lock is a lock that is free; the part of the admission that waits at most 500
ms (`native-schedule-once-authority.ts:198`) may wait as long as the others here,
which only adds behaviours. `GetLock` tests the row on the host's clock, which may
differ from the database's by any of `Skews` (`queue.ts:2663`). The statements
between two lock waits take no time in the model: in the code they use up the
reserve as the way to the first lock does, so `MaxDelay < leaseRetryReserve` has to
be read as a bound on both together.

## 7. What TLC checks

Deadlock is checked for `BridgeOperations`, whose client polls for ever. The other
modules come to rest: the clock stops at `Horizon`, a run or call that is over has
nothing left to do.

### Job queue

| Run | Instance | Properties |
|---|---|---|
| `parked` | one clocked run, one worker, one question, one attempt allowed and two claims, budget 3, lag 1 | `TypeOK`, `RunMatchesJob`, `NothingAfterTheEnd`, `FirstStopDecides`, `ParkedIsAnswerable`, `OnlyActiveTimeIsCharged`, `StopIsFinal`, `FrozenStays`, `ImplementsRunLifecycle` |
| `skew` | one run with a fixed timeout and retries, two workers, one ahead of the database clock and one behind | `LeaseNeverRevived` |
| `takeover` | one unlimited run, two workers with symmetric names, two claims, up to five events | `LeaseMatchesStatus`, `LogFencedByAttempt`, `LiveLeaseIsHeld`, `ImplementsRunLifecycle` |
| `settles` | one clocked run, one worker, fair clock and maintenance | `StopSettles`, `OrphanIsRecovered` |

What they show:

* **`parked`**: whatever the order of asking, parking, answering, resuming,
  canceling, timing out, revoking and dying, run and job agree, the log ends with
  the run's outcome and nothing follows it, the first stop decides and its window
  does not move, a parked run has a pending question and no deadline, and only
  active time is charged.
* **`skew`**: an expired lease is never revived, although the heartbeat renews on
  the host's clock and the fence reads the database's. (That the drain window
  holds under any skew is the theorem `StopDecides`.)
* **`takeover`**: a zombie leaves no trace in the log after its attempt was given
  back, a maintenance pass that acts on an old scan never takes a live lease, and
  the user's view of the run stays lawful through retries and recovered leases
  (which `parked`, with one attempt allowed, does not reach).
* **`settles`**: a requested stop ends the run and an orphaned claim loses its
  job, with no help from any handler.

### Operations

| Run | Instance | Properties |
|---|---|---|
| `ledger_budget` | a root's operation and a child's share a budget of 2, of a resource or of telemetry, usage up to 2; the device may claim and report anything (753k states) | `BudgetAccounts`, `UnleasedHasNoResult`, `CutIsFinal` |
| `bridge_alone` | one operation of each kind, a changeset with two files; one crash, one pause, one late request, a journal that may be full (825k) | `TypeOK`, `OutcomeAlwaysLands`, `KeepsThePromise` |
| `bridge_pair` | a process and a write, one crash (673k) | `AtMostOnce`, `TruthfulResult` |
| `bridge_settles` | a changeset, a write or a process; one crash, one pause, requests lost at will, fair (157k) | `Settles`, `OutboxDrainsOrStopRefused` |

* The budget accounts for every reservation exactly once: settled, given back, or,
  of a resource, overdrawn with everything canceled in the same transaction; what is
  cut is never admitted again.
* No effect happens twice and none without a start that the server recorded, at
  any crash point and under any loss or delay; what the ledger says happened did.
* An operation on a device that never reports is declared unknown as long as its
  job waits. What a device has journalled is delivered, in order, through crashes
  and pauses, with one exception that the property names: a stop that the ledger
  refuses for good (`StopRefused`) blocks everything behind it (section 9, the
  blocked outbox). No outcome and no doubt ever does. An MCP call takes a write's
  path through the client and a PDF reading a process's, so the three kinds stand
  for the five.

`Plans` bounds which operations one root asks for together: each kind alone under
all faults, two kinds together under a crash. One crash and one late request
suffice for every pair of a step and its replay; two effects (files, or operations) for partial results and receipts that are
delivered around another execution.

### Conversation

| Run | Instance | Properties |
|---|---|---|
| `conversation_crash` | two inputs, two workers, two attempts, two threads, questions, long waits, checked delivery, the question-wait port present or missing on any attempt of the first input (1.6M states) | `TypeOK`, `TurnOwnsRuntime`, `RuntimeOwnerLives`, `ConsumedWasAdopted`, `ParkedCanBeAnswered`, `NoKnownReplay`, `AdoptedIsNotRun`, `SteersEndWithTurn` |
| `conversation_ends` | three inputs, one worker, one attempt, with the port, fair (343k) | `InputsEnd`, `QueueOrder` |
| `conversation_overlap` | two inputs, two workers, two attempts; handlers of the first input may outlive their lease | `OneTurn`: violated |

* As long as no handler outlives its lease, a turn owns the runtime from its
  prompt to its end, an ended run does not keep it, and a parked one keeps it with
  the turn its answer must name. An input is adopted or run, never both; one that
  still waits in the queue is not overtaken, and every input ends, also behind a
  run that was canceled before it had the runtime. A checked run's prompt goes out
  a second time only if nothing tells of the first: no turn was announced, and the
  port was missing on one of the two attempts. The run reaches such replays (a crash
  after the prompt and before `turn.started` in the timed question mode); with the
  port on every attempt there are none.
* **`conversation_overlap`**: the acquisition does not look at the caller's lease,
  and ownership is run and worker only. A handler that stalled before it takes the
  runtime of its own run's next attempt and, failing, releases it under that
  attempt's turn: the next input's turn starts beside it. For the same reason a
  parked run may lose its runtime under stalls.

Two inputs, two attempts and two workers give a turn, its successor attempt
elsewhere and a waiting input; order needs a third input. `MaxGeneration` 2 lets a
thread be replaced once.

### Lease retry

| Run | Instance | Properties |
|---|---|---|
| `lease_retry` | all four kinds of call, hosts ahead of the database and behind it; lock wait 3, reserve 2, three attempts, leases up to 9, drain 5, delay 1, four admission locks, 13 units of time (7.9M states) | `RetryWaitsBounded`, `AppliedOnce`, `StopEndsRetries`, `NoRetryAfterReturn` |

`RetryWaitsBounded` says how far a retry may outlast the lease it read: by the waits
beyond the three that `contendedLockWaits` counts. An ordinary heartbeat and an
ordinary event have none and stay inside; a question's event has one, a scheduled
job's heartbeat `AdmissionLocks - 2`, which agrees with the source's comment that
the division "normally" holds (`lease-lock-retry.ts:40`). The lengths are scaled down
with their order kept; the theorems below hold for all of them.

### Bounds of the queue runs

* `Horizon` 4 to 6: a lease (2), its expiry, a second claim and its end fit.
  `InHorizon` refuses leases that would outlive the horizon on some host's clock,
  so that every lease that is written can be seen to expire.
* `MaxClaims` 2: a zombie and its successor, or a parked segment and its resumed
  one. A third claim repeats the second's relation to the first.
* `MaxSteps`: events after which a handler is silent; enough for both attempts to
  append around the takeover. Queue transitions always append.
* `MaxLag` 1: a transaction may straddle one instant, hence any expiry.
* `MaxSkew` 1 with hosts on both sides of the database clock.
* One job: the modelled operations touch one row; jobs meet only in the claim's
  choice, which is abstracted. The theorems hold for any set of jobs.

### Fairness

Weak fairness of `Tick`, and, per job, of *some* worker scanning and processing
it. The code justifies it: `queueTimer` calls `tick` every poll interval for as
long as a worker lives, and `runQueueTick` runs `maintainQueue` before it claims.
No fairness is assumed of handlers, heartbeats, runners, users or claims. It
assumes some worker is alive and that no row's maintenance fails forever.

`BridgeOperations`: the server serves what reaches it and the job that waits for
an operation keeps calling `expireLeases` (`changeset-run.ts:40`,
`local-command-service.ts:950`), as long as the root is not cut; the client polls
and retries for ever, a connection that is tried again and again works sometimes,
and the user restarts a Bridge that is down. Nothing is assumed of the device
beyond that: `Settles` holds although it may never report.

`Conversation`: claims, maintenance, the steps of each run's handlers and the
expiry of dead handlers' leases are weakly fair. Strongly fair is that a native
turn ends and that the last look at steers does (a run has a budget, the drain a
deadline of three seconds), since steers may be deferred again and again. Users
and crashes are free; attempts bound the crashes that matter.

## 8. What is proved

Eight modules hold theorems. No axiom is used and nothing is assumed beyond the
named assumptions on the constants and the hypotheses written in a theorem.

### Job queue

`JobQueueProofs` proves, for all values of the constants that satisfy
`ConstantsAssumption` and `RetryDelayAssumption` (the clock skew is bounded, the
lengths are natural numbers), so for any number of jobs, workers, questions,
claims and events:

| Theorem | Statement |
|---|---|
| `Invariance` | `Spec => []IInv` |
| `TypeCorrect` | `Spec => []TypeOK` |
| `LeaseAgrees` | `Spec => []LeaseMatchesStatus` |
| `RunAgrees` | `Spec => []RunMatchesJob` |
| `StopDecides` | `Spec => []FirstStopDecides` |

None of the properties is inductive alone. `IInv` adds, for each row:

* `ClockOK`: no deadline lies before the origin of the clock, so none is mistaken
  for a null; a paused budget, which may be overspent, keeps this true when the
  clock resumes. A drain anchored at a deadline is a real instant because of it;
* `StopOK`: a frozen drain belongs to a job that is running or ended as its cause
  demands, with a recorded request, and a running one's lease ends inside the
  window;
* `CutOK`: a frozen drain implies a cut root. Inside a transaction the drain is
  frozen first and the root cut after, so the operator lemmas work with `UncutOK`,
  the same without this conjunct, and the last operator restores it;
* `LeaseOK` and `RunOK`, the row forms of `LeaseMatchesStatus` and `RunMatchesJob`.
  `StopOK` needs them: what keeps a draining job from being claimed or requeued is
  its status, which the lease and the run must agree with.

The proof of `IInv` has one lemma per row operator (what `ClearLease`, `RefreshTaskClock`,
`TransitionTerminal`, `FreezeJobReceiptDrain`, `StopJobOrDrain`,
`RequestCancellation`, `HeartbeatRow`, `MaintainedRow` ... preserve), one per
action, and combines them in `NextOK`. An action's lemma reduces it to `Commit` of
a row the operator lemmas speak about.

`JobQueueHistoryProofs` adds, for the same constants:

| Theorem | Statement |
|---|---|
| `QueueInvariance` | `Spec => []QueueInv` |
| `EndIsLast` | `Spec => []NothingAfterTheEnd` |
| `LogIsFenced` | `Spec => []LogFencedByAttempt` |
| `ParkedStaysAnswerable` | `Spec => []ParkedIsAnswerable` |
| `NoLeaseRevived` | `Spec => LeaseNeverRevived` |
| `StopStays` | `Spec => StopIsFinal` |
| `FrozenIsKept` | `Spec => FrozenStays` |
| `BudgetIsActiveTime` | `Spec => OnlyActiveTimeIsCharged` |
| `QueueImplementsLifecycle` | `Spec => ImplementsRunLifecycle` |
| `LeaseIsHeld` | `Spec => LiveLeaseIsHeld`, if `DrainMs > MaxSkew` |

These are about what a *step* may do, so they rest on a description of the steps.
`JobQueueStepProofs` shows that every action writes at most one row, in one of the
eleven ways of `Written` (a row is enqueued, claimed, started, parked, given back,
ended, ..., or only its stop or lease changes), and `RowStep` adds what becomes of
its lease and its clock. The actions are read once, there; the theorems are case
distinctions over these ways.

`QueueInv` adds to `IInv` what the history needs: the log agrees with the row
(`LogOK`: no event is newer than the attempt, a claim has logged nothing yet, a
running attempt was neither retried nor recovered, a terminal event is the last one
and names the status), the open wait of a parked run has a pending question
(`WaitOK`), a row nobody enqueued is blank (`FreshOK`), and a clock that is
stopped has no deadline while budget is left (`MeterOK`). `LogFencedByAttempt` is not inductive without
the second and third part of `LogOK`: it is the attempt of the *row* that fences a
writer, and only a claim raises it. `NothingAfterTheEnd` needs that terminal event
and terminal status come in the same transaction: `appendEvent`'s own refusal is
not used.

`LeaseIsHeld` needs its hypothesis: the drain of a stop that a heartbeat meets is
anchored at the host's clock, and with a window no longer than the skew it could be
over for the database already, which would let maintenance take a lease that is
live on every host. The code's window is 30
seconds (`receipt-drain.ts:5`).

### Operations

`OperationLedgerProofs` proves for any finite set of operations, any amounts and
any capacity, `BridgeProofs` for any such operations on any number of files and
under any number of faults:

| Theorem | Statement |
|---|---|
| `LedgerInvariance`, `LedgerTyped` | `LedgerSpec => []LedgerInv`, `LedgerSpec => []LedgerTypeOK` |
| `BudgetIsExact` | `LedgerSpec => []BudgetAccounts` |
| `ResultNeedsLease` | `LedgerSpec => []UnleasedHasNoResult` |
| `CutStays` | `LedgerSpec => CutIsFinal` |
| `BridgeInvariance`, `BridgeTyped` | `Spec => []BridgeInv`, `Spec => []TypeOK` |
| `ActsAtMostOnce` | `Spec => []AtMostOnce` |
| `ResultsAreTrue` | `Spec => []TruthfulResult` |
| `OutcomesLand` | `Spec => []OutcomeAlwaysLands` |
| `PromiseIsKept` | `Spec => KeepsThePromise` |

`RowOK` says which combinations of status, cancel mark, lease, effects and
reservation a ledger row may have; `LedgerInv` is `RowOK` for every row, the budget
(`BudgetOK`) and the cut (`CutIsKnown`). The lemmas about the contract say what
`Advance` makes of a row for each kind of signal, the lemmas about sums what the
total of a set of reservations becomes when one is added, taken out or all are
released. Sums are folds over sets, which no induction theorem reaches here; their
laws are proved from a minimal counterexample among the subsets of a finite set
(well-foundedness of strict inclusion, cited from the library).

The invariant of the composition relates the two sides that never see each other's
state:

* `ClientOK` and `LinkOK`: the client's place agrees with its journal, there is one
  active entry, and a start it acts upon was recorded by the server, also if the
  answer came late;
* `FactsOK`: all copies of one report (in the outbox, on the wire, delayed, and
  stored as a receipt) say the same, and what they say of the effects is true.
  This is the heart: a journal entry is concluded once, so a duplicate or a late
  copy can only repeat;
* `VerdictOK`: a terminal status in the ledger is true of the device, and comes
  from a device report if the operation was leased;
* `EffectsOK`: how often an effect happened is determined by the journal and the
  client's place, so that what a restart makes of an entry (resume, declare
  unknown) is sound at every crash point.

`AtMostOnce` alone is not inductive (a state with an effect and a blank journal
would act again), nor is `TruthfulResult` (a false copy in flight would land). The
refinement maps every step to one step of `OperationPromise` or a stutter, with
`BridgeInv` before and after it.

### Conversation

`ConversationProofs` proves for any number of inputs, workers, slots, attempts and
generations:

| Theorem | Statement | Hypothesis |
|---|---|---|
| `InvariantHolds`, `TypesHold` | `Spec => []ConversationInv`, `Spec => []TypeOK` | |
| `ConsumedInputsWereAdopted` | `Spec => []ConsumedWasAdopted` | |
| `SteersDoNotOutliveTheirTurn` | `Spec => []SteersEndWithTurn` | |
| `CheckedRunsKnowReplays` | `Spec => []NoKnownReplay` | `CheckedDelivery` |
| `QueueKeepsOrder` | `Spec => QueueOrder` | `~LongWaits` |
| `TurnsOwnTheRuntime` | `Spec => []TurnOwnsRuntime` | `Stalling = {}` |
| `OneTurnAtATime` | `Spec => []OneTurn` | `Stalling = {}` |
| `RuntimeOwnersLive` | `Spec => []RuntimeOwnerLives` | `Stalling = {}` |
| `ParkedRunsCanBeAnswered` | `Spec => []ParkedCanBeAnswered` | `Stalling = {}` |
| `AdoptedInputsAreNotRun` | `Spec => []AdoptedIsNotRun` | `Stalling = {}` |

The hypotheses are the conditions under which the code promises the property, and
none is for the proof's sake. `Stalling = {}` says that no handler acts after its
lease has ended; without it `OneTurn` is false, as `conversation_overlap` shows,
and the others depend on the same ownership. A crash, a lost lease, a retry and a
second worker are all allowed under it. `CheckedDelivery` is the policy of the run,
and without it a crash between the dispatch's end and the job's sends a prompt
again although its turn was announced (section 9). Nothing is assumed of the
question-wait port: every attempt may have it or not, and the theorem says what
each case gives. `~LongWaits` leaves out inputs that wait 24 hours, which the
code makes available out of turn. The first three hold without any.

`ConversationInv` has five parts. `StoreOK`: the rows of the session agree (an
input's job, follow-up and command; the runtime row and the run it names; inputs
arrive in order; a free runtime leaves no strict steer). `ConversationStoreProofs`
shows that each *transaction* keeps it, whoever calls it, in whatever state its
caller is. `HarnessOK`: what the harness was told agrees with the dispatches and
the opened turns. `HandlerOK`: a handler's place says what it has in hand, which
dispatch is open and, before its prompt, that its attempt has not prompted.
`Punctual`, kept only if `Stalling = {}`: a handler at work has the lease, from
its acquisition on the runtime as well, and the runtime's and every parked run's
rows name each other. `HeadsFirst`, kept only if `~LongWaits`, is the queue's order
as a fact about one state.

None of the properties is inductive alone. `NoKnownReplay` needs the dispatch rows:
what keeps the next attempt from prompting is the turn its predecessor announced or,
if both have the port, the dispatch it left `started`; the invariant says that a
dispatch is completed or parked only after its turn was announced, so that one of
them is always there. `AdoptedIsNotRun` needs that a command keeps the generation its first
adopter had. `QueueOrder` is about a step; the step that prompts holds the lease,
and `HeadsFirst` excludes a waiting input before it.

### Lease retry

`LeaseLockRetryProofs` proves, for all values that satisfy `RetryAssumption`:

| Theorem | Statement |
|---|---|
| `RetryInvariance`, `RetryTypeCorrect` | `Spec => []IInv`, `Spec => []TypeOK` |
| `RetriesBounded` | `Spec => []RetryWaitsBounded`, if `MaxDelay < leaseRetryReserve` |
| `WritesOnce` | `Spec => []AppliedOnce` |
| `StopsRetrying` | `Spec => []StopEndsRetries` |
| `ReturnsForGood` | `Spec => NoRetryAfterReturn` |

`IInv` adds to the types that an attempt is left while one is considered, that a
lock wait is for a lock that is left, that only the end of a call writes, and what
the last read saw of a cancel. `RetriesBounded` needs `InBudget` besides: the
wait of a retry fits three times, with the reserve, into the lease it read, and
the clock is no further than the delay and the waits so far account for. What
remains is to count the waits of each kind of call, the excess over three included.

### Only model-checked

Liveness: `StopSettles` and `OrphanIsRecovered` of the queue, `Settles` and
`OutboxDrainsOrStopRefused` of the Bridge, `InputsEnd` of the conversation. They depend on
fairness and `ENABLED`, which are beyond the prover. That the fair specifications
imply the safety theorems needs no proof of its own: each is `Spec` (or
`LedgerSpec`) with fairness added. The violated `OneTurn` of
`conversation_overlap` is TLC's counterexample. The modules declare no recursive
operators.

## 9. Not modelled

Besides the planned modules: the web application, libraries for storage,
archives, office documents and user interface, model providers and the tool
broker (I/O whose outcome is the handler's free choice), and the administration
of tenants, employees and policies (data that admission checks read; their
verdicts are inputs here). Lock order and deadlock inside PostgreSQL are below
this model's atomicity. The cloud sandbox, native schedules, the progress guard
and workflows, and the accounting of a conversation (usage, checkpoints, subagent
control) are state machines of their own that are not modelled yet. `PROJECT.json` lists every component with its status.

Behaviours worth knowing, met while modelling. Unless a property is named, no run
of this project checks them; each follows from the lines named:

* *the blocked outbox*: a changeset or write that loses its authority after its
  start and before it touched anything reports `operation.stopped`
  (`operation-client.ts:683`). A *running* operation accepts no stop, and
  `recordReceipt` supplies the missing cancel intent for local processes only
  (`ledger.ts:1933`): the receipt is stored as a conflict and answered with 409 for
  ever (`operation-http.ts:530`), `flush` throws on it before every claim, and the
  device gets no more work. This is the `StopRefused` that `bridge_settles` admits:
  without that disjunct the property is violated, for changesets and writes by any
  lost authority and for every kind of operation by a pause;
* for the same reason a conflict is not only a reversed terminal state
  (`p03a-operation-ledger.md:77`): the stop of a Bridge paused before it executed
  is one, too;
* *an answer that does not wake*: an answer the steer loop has claimed when its run
  parks stays claimed if the worker dies; `wakeNativeQuestionWaits` looks for
  pending ones (`task-native-wait.ts:375`), and the run stays parked until it is
  canceled;
* *overtaking by a retry*: a run that fails with a retryable error releases the
  runtime and the next input in its finally block (`employee-run.ts:2109`) before
  it is queued again: the later input is prompted first, and the retried one meets
  `CONVERSATION_BUSY`. `QueueOrder` is about inputs that still wait in the queue;
* *prompting twice*: the dispatch is completed in a transaction before the job's, so
  that a crash between the two lets the next attempt send the prompt again unless
  checked delivery refuses it (`NoKnownReplay` needs `CheckedDelivery = TRUE`); and
  without the question-wait port a crash between the prompt and `turn.started`
  leaves neither a dispatch nor an origin, so that checked runs prompt again, too;
* *waits not counted*: the question mode's lock and the admission locks of a
  scheduled job's heartbeat come on top of the three waits that `contendedLockWaits`
  counts, so a retry of either may outlast the lease it read (`ExcessWaits`); the
  commit fence still keeps the write out;
* *two transition tables*: the contracts package declares legal job transitions
  (`contracts/src/queue.ts:98`) that the queue does not follow: it moves a claimed
  job to `failed` (`queue.ts:2445`), a running one to `dead_letter`, a queued one to
  `failed`. `assertJobTransition` is called by tests only;

* each resume of a parked run counts as an attempt, so a run that asked
  `max_attempts` questions has no retry left;
* one row whose maintenance throws ends that maintenance pass and the claims of
  that tick;
* a write or PDF operation that is canceled before any device leased it stays
  `cancel_requested` (`ledger.ts:376`): no device will ever report on it;
* after its run has ended nobody calls `expireLeases` for an operation, although
  `p03a-operation-ledger.md:79` asks callers to;
* a process that is paused after its start is refused until its lease expires;
* canceling an input that was sent as a steer leaves its command pending: the turn
  may still adopt it;
* an input that waits more than 24 hours behind a parked or unlimited turn becomes
  available, is claimed, meets `CONVERSATION_BUSY` and, its attempts spent, fails.

## 10. Running it

```
tlc -config JobQueue_parked.cfg MCJobQueue               # likewise skew, takeover, live
tlc -config OperationLedger_budget.cfg MCOperationLedger
tlc -config BridgeOperations_alone.cfg MCBridgeOperations # likewise pair, live
tlc -config Conversation_crash.cfg MCConversation         # likewise ends, overlap
tlc -config LeaseLockRetry_retry.cfg MCLeaseLockRetry
tlapm JobQueueHistoryProofs.tla                          # likewise every *Proofs module
```
