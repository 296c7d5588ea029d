------------------------- MODULE JobQueueStepProofs -------------------------
(***************************************************************************)
(* What one step of the queue may do to a row.  Every step writes at most  *)
(* one row, Written lists the eleven ways it may be written, and RowStep   *)
(* adds what becomes of its lease and its clock; the lemmas show that      *)
(* every transaction is such a step.  The theorems of                      *)
(* JobQueueHistoryProofs rest on it.                                       *)
(***************************************************************************)
EXTENDS JobQueueProofs

-----------------------------------------------------------------------------
(* The ways a row is written.                                               *)

Place(d) == <<d.status, d.attempt, d.token, d.run>>
Talk(d)  == <<d.question, d.wait>>
Meter(d) == <<d.timeoutAt, d.left>>

\* The log with one more event.
Logged(d, type) == Append(d.events, [type |-> type, attempt |-> d.attempt])

\* A stop is recorded, widened to its cut or frozen, and never taken back.
StopGrows(d, e) ==
    /\ d.drain # "none" => e.drain = d.drain /\ e.drainDeadline = d.drainDeadline
    /\ d.cancelAt # Null => e.cancelAt = d.cancelAt
    /\ d.root # "open" => e.root = d.root

\* At most the stop and the lease deadline change.
Quiet(d, e) ==
    /\ Place(e) = Place(d) /\ Talk(e) = Talk(d) /\ e.events = d.events
    /\ StopGrows(d, e)
    /\ e.cancelAt # d.cancelAt => d.status # "absent"

Enqueued(j, d, e) ==
    /\ d.status = "absent" /\ e.status = "queued" /\ e.run = "queued"
    /\ e.attempt = d.attempt /\ e.token = d.token
    /\ Talk(e) = Talk(d) /\ Stop(e) = Stop(d) /\ e.events = Logged(d, "run.created")
    /\ j \in Clocked => e.timeoutAt = Never /\ e.left = Budget

Claimed(d, e) ==
    /\ d.status = "queued" /\ d.cancelAt = Null /\ e.status = "claimed"
    /\ e.run = d.run /\ e.attempt = d.attempt + 1 /\ e.token = e.attempt
    /\ Talk(e) = Talk(d) /\ Stop(e) = Stop(d) /\ e.events = d.events

Started(d, e) ==
    /\ d.status = "claimed" /\ d.cancelAt = Null
    /\ e.status = "running" /\ e.run = "running"
    /\ e.attempt = d.attempt /\ e.token = d.token /\ e.lease = d.lease
    /\ \A q \in Questions : e.question[q] \in {d.question[q], "closed"}
    /\ e.wait = d.wait /\ Stop(e) = Stop(d) /\ e.events = Logged(d, "run.started")

\* An event of the running attempt; only a clocked run's questions are recorded.
Stepped(j, d, e) ==
    /\ d.status = "running" /\ Job(e) = Job(d) /\ Stop(e) = Stop(d)
    /\ e.question = d.question \/ j \in Clocked
    /\ e.wait = d.wait /\ e.events = Logged(d, "step")

Parked(d, e) ==
    /\ d.status = "running" /\ d.cancelAt = Null
    /\ e.status = "waiting_approval" /\ e.run = "waiting_approval"
    /\ e.attempt = d.attempt /\ e.token = Null
    /\ e.question = d.question /\ Stop(e) = Stop(d) /\ e.events = d.events
    /\ \A p \in Questions : d.wait[p] \in {"none", "continued"}
    /\ \E q \in Questions :
         d.question[q] = "pending" /\ e.wait = [d.wait EXCEPT ![q] = "parked"]

Continued(d, e) ==
    /\ d.status = "running" /\ Job(e) = Job(d) /\ Stop(e) = Stop(d)
    /\ e.events = d.events
    /\ \E q \in Questions : /\ e.question = [d.question EXCEPT ![q] = "closed"]
                            /\ e.wait = [d.wait EXCEPT ![q] = "continued"]

Woken(d, e) ==
    /\ d.status = "waiting_approval" /\ e.status = "queued" /\ e.run = "queued"
    /\ e.attempt = d.attempt /\ e.token = d.token
    /\ e.question = d.question /\ Stop(e) = Stop(d) /\ e.events = d.events
    /\ \E q \in Questions :
         d.wait[q] = "parked" /\ e.wait = [d.wait EXCEPT ![q] = "ready"]

\* A retry after a failure, or a recovered lease.
GivenBack(d, e) ==
    /\ d.status \in LeasedStatuses /\ d.cancelAt = Null
    /\ e.run = "queued" /\ e.attempt = d.attempt /\ e.token = Null
    /\ Talk(e) = Talk(d) /\ Stop(e) = Stop(d)
    /\ \/ /\ d.status = "running" /\ e.status = "retry_wait"
          /\ e.events = Logged(d, "run.retrying")
       \/ e.status = "queued" /\ e.events = Logged(d, "lease.recovered")

Promoted(d, e) ==
    /\ d.status = "retry_wait" /\ d.cancelAt = Null /\ e.status = "queued"
    /\ e.run = d.run /\ e.attempt = d.attempt /\ e.token = d.token
    /\ Talk(e) = Talk(d) /\ Stop(e) = Stop(d) /\ e.events = d.events

Ended(d, e) ==
    /\ d.status \in LiveJobStatuses /\ e.status \in TerminalJobStatuses
    /\ e.run = RunStateOf(e.status) /\ e.attempt = d.attempt /\ e.token = Null
    /\ e.question = ClosePending(d.question) /\ e.wait = d.wait
    /\ e.events = Logged(d, TerminalEventOf(e.status)) /\ StopGrows(d, e)
    /\ e.status = "succeeded" => d.status = "running"
    /\ e.status \in {"succeeded", "dead_letter"} => e.cancelAt = Null
    /\ e.status = "canceled" => e.cancelAt # Null

Written(j, d, e) ==
    \/ Quiet(d, e) \/ Enqueued(j, d, e) \/ Claimed(d, e) \/ Started(d, e)
    \/ Stepped(j, d, e) \/ Parked(d, e) \/ Continued(d, e) \/ Woken(d, e)
    \/ GivenBack(d, e) \/ Promoted(d, e) \/ Ended(d, e)

\* A live lease grows only while it is current.
LeaseStep(d, e, t) ==
    d.token # Null /\ e.token = d.token /\ e.lease > d.lease => t < d.lease

\* The budget is charged for active time from u to t, and for nothing else.
Charged(d, u, e, t) ==
    Budget > 0 =>
      LeftAt(e, t) = LeftAt(d, u)
        - (IF TaskClockPhase(d) = "active" THEN t - u ELSE 0)

\* A clocked run without a budget has no deadline; one whose clock is stopped has
\* none either, unless its budget is spent, and then its deadline has passed.
MeterOK(j, d, t) ==
    j \in Clocked /\ d.status # "absent" /\ TaskClockPhase(d) # "terminal" =>
      /\ Budget = 0 => d.timeoutAt = Never
      /\ Budget > 0 /\ TaskClockPhase(d) \in {"waiting", "queued"} =>
           IF d.left > 0 THEN d.timeoutAt = Never ELSE d.timeoutAt <= t

ClockStep(j, d, u, e, t) ==
    j \in Clocked /\ d.status # "absent" /\ TaskClockPhase(e) # "terminal"
      => Charged(d, u, e, t) /\ (MeterOK(j, d, u) => MeterOK(j, e, t))

\* What is over stays as it is, but for a late stop record.
OverStep(d, e) ==
    d.status \in TerminalJobStatuses =>
      e = [d EXCEPT !.cancelAt = e.cancelAt, !.root = e.root]

RowStep(j, d, u, e, t) ==
    /\ Written(j, d, e) /\ LeaseStep(d, e, t)
    /\ ClockStep(j, d, u, e, t) /\ OverStep(d, e)

-----------------------------------------------------------------------------
(* What the row operators write.                                            *)

\* A row whose clock, run and questions are as they were is charged by the clock.
LEMMA SteadyClock ==
    ASSUME NEW j, NEW d \in Rows, NEW e \in Rows, NEW u \in Int, NEW t \in Int,
           u <= t, Meter(e) = Meter(d), e.run = d.run, e.question = d.question
    PROVE  ClockStep(j, d, u, e, t)
<1>1. TaskClockPhase(e) = TaskClockPhase(d) /\ e.timeoutAt = d.timeoutAt /\ e.left = d.left
  BY DEF TaskClockPhase, Meter
<1>2. d.timeoutAt \in Int /\ d.left \in Int
  BY DEF Rows
<1>3. Charged(d, u, e, t)
  BY <1>1, <1>2 DEF Charged, LeftAt
<1>4. MeterOK(j, d, u) /\ d.status # "absent" => MeterOK(j, e, t)
  BY <1>1, <1>2 DEF MeterOK
<1>5. QED
  BY <1>3, <1>4 DEF ClockStep

\* A refresh writes the clock and nothing else, and charges active time only.
LEMMA RefreshShape ==
    ASSUME NEW j, NEW o \in Rows, NEW d \in Rows, Meter(d) = Meter(o),
           NEW u \in Int, NEW t \in Int,
           NEW r, r = RefreshTaskClock(j, o, d, t)
    PROVE  /\ r \in Rows /\ Job(r) = Job(d) /\ Stop(r) = Stop(d)
           /\ Talk(r) = Talk(d) /\ r.events = d.events
           /\ ClockStep(j, o, u, r, t)
<1> DEFINE left == LeftAt(o, t)
           phase == TaskClockPhase(d)
           x == DeadlineAt(left, phase, t)
           y == IF phase = "active" THEN 0 ELSE left
<1>1. /\ r \in Rows /\ Job(r) = Job(d) /\ Stop(r) = Stop(d)
      /\ r.question = d.question /\ r.wait = d.wait /\ r.events = d.events
  BY RefreshType
<1>2. TaskClockPhase(r) = phase
  BY <1>1 DEF TaskClockPhase, Job
<1>3. o.timeoutAt \in Int /\ o.left \in Int /\ left \in Int
  BY DEF Rows, LeftAt
<1>4. ASSUME j \in Clocked, phase # "terminal"
      PROVE  Charged(o, u, r, t) /\ MeterOK(j, r, t)
  <2>1. r = [d EXCEPT !.timeoutAt = x, !.left = y]
    BY <1>4 DEF RefreshTaskClock
  <2> HIDE DEF x, y
  <2>2. r.timeoutAt = x /\ r.left = y
    BY <2>1 DEF Rows
  <2>3. MeterOK(j, r, t)
    <3>1. /\ Budget = 0 => r.timeoutAt = Never
          /\ phase \in {"waiting", "queued"} /\ Budget > 0 =>
               IF left > 0 THEN r.timeoutAt = Never ELSE r.timeoutAt = t + left
          /\ phase \in {"waiting", "queued"} => r.left = left
      BY <2>2 DEF x, y, DeadlineAt
    <3> HIDE DEF left, phase
    <3>2. QED
      BY <1>2, <1>3, <3>1 DEF MeterOK
  <2>4. phase = "active" /\ Budget > 0 => x = t + left
    BY DEF x, DeadlineAt
  <2>5. Budget > 0 => LeftAt(r, t) = left
    <3> HIDE DEF left, phase
    <3> QED BY <1>2, <1>3, <2>2, <2>4 DEF LeftAt, y
  <2>6. left = LeftAt(o, u) - (IF TaskClockPhase(o) = "active" THEN t - u ELSE 0)
    BY <1>3 DEF LeftAt
  <2> HIDE DEF left
  <2>7. QED
    BY <2>3, <2>5, <2>6 DEF Charged
<1>5. ClockStep(j, o, u, r, t)
  BY <1>2, <1>4 DEF ClockStep
<1>6. QED
  BY <1>1, <1>5 DEF Talk

\* Appending writes the log and nothing else.
LEMMA AppendShape ==
    ASSUME NEW d \in Rows, NEW type \in EventTypes, NEW a \in 0..MaxClaims,
           NEW r, r = AppendEventOf(d, type, a)
    PROVE  /\ r \in Rows /\ Job(r) = Job(d) /\ Stop(r) = Stop(d)
           /\ Talk(r) = Talk(d) /\ Meter(r) = Meter(d)
           /\ r.events = Append(d.events, [type |-> type, attempt |-> a])
<1> DEFINE log == Append(d.events, [type |-> type, attempt |-> a])
<1>1. r = [d EXCEPT !.events = log]
  BY DEF AppendEventOf
<1>2. /\ r \in Rows /\ Job(r) = Job(d) /\ Stop(r) = Stop(d)
      /\ r.timeoutAt = d.timeoutAt /\ r.left = d.left
      /\ r.question = d.question /\ r.wait = d.wait
  BY AppendType
<1> HIDE DEF log
<1>3. r.events = log
  BY <1>1 DEF Rows
<1>4. QED
  BY <1>2, <1>3 DEF Talk, Meter, log

\* Clearing a lease writes token and deadline and nothing else.
LEMMA ClearShape ==
    ASSUME NEW d \in Rows, NEW r, r = ClearLease(d)
    PROVE  /\ r \in Rows /\ r.token = Null /\ r.lease = Null
           /\ r.status = d.status /\ r.attempt = d.attempt /\ r.run = d.run
           /\ Stop(r) = Stop(d) /\ Talk(r) = Talk(d) /\ Meter(r) = Meter(d)
           /\ r.events = d.events
<1>1. r.events = d.events
  BY DEF ClearLease, Rows
<1>2. QED
  BY <1>1, ClearLeaseType DEF Talk, Meter

\* transitionTerminal is an end.
LEMMA EndShape ==
    ASSUME NEW d \in Rows, d.status \in LiveJobStatuses, NEW s \in TerminalJobStatuses,
           s = "succeeded" => d.status = "running",
           s \in {"succeeded", "dead_letter"} => d.cancelAt = Null,
           s = "canceled" => d.cancelAt # Null,
           NEW r, r = TransitionTerminal(d, s)
    PROVE  Ended(d, r)
<1> DEFINE c == ClearLease(d)
           qs == ClosePending(d.question)
           e == [c EXCEPT !.status = s, !.run = RunStateOf(s), !.question = qs]
           ev == TerminalEventOf(s)
<1>1. /\ c \in Rows /\ c.token = Null /\ c.attempt = d.attempt
      /\ Stop(c) = Stop(d) /\ c.question = d.question /\ c.wait = d.wait
      /\ c.events = d.events
  BY ClearShape DEF Talk
<1>2. qs \in [Questions -> {"none", "pending", "closed"}]
  BY DEF ClosePending, Rows
<1>3. RunStateOf(s) \in RunStates /\ s \in JobStatuses
  BY DEF RunStateOf, TerminalJobStatuses, LiveJobStatuses, RunStates,
         TerminalRunStates, JobStatuses
<1>4. ev \in EventTypes
  BY DEF TerminalEventOf, EventTypes, TerminalEventTypes, TerminalJobStatuses
<1> HIDE DEF c, qs, ev
<1>5. e \in Rows
  BY <1>1, <1>2, <1>3 DEF Rows
<1>6. /\ e.status = s /\ e.run = RunStateOf(s) /\ e.question = qs /\ e.wait = c.wait
      /\ e.attempt = c.attempt /\ e.token = c.token /\ Stop(e) = Stop(c)
      /\ e.events = c.events
  BY <1>1 DEF Rows, Stop
<1>7. r = AppendEventOf(e, ev, e.attempt)
  BY <1>1 DEF TransitionTerminal, AppendEvent, c, qs, ev
<1> HIDE DEF e
<1>8. e.attempt \in 0..MaxClaims
  BY <1>5 DEF Rows
<1>9. /\ Job(r) = Job(e) /\ Stop(r) = Stop(e) /\ Talk(r) = Talk(e)
      /\ r.events = Append(e.events, [type |-> ev, attempt |-> e.attempt])
  BY <1>4, <1>5, <1>7, <1>8, AppendShape
<1>10. Stop(r) = Stop(d)
  BY <1>1, <1>6, <1>9
<1>11. StopGrows(d, r) /\ r.cancelAt = d.cancelAt
  BY <1>10 DEF StopGrows, Stop
<1>12. /\ r.status = s /\ r.run = RunStateOf(s) /\ r.attempt = d.attempt
       /\ r.token = Null /\ r.question = qs /\ r.wait = d.wait
  BY <1>1, <1>6, <1>9 DEF Job, Talk
<1>13. r.events = Logged(d, TerminalEventOf(s))
  BY <1>1, <1>6, <1>9 DEF Logged, ev
<1>14. QED
  BY <1>11, <1>12, <1>13 DEF Ended, qs

\* An end is a step, on any clock.
LEMMA EndStep ==
    ASSUME NEW j, NEW d, NEW e, Ended(d, e), NEW u, NEW t
    PROVE  RowStep(j, d, u, e, t)
<1>1. LeaseStep(d, e, t) /\ Written(j, d, e)
  BY DEF LeaseStep, Written, Ended
<1>2. TaskClockPhase(e) = "terminal"
  BY DEF Ended, RunStateOf, TaskClockPhase, TerminalRunStates, TerminalJobStatuses
<1>3. ClockStep(j, d, u, e, t) /\ OverStep(d, e)
  BY <1>2 DEF ClockStep, OverStep, Ended, LiveJobStatuses, LeasedStatuses, TerminalJobStatuses
<1>4. QED
  BY <1>1, <1>3 DEF RowStep

\* transitionStoppedJob is an end, canceled only if a stop is recorded.
LEMMA StoppedShape ==
    ASSUME NEW d \in Rows, d.status \in LiveJobStatuses, NEW cause \in Causes,
           cause = "cancel" => d.cancelAt # Null
    PROVE  Ended(d, TransitionStoppedJob(d, cause))
<1> DEFINE s == IF cause = "cancel" /\ ~d.revoked THEN "canceled" ELSE "failed"
<1>1. s \in TerminalJobStatuses /\ s \notin {"succeeded", "dead_letter"}
  BY DEF TerminalJobStatuses
<1>2. s = "canceled" => d.cancelAt # Null
  OBVIOUS
<1> HIDE DEF s
<1>3. QED
  BY <1>1, <1>2, EndShape DEF TransitionStoppedJob, s

\* A row on which only the stop and the lease deadline may differ.
Hushed(d, e) == e \in Rows /\ Quiet(d, e) /\ Meter(e) = Meter(d)

\* Such writes add up.
LEMMA HushedChain ==
    ASSUME NEW d, NEW e, NEW f, Hushed(d, e), Hushed(e, f)
    PROVE  Hushed(d, f)
<1>1. Place(f) = Place(d) /\ Talk(f) = Talk(d) /\ f.events = d.events /\ Meter(f) = Meter(d)
  BY DEF Hushed, Quiet
<1>2. StopGrows(d, f)
  BY DEF Hushed, Quiet, StopGrows
<1>3. d.status = e.status
  BY DEF Hushed, Quiet, Place
<1>4. f.cancelAt # d.cancelAt => d.status # "absent"
  BY <1>3 DEF Hushed, Quiet
<1>5. QED
  BY <1>1, <1>2, <1>4 DEF Hushed, Quiet

\* An end after such a write is an end of the row before it.
LEMMA HushedEnd ==
    ASSUME NEW d, NEW e, NEW f, Hushed(d, e), Ended(e, f)
    PROVE  Ended(d, f)
<1>1. d.status = e.status /\ d.attempt = e.attempt /\ d.question = e.question
      /\ d.wait = e.wait /\ d.events = e.events
  BY DEF Hushed, Quiet, Place, Talk
<1>2. StopGrows(d, f)
  BY DEF Hushed, Quiet, Ended, StopGrows
<1>3. QED
  BY <1>1, <1>2 DEF Ended, Logged

\* Such a write on a row that is not over is a step.
LEMMA HushedStep ==
    ASSUME NEW j, NEW d \in Rows, NEW e, Hushed(d, e), NEW u \in Int, NEW t \in Int, u <= t,
           LeaseStep(d, e, t), OverStep(d, e)
    PROVE  RowStep(j, d, u, e, t)
<1>1. e.run = d.run /\ e.question = d.question
  BY DEF Hushed, Quiet, Place, Talk
<1>2. ClockStep(j, d, u, e, t)
  BY <1>1, SteadyClock DEF Hushed
<1>3. QED
  BY <1>2 DEF Hushed, RowStep, Written

\* Cutting the root is such a write.
LEMMA RootShape ==
    ASSUME NEW d \in Rows, NEW reason \in {"user_request", "budget_exhausted"},
           NEW r, r = CancelRuntimeRoot(d, reason)
    PROVE  Hushed(d, r) /\ r.lease = d.lease /\ r.cancelAt = d.cancelAt
<1> DEFINE x == IF d.root = "open" THEN reason ELSE d.root
<1>1. x \in {"open", "user_request", "budget_exhausted"} /\ (d.root # "open" => x = d.root)
  BY DEF Rows
<1>2. r = [d EXCEPT !.root = x]
  BY DEF CancelRuntimeRoot
<1> HIDE DEF x
<1>3. r \in Rows
  BY <1>1, <1>2 DEF Rows
<1>4. /\ Place(r) = Place(d) /\ Talk(r) = Talk(d) /\ Meter(r) = Meter(d)
      /\ r.events = d.events /\ r.lease = d.lease /\ r.cancelAt = d.cancelAt
      /\ r.drain = d.drain /\ r.drainDeadline = d.drainDeadline /\ r.root = x
  BY <1>2 DEF Rows, Place, Talk, Meter
<1>5. QED
  BY <1>1, <1>3, <1>4 DEF Hushed, Quiet, StopGrows

\* Recording a request is such a write; the first request stays.
LEMMA RequestShape ==
    ASSUME NEW d \in Rows, d.status # "absent", NEW c \in Int, c >= 0,
           NEW r, r = [d EXCEPT !.cancelAt = IF @ = Null THEN c ELSE @]
    PROVE  Hushed(d, r) /\ r.lease = d.lease /\ r.cancelAt # Null
<1> DEFINE x == IF d.cancelAt = Null THEN c ELSE d.cancelAt
<1>1. x \in Int /\ x # Null /\ (d.cancelAt # Null => x = d.cancelAt)
  BY DEF Rows, Null
<1>2. r = [d EXCEPT !.cancelAt = x]
  BY DEF Rows
<1> HIDE DEF x
<1>3. r \in Rows
  BY <1>1, <1>2 DEF Rows
<1>4. /\ Place(r) = Place(d) /\ Talk(r) = Talk(d) /\ Meter(r) = Meter(d)
      /\ r.events = d.events /\ r.lease = d.lease /\ r.cancelAt = x
      /\ r.drain = d.drain /\ r.drainDeadline = d.drainDeadline /\ r.root = d.root
  BY <1>2 DEF Rows, Place, Talk, Meter
<1>5. QED
  BY <1>1, <1>3, <1>4 DEF Hushed, Quiet, StopGrows

\* freezeJobReceiptDrain is such a write; only a renewing one extends the lease.
LEMMA FreezeShape ==
    ASSUME NEW d \in Rows, NEW cause \in Causes, NEW c \in Int,
           NEW t \in Int, t >= 0, NEW renew \in BOOLEAN,
           NEW r, r = FreezeJobReceiptDrain(d, cause, c, t, renew)
    PROVE  Hushed(d, r) /\ (renew \/ r.lease <= d.lease)
<1>1. /\ d.cancelAt \in Int /\ d.timeoutAt \in Int /\ d.lease \in Int
      /\ d.drainDeadline \in Int /\ d.drain \in {"none", "cancel", "timeout"}
  BY DEF Rows
<1>2. CASE ~CanDrain(d, t)
  <2>1. r = d
    BY <1>2 DEF FreezeJobReceiptDrain
  <2>2. QED
    BY <1>1, <2>1 DEF Hushed, Quiet, StopGrows
<1>3. CASE CanDrain(d, t)
  <2> DEFINE frozen == IF d.drain # "none" THEN d.drain ELSE cause
             anchor == IF frozen = "cancel" THEN (IF c # Null THEN c ELSE t)
                                            ELSE d.timeoutAt
             deadline == IF d.drain # "none" THEN d.drainDeadline ELSE anchor + DrainMs
             x == IF d.cancelAt = Null THEN t ELSE d.cancelAt
             y == MinOf(deadline, IF renew THEN t + LeaseMs ELSE d.lease)
  <2>1. d.status = "running"
    BY <1>3 DEF CanDrain
  <2>2. deadline \in Int /\ (d.drain # "none" => deadline = d.drainDeadline)
    <3>1. anchor \in Int
      BY <1>1
    <3> HIDE DEF anchor
    <3>2. QED
      BY <1>1, <3>1, ConstantsAssumption
  <2>3. /\ frozen \in {"none", "cancel", "timeout"}
        /\ d.drain # "none" => frozen = d.drain
    BY <1>1 DEF Causes
  <2>4. x \in Int /\ (d.cancelAt # Null => x = d.cancelAt)
    BY <1>1
  <2> HIDE DEF deadline, frozen
  <2>5. y \in Int /\ (renew \/ y <= d.lease)
    BY <1>1, <2>2, ConstantsAssumption DEF MinOf
  <2> HIDE DEF x, y
  <2>6. r = [d EXCEPT !.drain = frozen, !.drainDeadline = deadline,
                      !.cancelAt = x, !.lease = y]
    BY <1>1, <1>3 DEF FreezeJobReceiptDrain, x, y, frozen, deadline, Rows
  <2>7. r \in Rows
    <3>1. frozen \in {"none", "cancel", "timeout"} /\ deadline \in Int
          /\ x \in Int /\ y \in Int
      BY <2>2, <2>3, <2>4, <2>5
    <3>2. QED
      BY <2>6, <3>1 DEF Rows
  <2>8. /\ r.drain = frozen /\ r.drainDeadline = deadline /\ r.cancelAt = x
        /\ r.lease = y /\ Place(r) = Place(d) /\ Talk(r) = Talk(d)
        /\ Meter(r) = Meter(d) /\ r.events = d.events /\ r.root = d.root
    BY <2>6 DEF Rows, Place, Talk, Meter
  <2>9. QED
    BY <2>1, <2>2, <2>3, <2>4, <2>5, <2>7, <2>8 DEF Hushed, Quiet, StopGrows
<1>4. QED
  BY <1>2, <1>3

\* So is the whole of retainStopReceiptLease.
LEMMA RetainShape ==
    ASSUME NEW d \in Rows, NEW cause \in Causes, NEW c \in Int,
           NEW t \in Int, t >= 0, NEW renew \in BOOLEAN,
           NEW r, r = RetainStopReceiptLease(d, cause, c, t, renew)
    PROVE  Hushed(d, r) /\ (renew \/ r.lease <= d.lease)
<1> DEFINE f == FreezeJobReceiptDrain(d, cause, c, t, renew)
           reason == IF (IF d.drain # "none" THEN d.drain ELSE cause) = "timeout"
                     THEN "budget_exhausted" ELSE "user_request"
<1>1. reason \in {"user_request", "budget_exhausted"}
  OBVIOUS
<1>2. Hushed(d, f) /\ (renew \/ f.lease <= d.lease)
  BY FreezeShape
<1>3. r = CancelRuntimeRoot(f, reason)
  BY DEF RetainStopReceiptLease
<1> HIDE DEF f, reason
<1>4. f \in Rows
  BY <1>2 DEF Hushed
<1>5. Hushed(f, r) /\ r.lease = f.lease
  BY <1>1, <1>3, <1>4, RootShape
<1>6. QED
  BY <1>2, <1>5, HushedChain

\* stopJobOrDrain keeps the job draining or ends it.
LEMMA StopOrDrainShape ==
    ASSUME NEW d \in Rows, d.status \in LiveJobStatuses, NEW cause \in Causes,
           cause = "cancel" => d.cancelAt # Null,
           NEW t \in Int, t >= 0, NEW renew \in BOOLEAN,
           NEW r, r = StopJobOrDrain(d, cause, t, renew)
    PROVE  \/ Hushed(d, r) /\ (renew \/ r.lease <= d.lease)
           \/ Ended(d, r)
<1> DEFINE kept == RetainStopReceiptLease(d, cause, d.cancelAt, t, renew)
<1>1. d.cancelAt \in Int
  BY DEF Rows
<1>2. Hushed(d, kept) /\ (renew \/ kept.lease <= d.lease)
  BY <1>1, RetainShape
<1>3. r = kept \/ r = TransitionStoppedJob(kept, cause)
  BY DEF StopJobOrDrain
<1> HIDE DEF kept
<1>4. kept \in Rows /\ kept.status \in LiveJobStatuses
      /\ (cause = "cancel" => kept.cancelAt # Null)
  BY <1>2 DEF Hushed, Quiet, StopGrows, Place
<1>5. Ended(d, TransitionStoppedJob(kept, cause))
  BY <1>2, <1>4, StoppedShape, HushedEnd
<1>6. QED
  BY <1>2, <1>3, <1>5

\* A cancel cause has its request on the row.
LEMMA CauseRecorded ==
    ASSUME NEW d, StopOK(d), NEW t, QueueStopCause(d, t) = "cancel"
    PROVE  d.cancelAt # Null
BY DEF QueueStopCause, StopOK

\* requestCancellationTransaction records the stop and ends nothing.
LEMMA CancelShape ==
    ASSUME now \in Nat, now >= MaxSkew, NEW h \in Hosts,
           NEW d \in Rows, d.status # "absent",
           NEW r, r = RequestCancellation(d, h)
    PROVE  Hushed(d, r) /\ r.cancelAt # Null /\ r.lease <= d.lease
<1> DEFINE cut  == CancelRuntimeRoot(d, "user_request")
           cut1 == [cut EXCEPT !.cancelAt = IF @ = Null THEN now ELSE @]
           cause == IF QueueStopCause(d, Local(h)) = "none" THEN "cancel"
                    ELSE QueueStopCause(d, Local(h))
           c == IF d.cancelAt # Null THEN d.cancelAt ELSE Local(h)
           renew == FALSE
<1>1. Local(h) \in Int /\ now \in Int /\ now >= 0
  BY LocalType
<1>2. Hushed(d, cut) /\ cut.lease = d.lease
  BY RootShape
<1>3. c \in Int /\ d.lease \in Int
  BY <1>1 DEF Rows
<1>4. cause \in Causes
  BY <1>1, CauseType DEF Causes
<1>5. r = RetainStopReceiptLease(cut1, cause, c, now, renew) /\ renew \in BOOLEAN
  BY DEF RequestCancellation
<1> HIDE DEF cut, cause, c
<1>6. cut \in Rows /\ cut.status # "absent"
  BY <1>2 DEF Hushed, Quiet, Place
<1>7. Hushed(cut, cut1) /\ cut1.lease = cut.lease /\ cut1.cancelAt # Null
  BY <1>1, <1>6, RequestShape
<1> HIDE DEF cut1
<1>8. cut1 \in Rows
  BY <1>7 DEF Hushed
<1>9. Hushed(cut1, r) /\ r.lease <= cut1.lease
  BY <1>1, <1>3, <1>4, <1>5, <1>8, RetainShape
<1>10. r.cancelAt # Null
  BY <1>7, <1>9 DEF Hushed, Quiet, StopGrows
<1>11. Hushed(d, r)
  BY <1>2, <1>7, <1>9, HushedChain
<1>12. QED
  BY <1>2, <1>7, <1>9, <1>10, <1>11

\* A heartbeat renews the lease, records a stop, or ends a job that cannot drain.
LEMMA HeartbeatShape ==
    ASSUME now \in Nat, now >= MaxSkew, NEW h \in Hosts,
           NEW d, RowOK(d, now), d.status = "running",
           NEW scheduled \in BOOLEAN, NEW authorized \in BOOLEAN,
           NEW r, r = HeartbeatRow(d, h, scheduled, authorized).row
    PROVE  Hushed(d, r) \/ Ended(d, r)
<1> DEFINE d1 == IF ~scheduled /\ d.cancelAt = Null
                 THEN RequestCancellation(d, h) ELSE d
           cause == QueueStopCause(d1, Local(h))
           revoked == [d1 EXCEPT !.cancelAt = IF @ = Null THEN now ELSE @,
                                 !.revoked = TRUE]
           renewed == [d1 EXCEPT !.lease = Local(h) + LeaseMs]
           yes == TRUE
<1>1. /\ Local(h) \in Int /\ now \in Int /\ now >= 0
      /\ Local(h) + LeaseMs \in Int /\ d \in Rows
  BY LocalType, ConstantsAssumption DEF RowOK, UncutOK
<1>2. RowOK(d1, now) /\ d1.status = "running" /\ d1 \in Rows
  BY CancelOK DEF RowOK, UncutOK
<1>3. Hushed(d, d1)
  BY <1>1, CancelShape DEF Hushed, Quiet, StopGrows
<1>4. yes \in BOOLEAN /\ d1.status \in LiveJobStatuses
  BY <1>2 DEF LiveJobStatuses, LeasedStatuses
<1> HIDE DEF d1, yes
<1>5. CASE cause # "none"
  <2>1. cause \in Causes /\ (cause = "cancel" => d1.cancelAt # Null)
    BY <1>1, <1>2, <1>5, CauseType, CauseRecorded DEF RowOK, UncutOK
  <2>2. r = StopJobOrDrain(d1, cause, now, yes)
    BY <1>5 DEF HeartbeatRow, d1, yes
  <2> HIDE DEF cause
  <2>3. Hushed(d1, r) \/ Ended(d1, r)
    BY <1>1, <1>2, <1>4, <2>1, <2>2, StopOrDrainShape
  <2>4. QED
    BY <1>3, <2>3, HushedChain, HushedEnd
<1>6. CASE cause = "none" /\ ~authorized
  <2> DEFINE by == "cancel"
             x == IF d1.cancelAt = Null THEN now ELSE d1.cancelAt
  <2>1. x \in Int /\ x # Null /\ (d1.cancelAt # Null => x = d1.cancelAt)
    BY <1>1, <1>2 DEF Rows, Null
  <2>2. revoked = [d1 EXCEPT !.cancelAt = x, !.revoked = TRUE]
    BY <1>2 DEF Rows
  <2>3. r = StopJobOrDrain(revoked, by, now, yes) /\ by \in Causes
    BY <1>6 DEF HeartbeatRow, d1, yes, Causes
  <2> HIDE DEF x, revoked, by
  <2>4. revoked \in Rows
    BY <1>2, <2>1, <2>2 DEF Rows
  <2>5. /\ Place(revoked) = Place(d1) /\ Talk(revoked) = Talk(d1)
        /\ Meter(revoked) = Meter(d1) /\ revoked.events = d1.events
        /\ revoked.cancelAt = x /\ revoked.drain = d1.drain
        /\ revoked.drainDeadline = d1.drainDeadline /\ revoked.root = d1.root
    BY <1>2, <2>2 DEF Rows, Place, Talk, Meter
  <2>6. Hushed(d1, revoked)
    BY <1>2, <2>1, <2>4, <2>5 DEF Hushed, Quiet, StopGrows
  <2>7. revoked.status \in LiveJobStatuses /\ revoked.cancelAt # Null
    BY <1>4, <2>1, <2>5 DEF Place
  <2>8. Hushed(revoked, r) \/ Ended(revoked, r)
    BY <1>1, <1>4, <2>3, <2>4, <2>7, StopOrDrainShape
  <2>9. QED
    BY <1>3, <2>6, <2>8, HushedChain, HushedEnd
<1>7. CASE cause = "none" /\ authorized
  <2>1. r = renewed
    BY <1>7 DEF HeartbeatRow, d1
  <2>2. renewed \in Rows
    BY <1>1, <1>2 DEF Rows
  <2>3. /\ Place(renewed) = Place(d1) /\ Talk(renewed) = Talk(d1)
        /\ Meter(renewed) = Meter(d1) /\ renewed.events = d1.events
        /\ Stop(renewed) = Stop(d1)
    BY <1>2 DEF Rows, Place, Talk, Meter, Stop
  <2> HIDE DEF renewed
  <2>4. Hushed(d1, renewed)
    BY <2>2, <2>3 DEF Hushed, Quiet, StopGrows, Stop
  <2>5. QED
    BY <1>3, <2>1, <2>4, HushedChain
<1>8. QED
  BY <1>5, <1>6, <1>7

\* startClaimedJob's admission is a start.
LEMMA RunningShape ==
    ASSUME NEW j, NEW d \in Rows, d.status = "claimed", d.cancelAt = Null,
           NEW u \in Int, NEW t \in Int, NEW r, r = Running(j, d, t)
    PROVE  RowStep(j, d, u, r, t)
<1> DEFINE open == [q \in Questions |->
                      IF d.question[q] = "pending" /\ d.wait[q] # "ready"
                      THEN "closed" ELSE d.question[q]]
           qs == IF j \in Clocked THEN open ELSE d.question
           e == [d EXCEPT !.status = "running", !.run = "running", !.question = qs]
           f == AppendEventOf(e, "run.started", e.attempt)
<1>1. /\ qs \in [Questions -> {"none", "pending", "closed"}]
      /\ \A q \in Questions : qs[q] \in {d.question[q], "closed"}
  BY DEF Rows
<1>2. r = RefreshTaskClock(j, d, f, t)
  BY DEF Running, AppendEvent, Rows
<1> HIDE DEF qs
<1>3. e \in Rows
  BY <1>1 DEF Rows, JobStatuses, LiveJobStatuses, LeasedStatuses, RunStates
<1>4. /\ e.status = "running" /\ e.run = "running" /\ e.attempt = d.attempt
      /\ e.token = d.token /\ e.lease = d.lease /\ Stop(e) = Stop(d)
      /\ Meter(e) = Meter(d) /\ e.question = qs /\ e.wait = d.wait
      /\ e.events = d.events
  BY DEF Rows, Stop, Meter
<1> HIDE DEF e
<1>5. e.attempt \in 0..MaxClaims /\ "run.started" \in EventTypes
  BY <1>3 DEF Rows, EventTypes
<1>6. /\ f \in Rows /\ Job(f) = Job(e) /\ Stop(f) = Stop(e) /\ Talk(f) = Talk(e)
      /\ Meter(f) = Meter(e)
      /\ f.events = Append(e.events, [type |-> "run.started", attempt |-> e.attempt])
  BY <1>3, <1>5, AppendShape
<1> HIDE DEF f
<1>7. /\ Job(r) = Job(f) /\ Stop(r) = Stop(f) /\ Talk(r) = Talk(f)
      /\ r.events = f.events /\ ClockStep(j, d, u, r, t)
  BY <1>2, <1>4, <1>6, RefreshShape
<1>8. Started(d, r)
  <2>1. /\ r.status = "running" /\ r.run = "running" /\ r.attempt = d.attempt
        /\ r.token = d.token /\ r.lease = d.lease
    BY <1>4, <1>6, <1>7 DEF Job
  <2>2. r.question = qs /\ r.wait = d.wait
    BY <1>4, <1>6, <1>7 DEF Talk
  <2>3. r.events = Logged(d, "run.started") /\ Stop(r) = Stop(d)
    BY <1>4, <1>6, <1>7 DEF Logged
  <2>4. QED
    BY <1>1, <2>1, <2>2, <2>3 DEF Started
<1>9. LeaseStep(d, r, t) /\ OverStep(d, r)
  <2>1. d.lease \in Int /\ r.lease = d.lease
    BY <1>8 DEF Started, Rows
  <2>2. QED
    BY <2>1 DEF LeaseStep, OverStep, TerminalJobStatuses
<1>10. QED
  BY <1>7, <1>8, <1>9 DEF RowStep, Written

\* failJob's row, when nothing stopped the job, is a retry or an end.
LEMMA FailedShape ==
    ASSUME now \in Nat, now >= MaxSkew, NEW h \in Hosts,
           NEW j, NEW d \in Rows, d.status = "running", d.cancelAt = Null,
           d.attempt \in Attempts, NEW u \in Int, NEW t \in Int, NEW retryable \in BOOLEAN,
           d.token # Null,
           NEW r, r = FailedRow(j, d, retryable, h, t)
    PROVE  RowStep(j, d, u, r, t)
<1>1. Local(h) \in Int
  BY LocalType
<1>2. CASE retryable /\ d.attempt < MaxAttempts /\ d.timeoutAt > Local(h)
  <2> DEFINE c == ClearLease(d)
             x == Local(h) + RetryDelayMs(d.attempt)
             e == [c EXCEPT !.status = "retry_wait", !.run = "queued",
                            !.availableAt = x]
             f == RefreshTaskClock(j, d, e, t)
  <2>1. x \in Int
    BY <1>1, RetryDelayAssumption
  <2>2. /\ c \in Rows /\ c.token = Null /\ c.attempt = d.attempt
        /\ Stop(c) = Stop(d) /\ Talk(c) = Talk(d) /\ Meter(c) = Meter(d)
        /\ c.events = d.events
    BY ClearShape
  <2>3. r = AppendEventOf(f, "run.retrying", f.attempt)
    BY <1>2 DEF FailedRow, AppendEvent
  <2> HIDE DEF c, x
  <2>4. e \in Rows
    BY <2>1, <2>2 DEF Rows, JobStatuses, LiveJobStatuses, RunStates
  <2>5. /\ e.status = "retry_wait" /\ e.run = "queued" /\ e.token = c.token
        /\ e.attempt = c.attempt /\ Stop(e) = Stop(c) /\ Talk(e) = Talk(c)
        /\ Meter(e) = Meter(c) /\ e.events = c.events
    BY <2>2 DEF Rows, Stop, Talk, Meter
  <2> HIDE DEF e
  <2>6. /\ f \in Rows /\ Job(f) = Job(e) /\ Stop(f) = Stop(e) /\ Talk(f) = Talk(e)
        /\ f.events = e.events /\ ClockStep(j, d, u, f, t)
    BY <2>2, <2>4, <2>5, RefreshShape
  <2> HIDE DEF f
  <2>7. f.attempt \in 0..MaxClaims /\ "run.retrying" \in EventTypes
    BY <2>6 DEF Rows, EventTypes
  <2>8. /\ r \in Rows /\ Job(r) = Job(f) /\ Stop(r) = Stop(f) /\ Talk(r) = Talk(f)
        /\ Meter(r) = Meter(f)
        /\ r.events = Append(f.events, [type |-> "run.retrying", attempt |-> f.attempt])
    BY <2>3, <2>6, <2>7, AppendShape
  <2>9. ClockStep(j, d, u, r, t)
    <3>1. r.run = f.run /\ r.question = f.question /\ r.timeoutAt = f.timeoutAt
          /\ r.left = f.left /\ r.status = f.status
      BY <2>8 DEF Job, Talk, Meter
    <3>2. TaskClockPhase(r) = TaskClockPhase(f)
      BY <3>1 DEF TaskClockPhase
    <3>3. QED
      BY <2>6, <3>1, <3>2 DEF ClockStep, Charged, MeterOK, LeftAt
  <2>10. GivenBack(d, r)
    <3>1. /\ r.status = "retry_wait" /\ r.run = "queued" /\ r.attempt = d.attempt
          /\ f.attempt = d.attempt /\ r.token = Null
      BY <2>2, <2>5, <2>6, <2>8 DEF Job
    <3>2. r.events = Logged(d, "run.retrying") /\ Stop(r) = Stop(d) /\ Talk(r) = Talk(d)
      BY <2>2, <2>5, <2>6, <2>8, <3>1 DEF Logged
    <3>3. QED
      BY <3>1, <3>2 DEF GivenBack, LeasedStatuses
  <2>11. LeaseStep(d, r, t) /\ OverStep(d, r)
    BY <2>10 DEF LeaseStep, OverStep, GivenBack, TerminalJobStatuses, LeasedStatuses
  <2>12. QED
    BY <2>9, <2>10, <2>11 DEF RowStep, Written
<1>3. CASE ~(retryable /\ d.attempt < MaxAttempts /\ d.timeoutAt > Local(h))
  <2> DEFINE s == IF retryable /\ d.attempt >= MaxAttempts
                  THEN "dead_letter" ELSE "failed"
  <2>1. s \in TerminalJobStatuses /\ s \notin {"succeeded", "canceled"}
    BY DEF TerminalJobStatuses
  <2>2. r = TransitionTerminal(d, s)
    BY <1>3 DEF FailedRow
  <2>3. d.status \in LiveJobStatuses
    BY DEF LiveJobStatuses, LeasedStatuses
  <2> HIDE DEF s
  <2>4. Ended(d, r)
    BY <2>1, <2>2, <2>3, EndShape
  <2>5. QED
    BY <2>4, EndStep
<1>4. QED
  BY <1>2, <1>3

\* A recovered lease gives the job back.
LEMMA RecoverShape ==
    ASSUME now \in Int, NEW scan \in Int, NEW j, NEW d \in Rows,
           d.status \in LeasedStatuses, d.cancelAt = Null,
           NEW r, r = RecoverLease(j, d, scan)
    PROVE  RowStep(j, d, now, r, now)
<1> DEFINE t == now
           c == ClearLease(d)
           e == [c EXCEPT !.status = "queued", !.run = "queued", !.availableAt = scan]
           f == AppendEventOf(e, "lease.recovered", e.attempt)
<1>1. /\ c \in Rows /\ c.token = Null /\ c.attempt = d.attempt
      /\ Stop(c) = Stop(d) /\ Talk(c) = Talk(d) /\ Meter(c) = Meter(d)
      /\ c.events = d.events
  BY ClearShape
<1>2. r = RefreshTaskClock(j, d, f, now)
  BY DEF RecoverLease, AppendEvent
<1> HIDE DEF c
<1>3. e \in Rows
  BY <1>1 DEF Rows, JobStatuses, LiveJobStatuses, RunStates
<1>4. /\ e.status = "queued" /\ e.run = "queued" /\ e.token = c.token
      /\ e.attempt = c.attempt /\ Stop(e) = Stop(c) /\ Talk(e) = Talk(c)
      /\ Meter(e) = Meter(c) /\ e.events = c.events
  BY <1>1 DEF Rows, Stop, Talk, Meter
<1> HIDE DEF e
<1>5. e.attempt \in 0..MaxClaims /\ "lease.recovered" \in EventTypes
  BY <1>3 DEF Rows, EventTypes
<1>6. /\ f \in Rows /\ Job(f) = Job(e) /\ Stop(f) = Stop(e) /\ Talk(f) = Talk(e)
      /\ Meter(f) = Meter(e)
      /\ f.events = Append(e.events, [type |-> "lease.recovered", attempt |-> e.attempt])
  BY <1>3, <1>5, AppendShape
<1> HIDE DEF f
<1>7. /\ Job(r) = Job(f) /\ Stop(r) = Stop(f) /\ Talk(r) = Talk(f)
      /\ r.events = f.events /\ ClockStep(j, d, t, r, t)
  <2>1. r = RefreshTaskClock(j, d, f, t) /\ t \in Int
    BY <1>2
  <2>2. Meter(f) = Meter(d) /\ f \in Rows
    BY <1>1, <1>4, <1>6
  <2> HIDE DEF t
  <2>3. QED
    BY <2>1, <2>2, RefreshShape
<1>8. GivenBack(d, r)
  <2>1. r.status = "queued" /\ r.run = "queued" /\ r.attempt = d.attempt /\ r.token = Null
    BY <1>1, <1>4, <1>6, <1>7 DEF Job
  <2>2. r.events = Logged(d, "lease.recovered") /\ Stop(r) = Stop(d) /\ Talk(r) = Talk(d)
    BY <1>1, <1>4, <1>6, <1>7 DEF Logged
  <2>3. QED
    BY <2>1, <2>2 DEF GivenBack
<1>9. LeaseStep(d, r, now) /\ OverStep(d, r)
  BY <1>8 DEF LeaseStep, OverStep, GivenBack, TerminalJobStatuses, LeasedStatuses
<1>10. QED
  BY <1>7, <1>8, <1>9 DEF RowStep, Written

\* Whatever maintainQueue decides is one of the ways to write a row.
LEMMA MaintainedShape ==
    ASSUME now \in Nat, now >= MaxSkew, NEW h \in Hosts,
           NEW j, NEW d, RowOK(d, now), NEW scan \in Int,
           NEW r, r = MaintainedRow(j, d, Local(h), scan)
    PROVE  RowStep(j, d, now, r, now)
<1> DEFINE t == Local(h)
           action == IF d.status \in LiveJobStatuses
                     THEN QueueMaintenanceAction(d, t) ELSE "none"
           cause == QueueStopCause(d, t)
           no == FALSE
<1>1. t \in Int /\ now \in Int /\ now >= 0 /\ d \in Rows /\ no \in BOOLEAN /\ StopOK(d)
  BY LocalType DEF RowOK, UncutOK
<1>2. action \in {"none", "cancel", "timeout", "promote_retry", "dead_letter", "recover_lease"}
  BY <1>1, CauseType DEF QueueMaintenanceAction, Causes
<1>3. /\ action \in {"promote_retry", "dead_letter", "recover_lease"} => d.cancelAt = Null
      /\ action # "none" => d.status \in LiveJobStatuses
  BY <1>1, CauseType DEF QueueMaintenanceAction, QueueStopCause, Causes
<1>4. CASE action \in {"cancel", "timeout"}
  <2>1. action = cause /\ cause # "none"
    BY <1>4 DEF QueueMaintenanceAction
  <2>2. action \in Causes /\ (action = "cancel" => d.cancelAt # Null)
    BY <1>1, <2>1, CauseType, CauseRecorded
  <2>3. r = StopJobOrDrain(d, action, now, no)
    BY <1>4 DEF MaintainedRow
  <2>4. d.status \in LiveJobStatuses
    BY <1>3, <1>4
  <2> HIDE DEF action, t, no
  <2>5. (Hushed(d, r) /\ (no \/ r.lease <= d.lease)) \/ Ended(d, r)
    BY <1>1, <2>2, <2>3, <2>4, StopOrDrainShape
  <2>6. CASE Ended(d, r)
    BY <2>6, EndStep
  <2>7. CASE Hushed(d, r) /\ r.lease <= d.lease
    <3>1. d.lease \in Int /\ r.lease \in Int
      BY <1>1, <2>7 DEF Rows, Hushed
    <3>2. LeaseStep(d, r, now) /\ OverStep(d, r)
      BY <2>4, <2>7, <3>1 DEF LeaseStep, OverStep, LiveJobStatuses, LeasedStatuses,
         TerminalJobStatuses
    <3>3. QED
      BY <1>1, <2>7, <3>2, HushedStep
  <2>8. QED
    BY <2>5, <2>6, <2>7 DEF no
<1>5. CASE action = "promote_retry"
  <2>1. d.status = "retry_wait" /\ d.cancelAt = Null
    BY <1>1, <1>3, <1>5, CauseType DEF QueueMaintenanceAction, Causes
  <2>2. r = [d EXCEPT !.status = "queued"]
    BY <1>5 DEF MaintainedRow
  <2>3. r \in Rows
    BY <1>1, <2>2 DEF Rows, JobStatuses, LiveJobStatuses
  <2>4. /\ r.status = "queued" /\ r.run = d.run /\ r.attempt = d.attempt
        /\ r.token = d.token /\ r.lease = d.lease /\ Talk(r) = Talk(d)
        /\ Stop(r) = Stop(d) /\ Meter(r) = Meter(d) /\ r.events = d.events
    BY <1>1, <2>2 DEF Rows, Talk, Stop, Meter
  <2>5. Promoted(d, r)
    BY <2>1, <2>4 DEF Promoted
  <2>6. ClockStep(j, d, now, r, now)
    BY <1>1, <2>3, <2>4, SteadyClock DEF Talk
  <2>7. d.token = Null
    BY <2>1 DEF RowOK, UncutOK, LeaseOK, LeasedStatuses
  <2>8. LeaseStep(d, r, now) /\ OverStep(d, r)
    BY <2>1, <2>7 DEF LeaseStep, OverStep, TerminalJobStatuses
  <2>9. QED
    BY <2>5, <2>6, <2>8 DEF RowStep, Written
<1>6. CASE action = "dead_letter"
  <2> DEFINE s == "dead_letter"
  <2>1. s \in TerminalJobStatuses /\ s \notin {"succeeded", "canceled"}
    BY DEF TerminalJobStatuses
  <2>2. r = TransitionTerminal(d, s)
    BY <1>6 DEF MaintainedRow
  <2> HIDE DEF s
  <2>3. Ended(d, r)
    BY <1>1, <1>3, <1>6, <2>1, <2>2, EndShape
  <2>4. QED
    BY <2>3, EndStep
<1>7. CASE action = "recover_lease"
  <2>1. d.status \in LeasedStatuses
    BY <1>1, <1>7, CauseType DEF QueueMaintenanceAction, Causes
  <2>2. r = RecoverLease(j, d, scan)
    BY <1>7 DEF MaintainedRow
  <2>3. QED
    BY <1>1, <1>3, <1>7, <2>1, <2>2, RecoverShape
<1>8. CASE action = "none"
  <2>1. r = d
    BY <1>8 DEF MaintainedRow
  <2>2. Hushed(d, d) /\ d.lease \in Int
    BY <1>1 DEF Hushed, Quiet, StopGrows, Rows
  <2>3. OverStep(d, d)
    BY <1>1 DEF OverStep, Rows
  <2>4. LeaseStep(d, d, now)
    BY <2>2 DEF LeaseStep
  <2>5. QED
    BY <1>1, <2>1, <2>2, <2>3, <2>4, HushedStep
<1>9. QED
  BY <1>2, <1>4, <1>5, <1>6, <1>7, <1>8

-----------------------------------------------------------------------------
(* Every step writes at most one row, in one of these ways.                 *)

\* The step from one state to the next, row by row.
RowSteps ==
    /\ \A k \in Jobs : RowStep(k, row[k], now, row'[k], now')
    /\ \A j, k \in Jobs : row'[j] # row[j] /\ row'[k] # row[k] => j = k

\* A row nobody writes.
LEMMA IdleStep ==
    ASSUME NEW k, NEW d \in Rows, NEW u \in Int, NEW t \in Int, u <= t
    PROVE  RowStep(k, d, u, d, t)
<1>1. Hushed(d, d) /\ d.lease \in Int
  BY DEF Hushed, Quiet, StopGrows, Rows
<1>2. OverStep(d, d)
  BY DEF OverStep, Rows
<1>3. LeaseStep(d, d, t)
  BY <1>1 DEF LeaseStep
<1>4. QED
  BY <1>1, <1>2, <1>3, HushedStep

\* A step that writes no row, whatever the clock does.
LEMMA IdleSteps ==
    ASSUME IInv, UNCHANGED row, now' \in Int, now <= now'
    PROVE  RowSteps
<1> DEFINE t == now'
<1>1. now \in Int /\ t \in Int /\ now <= t
  BY DEF IInv
<1> HIDE DEF t
<1>2. ASSUME NEW k \in Jobs PROVE RowStep(k, row[k], now, row[k], t)
  BY <1>1, IdleStep DEF IInv
<1>3. QED
  BY <1>2 DEF RowSteps, t

\* A transaction that writes one row.
LEMMA CommitSteps ==
    ASSUME IInv, NEW j \in Jobs, NEW e, NEW t \in Int, now <= t, Commit(j, e, t),
           RowStep(j, row[j], now, e, t)
    PROVE  RowSteps
<1>1. now' = t /\ now \in Int /\ row'[j] = e
  BY DEF IInv, Commit
<1>2. ASSUME NEW k \in Jobs, k # j PROVE RowStep(k, row[k], now, row'[k], t)
  <2>1. row'[k] = row[k] /\ row[k] \in Rows
    BY <1>2 DEF IInv, Commit
  <2>2. QED
    BY <1>1, <2>1, IdleStep
<1>3. \A k \in Jobs : k # j => row'[k] = row[k]
  BY DEF IInv, Commit
<1>4. QED
  BY <1>1, <1>2, <1>3 DEF RowSteps

\* The fields of an opened row that a write depends on are the row's.
LEMMA OpenedWritten ==
    ASSUME NEW j, NEW d, NEW o, NEW e, Written(j, o, e),
           Job(o) = Job(d), Stop(o) = Stop(d), Talk(o) = Talk(d), o.events = d.events
    PROVE  Written(j, d, e)
<1>1. /\ o.status = d.status /\ o.attempt = d.attempt /\ o.token = d.token
      /\ o.lease = d.lease /\ o.run = d.run /\ o.question = d.question
      /\ o.wait = d.wait
  BY DEF Job, Talk
<1>2. /\ o.cancelAt = d.cancelAt /\ o.revoked = d.revoked /\ o.drain = d.drain
      /\ o.drainDeadline = d.drainDeadline /\ o.root = d.root
  BY DEF Stop
<1>3. Place(o) = Place(d) /\ (\A type : Logged(o, type) = Logged(d, type))
  BY <1>1 DEF Place, Logged
<1>4. StopGrows(o, e) => StopGrows(d, e)
  BY <1>2 DEF StopGrows
<1>5. CASE Quiet(o, e)
  BY <1>1, <1>2, <1>3, <1>4, <1>5 DEF Quiet, Written
<1>6. CASE Enqueued(j, o, e) \/ Claimed(o, e) \/ Started(o, e)
  BY <1>1, <1>2, <1>3, <1>6 DEF Enqueued, Claimed, Started, Written
<1>7. CASE Stepped(j, o, e) \/ Promoted(o, e) \/ GivenBack(o, e)
  BY <1>1, <1>2, <1>3, <1>7 DEF Stepped, Promoted, GivenBack, Written
<1>8. CASE Parked(o, e)
  BY <1>1, <1>2, <1>8 DEF Parked, Written
<1>9. CASE Continued(o, e)
  BY <1>1, <1>2, <1>9 DEF Continued, Written
<1>10. CASE Woken(o, e)
  BY <1>1, <1>2, <1>10 DEF Woken, Written
<1>11. CASE Ended(o, e)
  BY <1>1, <1>3, <1>4, <1>11 DEF Ended, Written
<1>12. QED
  BY <1>5, <1>6, <1>7, <1>8, <1>9, <1>10, <1>11 DEF Written

\* Opening a row refreshes its clock: what is written to the opened row is written
\* to the row.
LEMMA OpenedStep ==
    ASSUME IInv, NEW j \in Jobs, NEW o, o = Opened(j),
           NEW e, NEW t \in Int, RowStep(j, o, now, e, t)
    PROVE  RowStep(j, row[j], now, e, t)
<1> DEFINE d == row[j]
           n == now
<1>1. n \in Int /\ d \in Rows /\ RowOK(d, n)
  BY DEF IInv
<1>2. CASE j \notin Clocked \/ TaskClockPhase(d) = "terminal"
  BY <1>2 DEF Opened, RefreshTaskClock
<1>3. CASE j \in Clocked /\ TaskClockPhase(d) # "terminal"
  <2>1. o = RefreshTaskClock(j, d, d, n)
    BY DEF Opened
  <2>2. RowStep(j, o, n, e, t)
    OBVIOUS
  <2> HIDE DEF d, n
  <2>3. /\ o \in Rows /\ Job(o) = Job(d) /\ Stop(o) = Stop(d) /\ Talk(o) = Talk(d)
        /\ o.events = d.events /\ ClockStep(j, d, n, o, n)
    BY <1>1, <2>1, RefreshShape
  <2>4. Written(j, d, e)
    BY <2>2, <2>3, OpenedWritten DEF RowStep
  <2>5. /\ o.status = d.status /\ o.token = d.token /\ o.lease = d.lease
        /\ o.run = d.run /\ o.question = d.question
    BY <2>3 DEF Job, Talk
  <2>6. LeaseStep(d, e, t)
    BY <2>2, <2>5 DEF RowStep, LeaseStep
  <2>7. d.status \notin TerminalJobStatuses
    BY <1>1, <1>3 DEF RowOK, UncutOK, RunOK, TaskClockPhase, TerminalRunStates,
       TerminalJobStatuses
  <2>8. TaskClockPhase(o) = TaskClockPhase(d)
    BY <2>5 DEF TaskClockPhase
  <2>9. ASSUME d.status # "absent", TaskClockPhase(e) # "terminal"
        PROVE  Charged(d, n, e, t) /\ (MeterOK(j, d, n) => MeterOK(j, e, t))
    <3>1. Charged(d, n, o, n) /\ (MeterOK(j, d, n) => MeterOK(j, o, n))
      BY <1>3, <2>3, <2>8, <2>9 DEF ClockStep
    <3>2. Charged(o, n, e, t) /\ (MeterOK(j, o, n) => MeterOK(j, e, t))
      BY <1>3, <2>2, <2>5, <2>9 DEF RowStep, ClockStep
    <3>3. LeftAt(d, n) \in Int
      BY <1>1 DEF LeftAt, Rows
    <3>4. QED
      BY <1>1, <2>8, <3>1, <3>2, <3>3 DEF Charged
  <2>10. ClockStep(j, d, n, e, t) /\ OverStep(d, e)
    BY <2>7, <2>9 DEF ClockStep, OverStep
  <2>11. RowStep(j, d, n, e, t)
    BY <2>4, <2>6, <2>10 DEF RowStep
  <2>12. QED
    BY <2>11 DEF d, n
<1>4. QED
  BY <1>2, <1>3

\* A transaction that opens a row and writes it.
LEMMA OpenedCommit ==
    ASSUME IInv, NEW j \in Jobs, NEW o, o = Opened(j), NEW e, NEW t \in Int, now <= t,
           Commit(j, e, t), RowStep(j, o, now, e, t)
    PROVE  RowSteps
BY OpenedStep, CommitSteps

\* A transaction that opens a row and ends its job.
LEMMA OpenedEnd ==
    ASSUME IInv, NEW j \in Jobs, NEW o, o = Opened(j), NEW e, NEW t \in Int, now <= t,
           Commit(j, e, t), Ended(o, e)
    PROVE  RowSteps
BY EndStep, OpenedCommit

\* A live row is not over, so any of its records may still be written.
LEMMA NotOver ==
    ASSUME NEW d, NEW e, d.status \notin TerminalJobStatuses
    PROVE  OverStep(d, e)
BY DEF OverStep

\* The web's operations.
LEMMA WebSteps ==
    ASSUME IInv, NEW j \in Jobs, WebStep(j)
    PROVE  RowSteps
<1> DEFINE d == row[j]
           n == now
<1>1. /\ n \in Int /\ n \in Nat /\ n >= 0 /\ n >= MaxSkew
      /\ d \in Rows /\ RowOK(d, n) /\ d.lease \in Int
  BY ConstantsAssumption DEF IInv, Rows
<1>2. ASSUME NEW e, Hushed(d, e), e.lease <= d.lease, OverStep(d, e), Commit(j, e, n)
      PROVE  RowSteps
  <2>1. e.lease \in Int
    BY <1>2 DEF Hushed, Rows
  <2>2. LeaseStep(d, e, n)
    BY <1>1, <1>2, <2>1 DEF LeaseStep
  <2>3. RowStep(j, d, n, e, n)
    BY <1>1, <1>2, <2>2, HushedStep
  <2>4. QED
    BY <1>1, <1>2, <2>3, CommitSteps
<1>3. CASE EnqueueRun(j)
  <2> DEFINE x == IF j \in Clocked \/ Budget = 0 THEN Never ELSE Local(Web) + Budget
             y == IF j \in Clocked THEN Budget ELSE 0
             e == [d EXCEPT !.status = "queued", !.run = "queued",
                            !.availableAt = Local(Web), !.timeoutAt = x, !.left = y]
             r == AppendEventOf(e, "run.created", e.attempt)
  <2>1. Local(Web) \in Int
    BY <1>1, LocalType DEF Hosts
  <2>2. x \in Int /\ y \in Int
    BY <2>1, ConstantsAssumption DEF Never
  <2>3. d.status = "absent" /\ Commit(j, r, n)
    BY <1>3 DEF EnqueueRun, AppendEvent
  <2> HIDE DEF d, x, y
  <2>4. e \in Rows
    BY <1>1, <2>1, <2>2 DEF Rows, JobStatuses, LiveJobStatuses, RunStates
  <2>5. /\ e.status = "queued" /\ e.run = "queued" /\ e.token = d.token
        /\ e.attempt = d.attempt /\ Stop(e) = Stop(d) /\ Talk(e) = Talk(d)
        /\ e.events = d.events /\ e.timeoutAt = x /\ e.left = y
    BY <1>1 DEF Rows, Stop, Talk
  <2> HIDE DEF e
  <2>6. e.attempt \in 0..MaxClaims /\ "run.created" \in EventTypes
    BY <2>4 DEF Rows, EventTypes
  <2>7. /\ Job(r) = Job(e) /\ Stop(r) = Stop(e) /\ Talk(r) = Talk(e)
        /\ Meter(r) = Meter(e)
        /\ r.events = Append(e.events, [type |-> "run.created", attempt |-> e.attempt])
    BY <2>4, <2>6, AppendShape
  <2> HIDE DEF r
  <2>8. Enqueued(j, d, r)
    <3>1. /\ r.status = "queued" /\ r.run = "queued" /\ r.token = d.token
          /\ r.attempt = d.attempt
      BY <2>5, <2>7 DEF Job
    <3>2. j \in Clocked => r.timeoutAt = Never /\ r.left = Budget
      BY <2>5, <2>7 DEF Meter, x, y
    <3>3. QED
      BY <2>3, <2>5, <2>7, <3>1, <3>2 DEF Enqueued, Logged
  <2>9. d.token = Null
    BY <1>1, <2>3 DEF RowOK, UncutOK, LeaseOK, LeasedStatuses
  <2>10. LeaseStep(d, r, n) /\ OverStep(d, r) /\ ClockStep(j, d, n, r, n)
    BY <2>3, <2>9 DEF LeaseStep, OverStep, ClockStep, TerminalJobStatuses
  <2>11. RowStep(j, d, n, r, n)
    BY <2>8, <2>10 DEF RowStep, Written
  <2>12. QED
    BY <1>1, <2>3, <2>11, CommitSteps DEF d
<1>4. CASE CancelRun(j)
  <2> DEFINE r1 == CancelRuntimeRoot(d, "user_request")
             r2 == RequestCancellation(d, Web)
  <2>1. /\ d.status # "absent"
        /\ \/ Commit(j, r1, n)
           \/ ~IsTerminalJobStatus(d.status) /\ Commit(j, r2, n)
    BY <1>4 DEF CancelRun
  <2>2. CASE Commit(j, r1, n)
    <3>1. Hushed(d, r1) /\ r1.lease = d.lease
      BY <1>1, RootShape
    <3>2. OverStep(d, r1)
      BY <1>1 DEF OverStep, CancelRuntimeRoot, Rows
    <3> HIDE DEF r1, d, n
    <3>3. QED
      BY <1>1, <1>2, <2>2, <3>1, <3>2
  <2>3. CASE ~IsTerminalJobStatus(d.status) /\ Commit(j, r2, n)
    <3>1. Hushed(d, r2) /\ r2.lease <= d.lease
      BY <1>1, <2>1, CancelShape DEF Hosts
    <3>2. OverStep(d, r2)
      BY <2>3 DEF OverStep, IsTerminalJobStatus
    <3> HIDE DEF r2, d, n
    <3>3. QED
      BY <1>1, <1>2, <2>3, <3>1, <3>2
  <2>4. QED
    BY <2>1, <2>2, <2>3
<1>5. CASE RevokeCompletedReview(j)
  <2> DEFINE c == CancelRuntimeRoot(d, "user_request")
             r == [c EXCEPT !.cancelAt = IF @ = Null THEN n ELSE @]
  <2>1. d.status = "succeeded" /\ Commit(j, r, n)
    BY <1>5 DEF RevokeCompletedReview
  <2>2. Hushed(d, c) /\ c.lease = d.lease
    BY <1>1, RootShape
  <2>3. c \in Rows /\ c.status # "absent"
    BY <2>1, <2>2 DEF Hushed, Quiet, Place
  <2>4. OverStep(d, c)
    BY <1>1 DEF OverStep, CancelRuntimeRoot, Rows
  <2>5. d.status \in TerminalJobStatuses
    BY <2>1 DEF TerminalJobStatuses
  <2>6. c = [d EXCEPT !.cancelAt = c.cancelAt, !.root = c.root]
    BY <2>4, <2>5 DEF OverStep
  <2> HIDE DEF c, d, n
  <2>7. Hushed(c, r) /\ r.lease = c.lease
    BY <1>1, <2>3, RequestShape
  <2>8. r = [d EXCEPT !.cancelAt = r.cancelAt, !.root = r.root]
    BY <1>1, <2>3, <2>6 DEF Rows
  <2>9. OverStep(d, r)
    BY <2>8 DEF OverStep
  <2> HIDE DEF r
  <2>10. Hushed(d, r)
    BY <2>2, <2>7, HushedChain
  <2>11. QED
    BY <1>1, <1>2, <2>1, <2>2, <2>7, <2>9, <2>10
<1>6. CASE CancelByPolicyChange(j)
  <2> DEFINE r == [d EXCEPT !.cancelAt = IF @ = Null THEN n ELSE @]
  <2>1. Commit(j, r, n) /\ d.status \in LiveJobStatuses
    BY <1>6 DEF CancelByPolicyChange
  <2>2. d.status # "absent" /\ d.status \notin TerminalJobStatuses
    BY <2>1 DEF LiveJobStatuses, LeasedStatuses, TerminalJobStatuses
  <2> HIDE DEF d, n
  <2>3. Hushed(d, r) /\ r.lease = d.lease
    BY <1>1, <2>2, RequestShape
  <2> HIDE DEF r
  <2>4. OverStep(d, r)
    BY <2>2, NotOver
  <2>5. QED
    BY <1>1, <1>2, <2>1, <2>3, <2>4
<1>7. QED
  BY <1>3, <1>4, <1>5, <1>6 DEF WebStep

\* claimNextJob.
LEMMA ClaimSteps ==
    ASSUME IInv, NEW w \in Workers, NEW j \in Jobs, ClaimNextJob(w, j)
    PROVE  RowSteps
<1> DEFINE d == row[j]
           a == d.attempt + 1
           n == now
<1>1. n \in Int /\ d \in Rows /\ RowOK(d, n)
  BY DEF IInv
<1>2. d.status = "queued" /\ d.cancelAt = Null /\ a <= MaxClaims
  BY DEF ClaimNextJob
<1>3. PICK t \in CommitTimes :
        Commit(j, [d EXCEPT !.status = "claimed", !.attempt = a,
                            !.token = a, !.lease = t + LeaseMs], t)
  BY DEF ClaimNextJob
<1>4. t \in Int /\ t + LeaseMs \in Int /\ n <= t
  BY CommitTimesType, ConstantsAssumption
<1>5. a \in 0..MaxClaims /\ a \in Attempts
  <2>1. d.attempt \in 0..MaxClaims
    BY <1>1 DEF Rows
  <2>2. QED
    BY <1>2, <2>1, ConstantsAssumption DEF Attempts
<1> DEFINE r == [d EXCEPT !.status = "claimed", !.attempt = a,
                          !.token = a, !.lease = t + LeaseMs]
<1>6. Commit(j, r, t)
  BY <1>3
<1> HIDE DEF d, a, n
<1>7. r \in Rows
  BY <1>1, <1>4, <1>5 DEF Rows, JobStatuses, LiveJobStatuses, LeasedStatuses
<1>8. /\ r.status = "claimed" /\ r.attempt = a /\ r.token = a
      /\ r.run = d.run /\ Stop(r) = Stop(d) /\ Talk(r) = Talk(d)
      /\ Meter(r) = Meter(d) /\ r.events = d.events /\ r.question = d.question
  BY <1>1 DEF Rows, Stop, Talk, Meter
<1> HIDE DEF r
<1>9. Claimed(d, r)
  BY <1>2, <1>8 DEF Claimed, a
<1>10. ClockStep(j, d, n, r, t)
  BY <1>1, <1>4, <1>7, <1>8, SteadyClock
<1>11. d.token = Null
  BY <1>1, <1>2 DEF RowOK, UncutOK, LeaseOK, LeasedStatuses
<1>12. LeaseStep(d, r, t) /\ OverStep(d, r)
  BY <1>2, <1>11 DEF LeaseStep, OverStep, TerminalJobStatuses
<1>13. RowStep(j, d, n, r, t)
  BY <1>9, <1>10, <1>12 DEF RowStep, Written
<1>14. QED
  BY <1>4, <1>6, <1>13, CommitSteps DEF d, n

\* startClaimedJob.
LEMMA StartSteps ==
    ASSUME IInv, NEW j \in Jobs, NEW a \in Attempts, StartClaimedJob(j, a)
    PROVE  RowSteps
<1> DEFINE d == Opened(j)
           n == now
<1>1. d.status = "claimed"
  BY DEF StartClaimedJob
<1>2. n \in Int /\ d \in Rows /\ d.status \in LiveJobStatuses
  BY <1>1, OpenedOK DEF LiveJobStatuses, LeasedStatuses
<1>3. ASSUME NEW s \in {"canceled", "failed", "dead_letter"},
             s = "canceled" => d.cancelAt # Null, s = "dead_letter" => d.cancelAt = Null,
             Commit(j, TransitionTerminal(d, s), n)
      PROVE  RowSteps
  <2>1. s \in TerminalJobStatuses
    BY DEF TerminalJobStatuses
  <2>2. ASSUME NEW o, o = d PROVE Ended(o, TransitionTerminal(o, s))
    <3> HIDE DEF d
    <3> QED BY <1>2, <1>3, <2>1, <2>2, EndShape
  <2>3. QED
    BY <1>2, <1>3, <2>2, OpenedEnd
<1>4. ASSUME d.cancelAt = Null, NEW t \in CommitTimes, Commit(j, Running(j, d, t), t)
      PROVE  RowSteps
  <2>1. t \in Int /\ now <= t
    BY CommitTimesType
  <2>2. ASSUME NEW o, o = d PROVE RowStep(j, o, n, Running(j, o, t), t)
    <3> HIDE DEF d, n
    <3> QED BY <1>1, <1>2, <1>4, <2>1, <2>2, RunningShape
  <2>3. QED
    BY <1>4, <2>1, <2>2, OpenedCommit
<1>5. QED
  BY <1>3, <1>4 DEF StartClaimedJob

\* A transaction that finds its job stopped and ends it.
LEMMA StoppedSteps ==
    ASSUME IInv, NEW j \in Jobs, NEW o, o = Opened(j), o.status \in LiveJobStatuses,
           NEW u \in Int, QueueStopCause(o, u) # "none",
           NEW t \in Int, now <= t, Commit(j, TransitionStoppedJob(o, QueueStopCause(o, u)), t)
    PROVE  RowSteps
<1> DEFINE cause == QueueStopCause(o, u)
<1>1. o \in Rows /\ StopOK(o)
  BY OpenedOK DEF RowOK, UncutOK, LiveJobStatuses, LeasedStatuses
<1>2. cause \in Causes /\ (cause = "cancel" => o.cancelAt # Null)
  BY <1>1, CauseType, CauseRecorded
<1> HIDE DEF cause
<1>3. Ended(o, TransitionStoppedJob(o, cause))
  BY <1>1, <1>2, StoppedShape
<1>4. QED
  BY <1>3, OpenedEnd DEF cause

\* A transaction that ends an unstopped running or claimed job.
LEMMA UnstoppedEnd ==
    ASSUME IInv, NEW j \in Jobs, NEW o, o = Opened(j), o.status \in LeasedStatuses,
           o.cancelAt = Null, NEW s \in {"succeeded", "failed"},
           s = "succeeded" => o.status = "running",
           NEW t \in Int, now <= t, Commit(j, TransitionTerminal(o, s), t)
    PROVE  RowSteps
<1>1. o \in Rows /\ o.status \in LiveJobStatuses
  BY OpenedOK DEF LiveJobStatuses, LeasedStatuses
<1>2. s \in TerminalJobStatuses
  BY DEF TerminalJobStatuses
<1>3. Ended(o, TransitionTerminal(o, s))
  BY <1>1, <1>2, EndShape
<1>4. QED
  BY <1>3, OpenedEnd

\* A job with no stop cause has no request.
LEMMA NoCause ==
    ASSUME NEW d, NEW t, QueueStopCause(d, t) = "none", d \in Rows
    PROVE  d.cancelAt = Null
BY DEF QueueStopCause

\* failClaimedJobStart.
LEMMA FailStartSteps ==
    ASSUME IInv, NEW j \in Jobs, NEW a \in Attempts, FailClaimedJobStart(j, a)
    PROVE  RowSteps
<1>1. PICK o : o = Opened(j)
  OBVIOUS
<1> DEFINE n == now
           cause == QueueStopCause(o, n)
           s == "failed"
<1>2. PICK t \in CommitTimes :
        Commit(j, IF cause # "none" THEN TransitionStoppedJob(o, cause)
                  ELSE TransitionTerminal(o, s), t)
  BY <1>1 DEF FailClaimedJobStart
<1>3. o.status = "claimed"
  BY <1>1 DEF FailClaimedJobStart, HoldsLease
<1>4. o \in Rows /\ n \in Int /\ t \in Int /\ now <= t /\ s \in {"succeeded", "failed"} /\ s # "succeeded"
  BY <1>1, <1>3, OpenedOK, CommitTimesType
<1>5. o.status \in LiveJobStatuses /\ o.status \in LeasedStatuses
  BY <1>3 DEF LiveJobStatuses, LeasedStatuses
<1> HIDE DEF n, s
<1>6. CASE cause # "none"
  BY <1>1, <1>2, <1>4, <1>5, <1>6, StoppedSteps
<1>7. CASE cause = "none"
  <2>1. o.cancelAt = Null
    BY <1>4, <1>7, NoCause
  <2>2. Commit(j, TransitionTerminal(o, s), t)
    BY <1>2, <1>7
  <2>3. QED
    BY <1>1, <1>4, <1>5, <2>1, <2>2, UnstoppedEnd
<1>8. QED
  BY <1>6, <1>7

\* completeJob.
LEMMA CompleteSteps ==
    ASSUME IInv, NEW j \in Jobs, NEW a \in Attempts, CompleteJob(j, a)
    PROVE  RowSteps
<1>1. PICK o : o = Opened(j)
  OBVIOUS
<1> DEFINE n == Clock(j, a)
           cause == QueueStopCause(o, n)
<1>2. PICK t \in CommitTimes :
        \/ cause # "none" /\ Commit(j, TransitionStoppedJob(o, cause), t)
        \/ /\ cause = "none"
           /\ \E outcome \in {"succeeded", "failed"} :
                Commit(j, TransitionTerminal(o, outcome), t)
  BY <1>1 DEF CompleteJob
<1>3. o.status = "running"
  BY <1>1 DEF CompleteJob, HoldsLease
<1>4. o \in Rows /\ n \in Int /\ t \in Int /\ now <= t
  BY <1>1, <1>3, OpenedOK, HostType, CommitTimesType
<1>5. o.status \in LiveJobStatuses /\ o.status \in LeasedStatuses
  BY <1>3 DEF LiveJobStatuses, LeasedStatuses
<1> HIDE DEF n
<1>6. CASE cause # "none"
  BY <1>1, <1>2, <1>4, <1>5, <1>6, StoppedSteps
<1>7. CASE cause = "none"
  <2>1. o.cancelAt = Null
    BY <1>4, <1>7, NoCause
  <2>2. PICK s \in {"succeeded", "failed"} : Commit(j, TransitionTerminal(o, s), t)
    BY <1>2, <1>7
  <2>3. QED
    BY <1>1, <1>3, <1>4, <1>5, <2>1, <2>2, UnstoppedEnd
<1>8. QED
  BY <1>6, <1>7

\* failJob.
LEMMA FailJobSteps ==
    ASSUME IInv, NEW j \in Jobs, NEW a \in Attempts, FailJob(j, a)
    PROVE  RowSteps
<1>1. PICK o : o = Opened(j)
  OBVIOUS
<1> DEFINE h == runner[j][a].worker
           n == Local(h)
           u == now
           cause == QueueStopCause(o, n)
<1>2. PICK t \in CommitTimes, retryable \in BOOLEAN :
        Commit(j, IF cause # "none" THEN TransitionStoppedJob(o, cause)
                  ELSE FailedRow(j, o, retryable, h, t), t)
  BY <1>1 DEF FailJob
<1>3. o.status = "running" /\ o.token = a
  BY <1>1 DEF FailJob, HoldsLease
<1>4. /\ o \in Rows /\ RowOK(o, u) /\ h \in Hosts /\ n \in Int /\ t \in Int /\ u \in Int
      /\ now \in Nat /\ now >= MaxSkew /\ u <= t /\ now <= t
  BY <1>1, <1>3, OpenedOK, HostType, LocalType, CommitTimesType
<1>5. o.status \in LiveJobStatuses
  BY <1>3 DEF LiveJobStatuses, LeasedStatuses
<1>6. o.attempt \in Attempts /\ o.token # Null
  BY <1>3, <1>4, ConstantsAssumption
     DEF RowOK, UncutOK, LeaseOK, LeasedStatuses, Attempts, Null
<1> HIDE DEF h, n, u
<1>7. CASE cause # "none"
  BY <1>1, <1>2, <1>4, <1>5, <1>7, StoppedSteps
<1>8. CASE cause = "none"
  <2>1. o.cancelAt = Null
    BY <1>4, <1>8, NoCause
  <2>2. Commit(j, FailedRow(j, o, retryable, h, t), t)
    BY <1>2, <1>8
  <2>3. RowStep(j, o, u, FailedRow(j, o, retryable, h, t), t)
    BY <1>3, <1>4, <1>6, <2>1, FailedShape
  <2>4. QED
    BY <1>1, <1>4, <2>2, <2>3, OpenedCommit DEF u
<1>9. QED
  BY <1>7, <1>8

\* finishJobDrain.
LEMMA FinishSteps ==
    ASSUME IInv, NEW j \in Jobs, NEW a \in Attempts, FinishJobDrain(j, a)
    PROVE  RowSteps
<1>1. PICK o : o = Opened(j)
  OBVIOUS
<1> DEFINE n == Clock(j, a)
           cause == QueueStopCause(o, n)
<1>2. CASE UNCHANGED <<now, row>>
  BY <1>2, IdleSteps DEF IInv
<1>3. ASSUME o.status = "running", cause # "none", NEW t \in CommitTimes,
             Commit(j, TransitionStoppedJob(o, cause), t)
      PROVE  RowSteps
  <2>1. o \in Rows /\ n \in Int /\ t \in Int /\ now <= t
    BY <1>1, <1>3, OpenedOK, HostType, CommitTimesType
  <2>2. o.status \in LiveJobStatuses
    BY <1>3 DEF LiveJobStatuses, LeasedStatuses
  <2> HIDE DEF n
  <2>3. QED
    BY <1>1, <1>3, <2>1, <2>2, StoppedSteps
<1>4. QED
  BY <1>1, <1>2, <1>3 DEF FinishJobDrain, HoldsLease

\* heartbeatJob: every branch commits inside the lease it locked.
LEMMA HeartbeatSteps ==
    ASSUME IInv, NEW j \in Jobs, NEW a \in Attempts, HeartbeatJob(j, a)
    PROVE  RowSteps
<1>1. PICK o : o = Opened(j)
  OBVIOUS
<1> DEFINE h == runner[j][a].worker
           n == now
<1>2. PICK scheduled \in BOOLEAN, authorized \in BOOLEAN, t \in CommitTimes :
        /\ LockedLeaseCurrent(o, t)
        /\ Commit(j, HeartbeatRow(o, h, scheduled, authorized).row, t)
  BY <1>1 DEF HeartbeatJob
<1> DEFINE r == HeartbeatRow(o, h, scheduled, authorized).row
<1>3. o.status = "running"
  BY <1>1 DEF HeartbeatJob, HoldsLease
<1>4. /\ o \in Rows /\ RowOK(o, n) /\ h \in Hosts /\ t \in Int /\ n \in Int
      /\ n \in Nat /\ n >= MaxSkew /\ n <= t /\ now <= t
  BY <1>1, <1>3, OpenedOK, HostType, CommitTimesType
<1>5. Hushed(o, r) \/ Ended(o, r)
  BY <1>3, <1>4, HeartbeatShape
<1>6. Commit(j, r, t) /\ o.lease > t
  BY <1>2 DEF LockedLeaseCurrent
<1> HIDE DEF r, n
<1>7. CASE Hushed(o, r)
  <2>1. o.lease \in Int
    BY <1>4 DEF Rows
  <2>2. LeaseStep(o, r, t) /\ OverStep(o, r)
    BY <1>3, <1>4, <1>6, <2>1 DEF LeaseStep, OverStep, TerminalJobStatuses
  <2>3. RowStep(j, o, n, r, t)
    BY <1>4, <1>7, <2>2, HushedStep
  <2>4. QED
    BY <1>1, <1>4, <1>6, <2>3, OpenedCommit DEF n
<1>8. CASE Ended(o, r)
  BY <1>1, <1>4, <1>6, <1>8, OpenedEnd
<1>9. QED
  BY <1>5, <1>7, <1>8

\* appendJobEvent: an event of the attempt that holds the lease.
LEMMA AppendSteps ==
    ASSUME IInv, NEW j \in Jobs, NEW a \in Attempts, AppendJobEvent(j, a)
    PROVE  RowSteps
<1>1. PICK o : o = Opened(j)
  OBVIOUS
<1> DEFINE n == now
<1>2. o.status = "running" /\ o.token = a
  BY <1>1 DEF AppendJobEvent, HoldsLease
<1>3. o \in Rows /\ RowOK(o, n) /\ n \in Int /\ o.lease \in Int
  BY <1>1, <1>2, OpenedOK DEF Rows
<1>4. o.attempt = a /\ a \in 0..MaxClaims /\ "step" \in EventTypes
  BY <1>2, <1>3, ConstantsAssumption
     DEF RowOK, UncutOK, LeaseOK, LeasedStatuses, Attempts, EventTypes
<1>5. PICK t \in CommitTimes :
        \/ Commit(j, AppendEventOf(o, "step", a), t)
        \/ /\ j \in Clocked
           /\ \E q \in Questions, notice \in {"pending", "closed"} :
                Commit(j, RefreshTaskClock(j, o, AppendEventOf([o EXCEPT !.question =
                  [o.question EXCEPT ![q] = IF @ = "closed" THEN @ ELSE notice]],
                    "step", a), t), t)
  BY <1>1 DEF AppendJobEvent
<1>6. t \in Int /\ n <= t /\ now <= t
  BY CommitTimesType
<1> HIDE DEF n
<1>7. ASSUME NEW r, Commit(j, r, t), Stepped(j, o, r), ClockStep(j, o, n, r, t)
      PROVE  RowSteps
  <2>1. r.lease = o.lease
    BY <1>7 DEF Stepped, Job
  <2>2. LeaseStep(o, r, t) /\ OverStep(o, r)
    BY <1>2, <1>3, <2>1 DEF LeaseStep, OverStep, TerminalJobStatuses
  <2>3. RowStep(j, o, n, r, t)
    BY <1>7, <2>2 DEF RowStep, Written
  <2>4. QED
    BY <1>1, <1>6, <1>7, <2>3, OpenedCommit DEF n
<1>8. CASE Commit(j, AppendEventOf(o, "step", a), t)
  <2> DEFINE r == AppendEventOf(o, "step", a)
  <2>1. /\ r \in Rows /\ Job(r) = Job(o) /\ Stop(r) = Stop(o) /\ Talk(r) = Talk(o)
        /\ Meter(r) = Meter(o)
        /\ r.events = Append(o.events, [type |-> "step", attempt |-> a])
    BY <1>3, <1>4, AppendShape
  <2>2. Commit(j, r, t)
    BY <1>8
  <2> HIDE DEF r
  <2>3. r.run = o.run /\ r.question = o.question /\ r.wait = o.wait
    BY <2>1 DEF Job, Talk
  <2>4. Stepped(j, o, r)
    BY <1>2, <1>4, <2>1, <2>3 DEF Stepped, Logged
  <2>5. ClockStep(j, o, n, r, t)
    BY <1>3, <1>6, <2>1, <2>3, SteadyClock
  <2>6. QED
    BY <1>7, <2>2, <2>4, <2>5
<1>9. ASSUME j \in Clocked, NEW q \in Questions, NEW notice \in {"pending", "closed"},
             NEW asked, asked = [o.question EXCEPT ![q] = IF @ = "closed" THEN @ ELSE notice],
             Commit(j, RefreshTaskClock(j, o,
                         AppendEventOf([o EXCEPT !.question = asked], "step", a), t), t)
      PROVE  RowSteps
  <2> DEFINE e == [o EXCEPT !.question = asked]
             f == AppendEventOf(e, "step", a)
             r == RefreshTaskClock(j, o, f, t)
  <2>1. asked \in [Questions -> {"none", "pending", "closed"}]
    BY <1>3, <1>9 DEF Rows
  <2>2. e \in Rows
    BY <1>3, <2>1 DEF Rows
  <2>3. /\ Job(e) = Job(o) /\ Stop(e) = Stop(o) /\ Meter(e) = Meter(o)
        /\ e.wait = o.wait /\ e.events = o.events
    BY <1>3 DEF Rows, Job, Stop, Meter
  <2>4. Commit(j, r, t)
    BY <1>9
  <2> HIDE DEF e
  <2>5. /\ f \in Rows /\ Job(f) = Job(e) /\ Stop(f) = Stop(e) /\ Talk(f) = Talk(e)
        /\ Meter(f) = Meter(e)
        /\ f.events = Append(e.events, [type |-> "step", attempt |-> a])
    BY <1>4, <2>2, AppendShape
  <2> HIDE DEF f
  <2>6. /\ Job(r) = Job(f) /\ Stop(r) = Stop(f) /\ Talk(r) = Talk(f)
        /\ r.events = f.events /\ ClockStep(j, o, n, r, t)
    BY <1>3, <1>6, <2>3, <2>5, RefreshShape
  <2> HIDE DEF r
  <2>7. r.wait = o.wait
    BY <2>3, <2>5, <2>6 DEF Talk
  <2>8. Stepped(j, o, r)
    BY <1>2, <1>4, <1>9, <2>3, <2>5, <2>6, <2>7 DEF Stepped, Logged
  <2>9. QED
    BY <1>7, <2>4, <2>6, <2>8
<1>10. QED
  BY <1>5, <1>8, <1>9

\* A cancel decided in recordTaskProgress.
LEMMA ProgressSteps ==
    ASSUME IInv, NEW j \in Jobs, NEW a \in Attempts, CancelByProgress(j, a)
    PROVE  RowSteps
<1>1. PICK o : o = Opened(j)
  OBVIOUS
<1> DEFINE n == now
           c == CancelRuntimeRoot(o, "user_request")
           r == [c EXCEPT !.cancelAt = n]
           x == [c EXCEPT !.cancelAt = IF @ = Null THEN n ELSE @]
<1>2. o.status = "running" /\ o.cancelAt = Null /\ Commit(j, r, n)
  BY <1>1 DEF CancelByProgress, IsOwner
<1>3. n \in Int /\ n >= 0 /\ o \in Rows /\ o.lease \in Int
  BY <1>1, <1>2, OpenedOK DEF Rows
<1>4. Hushed(o, c) /\ c.lease = o.lease /\ c.cancelAt = Null
  BY <1>2, <1>3, RootShape
<1> HIDE DEF c, n
<1>5. c \in Rows /\ c.status # "absent"
  BY <1>2, <1>4 DEF Hushed, Quiet, Place
<1>6. Hushed(c, x) /\ x.lease = c.lease
  BY <1>3, <1>5, RequestShape
<1>7. r = x
  BY <1>4, <1>5 DEF Rows
<1> HIDE DEF r, x
<1>8. Hushed(o, r)
  BY <1>4, <1>6, <1>7, HushedChain
<1>9. LeaseStep(o, r, n) /\ OverStep(o, r)
  BY <1>2, <1>3, <1>4, <1>6, <1>7 DEF LeaseStep, OverStep, TerminalJobStatuses
<1>10. RowStep(j, o, n, r, n)
  BY <1>3, <1>8, <1>9, HushedStep
<1>11. QED
  BY <1>1, <1>2, <1>3, <1>10, OpenedCommit DEF n

\* parkNativeQuestion.
LEMMA ParkSteps ==
    ASSUME IInv, NEW j \in Jobs, NEW a \in Attempts, NEW q \in Questions,
           ParkNativeQuestion(j, a, q)
    PROVE  RowSteps
<1>1. PICK o : o = Opened(j)
  OBVIOUS
<1> DEFINE n == now
           c == ClearLease(o)
           wait == [c.wait EXCEPT ![q] = "parked"]
           e == [c EXCEPT !.status = "waiting_approval",
                          !.run = "waiting_approval", !.wait = wait]
<1>2. /\ o.status = "running" /\ o.token = a /\ o.cancelAt = Null
      /\ o.question[q] = "pending"
      /\ \A p \in Questions : o.wait[p] \in {"none", "continued"}
  BY <1>1 DEF ParkNativeQuestion, IsOwner
<1>3. PICK t \in CommitTimes : Commit(j, RefreshTaskClock(j, o,
        [c EXCEPT !.status = "waiting_approval", !.run = "waiting_approval",
                  !.wait[q] = "parked"], t), t)
  BY <1>1 DEF ParkNativeQuestion
<1>4. n \in Int /\ o \in Rows /\ t \in Int /\ now <= t /\ o.token # Null
  BY <1>1, <1>2, OpenedOK, CommitTimesType, ConstantsAssumption DEF Attempts, Null
<1>5. /\ c \in Rows /\ c.token = Null /\ c.attempt = o.attempt
      /\ Stop(c) = Stop(o) /\ Talk(c) = Talk(o) /\ Meter(c) = Meter(o)
      /\ c.events = o.events
  BY <1>4, ClearShape
<1> HIDE DEF c, n
<1>6. wait \in [Questions -> {"none", "parked", "ready", "continued"}]
  BY <1>5 DEF Rows
<1>7. Commit(j, RefreshTaskClock(j, o, e, t), t)
  BY <1>3, <1>5 DEF Rows
<1>8. wait = [o.wait EXCEPT ![q] = "parked"]
  BY <1>5 DEF Talk
<1> HIDE DEF wait
<1>9. e \in Rows
  BY <1>5, <1>6 DEF Rows, JobStatuses, LiveJobStatuses, RunStates
<1>10. /\ e.status = "waiting_approval" /\ e.run = "waiting_approval"
       /\ e.token = c.token /\ e.attempt = c.attempt /\ Stop(e) = Stop(c)
       /\ Meter(e) = Meter(c) /\ e.question = c.question /\ e.wait = wait
       /\ e.events = c.events
  BY <1>5 DEF Rows, Stop, Meter
<1> DEFINE r == RefreshTaskClock(j, o, e, t)
<1> HIDE DEF e
<1>11. /\ Job(r) = Job(e) /\ Stop(r) = Stop(e) /\ Talk(r) = Talk(e)
       /\ r.events = e.events /\ ClockStep(j, o, n, r, t)
  BY <1>4, <1>5, <1>9, <1>10, RefreshShape
<1>12. Commit(j, r, t)
  BY <1>7
<1> HIDE DEF r
<1>13. Parked(o, r)
  <2>1. /\ r.status = "waiting_approval" /\ r.run = "waiting_approval"
        /\ r.attempt = o.attempt /\ r.token = Null
    BY <1>5, <1>10, <1>11 DEF Job
  <2>2. r.question = o.question /\ r.wait = wait
    BY <1>5, <1>10, <1>11 DEF Talk
  <2>3. r.events = o.events /\ Stop(r) = Stop(o)
    BY <1>5, <1>10, <1>11
  <2>4. QED
    BY <1>2, <1>8, <2>1, <2>2, <2>3 DEF Parked
<1>14. LeaseStep(o, r, t) /\ OverStep(o, r)
  BY <1>4, <1>13 DEF LeaseStep, OverStep, Parked, TerminalJobStatuses
<1>15. RowStep(j, o, n, r, t)
  BY <1>11, <1>13, <1>14 DEF RowStep, Written
<1>16. QED
  BY <1>1, <1>4, <1>12, <1>15, OpenedCommit DEF n

\* continueNativeQuestion.
LEMMA ContinueSteps ==
    ASSUME IInv, NEW j \in Jobs, NEW a \in Attempts, NEW q \in Questions,
           ContinueNativeQuestion(j, a, q)
    PROVE  RowSteps
<1>1. PICK o : o = Opened(j)
  OBVIOUS
<1> DEFINE n == now
           wait == [o.wait EXCEPT ![q] = "continued"]
           question == [o.question EXCEPT ![q] = "closed"]
           e == [o EXCEPT !.wait = wait, !.question = question]
<1>2. o.status = "running"
  BY <1>1 DEF ContinueNativeQuestion, IsOwner
<1>3. PICK t \in CommitTimes : Commit(j, RefreshTaskClock(j, o,
        [o EXCEPT !.wait[q] = "continued", !.question[q] = "closed"], t), t)
  BY <1>1 DEF ContinueNativeQuestion
<1>4. n \in Int /\ o \in Rows /\ t \in Int /\ now <= t /\ o.lease \in Int
  BY <1>1, <1>2, OpenedOK, CommitTimesType DEF Rows
<1> HIDE DEF n
<1>5. /\ wait \in [Questions -> {"none", "parked", "ready", "continued"}]
      /\ question \in [Questions -> {"none", "pending", "closed"}]
  BY <1>4 DEF Rows
<1>6. Commit(j, RefreshTaskClock(j, o, e, t), t)
  BY <1>3, <1>4 DEF Rows
<1> HIDE DEF wait, question
<1>7. e \in Rows
  BY <1>4, <1>5 DEF Rows
<1>8. /\ Job(e) = Job(o) /\ Stop(e) = Stop(o) /\ Meter(e) = Meter(o)
      /\ e.wait = wait /\ e.question = question /\ e.events = o.events
  BY <1>4 DEF Rows, Job, Stop, Meter
<1> DEFINE r == RefreshTaskClock(j, o, e, t)
<1> HIDE DEF e
<1>9. /\ Job(r) = Job(e) /\ Stop(r) = Stop(e) /\ Talk(r) = Talk(e)
      /\ r.events = e.events /\ ClockStep(j, o, n, r, t)
  BY <1>4, <1>7, <1>8, RefreshShape
<1>10. Commit(j, r, t)
  BY <1>6
<1> HIDE DEF r
<1>11. r.wait = wait /\ r.question = question
  BY <1>8, <1>9 DEF Talk
<1>12. Continued(o, r)
  BY <1>2, <1>8, <1>9, <1>11 DEF Continued, wait, question
<1>13. r.lease = o.lease
  BY <1>8, <1>9 DEF Job
<1>14. LeaseStep(o, r, t) /\ OverStep(o, r)
  BY <1>2, <1>4, <1>13 DEF LeaseStep, OverStep, TerminalJobStatuses
<1>15. RowStep(j, o, n, r, t)
  BY <1>9, <1>12, <1>14 DEF RowStep, Written
<1>16. QED
  BY <1>1, <1>4, <1>10, <1>15, OpenedCommit DEF n

\* wakeNativeQuestionWaits.
LEMMA WakeSteps ==
    ASSUME IInv, NEW j \in Jobs, NEW q \in Questions, WakeNativeQuestionWaits(j, q)
    PROVE  RowSteps
<1>1. PICK o : o = Opened(j)
  OBVIOUS
<1> DEFINE n == now
           wait == [o.wait EXCEPT ![q] = "ready"]
           e == [o EXCEPT !.status = "queued", !.run = "queued",
                          !.availableAt = n, !.wait = wait]
<1>2. /\ o.status = "waiting_approval" /\ o.wait[q] = "parked"
      /\ Commit(j, RefreshTaskClock(j, o, [o EXCEPT !.status = "queued",
            !.run = "queued", !.availableAt = n, !.wait[q] = "ready"], n), n)
  BY <1>1 DEF WakeNativeQuestionWaits
<1>3. n \in Int /\ o \in Rows /\ RowOK(o, n)
  BY <1>1, <1>2, OpenedOK
<1> HIDE DEF n
<1>4. wait \in [Questions -> {"none", "parked", "ready", "continued"}]
  BY <1>3 DEF Rows
<1>5. Commit(j, RefreshTaskClock(j, o, e, n), n)
  BY <1>2, <1>3 DEF Rows
<1> HIDE DEF wait
<1>6. e \in Rows
  BY <1>3, <1>4 DEF Rows, JobStatuses, LiveJobStatuses, RunStates
<1>7. /\ e.status = "queued" /\ e.run = "queued" /\ e.token = o.token
      /\ e.attempt = o.attempt /\ Stop(e) = Stop(o) /\ Meter(e) = Meter(o)
      /\ e.wait = wait /\ e.question = o.question /\ e.events = o.events
  BY <1>3 DEF Rows, Stop, Meter
<1> DEFINE r == RefreshTaskClock(j, o, e, n)
<1> HIDE DEF e
<1>8. /\ Job(r) = Job(e) /\ Stop(r) = Stop(e) /\ Talk(r) = Talk(e)
      /\ r.events = e.events /\ ClockStep(j, o, n, r, n)
  BY <1>3, <1>6, <1>7, RefreshShape
<1>9. Commit(j, r, n)
  BY <1>5
<1> HIDE DEF r
<1>10. Woken(o, r)
  <2>1. r.wait = wait /\ r.question = o.question
    BY <1>7, <1>8 DEF Talk
  <2>2. r.status = "queued" /\ r.run = "queued" /\ r.token = o.token /\ r.attempt = o.attempt
    BY <1>7, <1>8 DEF Job
  <2>3. QED
    BY <1>2, <1>7, <1>8, <2>1, <2>2 DEF Woken, wait
<1>11. o.token = Null
  BY <1>2, <1>3 DEF RowOK, UncutOK, LeaseOK, LeasedStatuses
<1>12. LeaseStep(o, r, n) /\ OverStep(o, r)
  BY <1>2, <1>11 DEF LeaseStep, OverStep, TerminalJobStatuses
<1>13. RowStep(j, o, n, r, n)
  BY <1>8, <1>10, <1>12 DEF RowStep, Written
<1>14. QED
  BY <1>1, <1>3, <1>9, <1>13, OpenedCommit DEF n

\* maintainQueue on one candidate.
LEMMA MaintainSteps ==
    ASSUME IInv, NEW w \in Workers, NEW j \in Jobs, MaintainQueue(w, j)
    PROVE  RowSteps
<1>1. PICK o : o = Opened(j)
  OBVIOUS
<1>2. PICK scan \in MinOf(now, Local(w))..Local(w) :
        Commit(j, MaintainedRow(j, o, Local(w), scan), now)
  BY <1>1 DEF MaintainQueue
<1> DEFINE n == now
           r == MaintainedRow(j, o, Local(w), scan)
<1>3. w \in Hosts /\ n \in Nat /\ n >= MaxSkew /\ n \in Int /\ scan \in Int
  BY DEF Hosts, IInv
<1>4. Commit(j, r, n)
  BY <1>2
<1>5. CASE o.status # "absent"
  <2>1. RowOK(o, n)
    BY <1>1, <1>5, OpenedOK
  <2>2. RowStep(j, o, n, r, n)
    BY <1>3, <2>1, MaintainedShape
  <2> HIDE DEF r
  <2>3. QED
    BY <1>1, <1>3, <1>4, <2>2, OpenedCommit
<1>6. CASE o.status = "absent"
  <2>1. r = o
    BY <1>6 DEF MaintainedRow, LiveJobStatuses, LeasedStatuses
  <2>2. o \in Rows
    BY <1>1, <1>3, RefreshType DEF Opened, IInv
  <2> HIDE DEF r, n
  <2>3. RowStep(j, o, n, r, n)
    BY <1>3, <2>1, <2>2, IdleStep
  <2>4. QED
    BY <1>1, <1>3, <1>4, <2>3, OpenedCommit DEF n
<1>7. QED
  BY <1>5, <1>6

\* Every step of the queue writes rows in these ways only.
LEMMA NextSteps == IInv /\ [Next]_vars => RowSteps
<1> SUFFICES ASSUME IInv, [Next]_vars PROVE RowSteps
  OBVIOUS
<1>1. ASSUME UNCHANGED <<now, row>> PROVE RowSteps
  BY <1>1, IdleSteps DEF IInv
<1>2. CASE UNCHANGED vars
  BY <1>1, <1>2 DEF vars
<1>3. CASE Tick
  BY <1>3, IdleSteps DEF Tick, IInv
<1>4. ASSUME NEW j \in Jobs, NEW a \in Attempts, RunnerStep(j, a) PROVE RowSteps
  <2>1. CASE \/ HeartbeatFails(j, a) \/ HandlerReturns(j, a) \/ SettlementThrows(j, a)
             \/ LeaseLost(j, a) \/ Cleanup(j, a) \/ RunnerStops(j, a)
    BY <1>1, <2>1 DEF HeartbeatFails, HandlerReturns, SettlementThrows, LeaseLost,
       Cleanup, RunnerStops
  <2>2. QED
    BY <1>4, <2>1, StartSteps, FailStartSteps, HeartbeatSteps, AppendSteps,
       ProgressSteps, CompleteSteps, FailJobSteps, FinishSteps, ParkSteps,
       ContinueSteps DEF RunnerStep
<1>5. ASSUME NEW j \in Jobs, MaintenanceStep(j) PROVE RowSteps
  <2>1. ASSUME NEW w \in Workers, ScanQueue(w, j) PROVE RowSteps
    BY <1>1, <2>1 DEF ScanQueue
  <2>2. QED
    BY <1>5, <2>1, MaintainSteps, WakeSteps DEF MaintenanceStep
<1>6. QED
  BY <1>2, <1>3, <1>4, <1>5, WebSteps, ClaimSteps DEF Next
=============================================================================
