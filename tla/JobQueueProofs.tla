--------------------------- MODULE JobQueueProofs ---------------------------
(***************************************************************************)
(* Theorems about JobQueue for every value of its constants: type          *)
(* correctness, the agreement of lease, job and run, and that the first    *)
(* stop decides.  The invariants are facts about one row; every operator   *)
(* that writes rows has a lemma that says what it keeps, and each action   *)
(* combines the lemmas of the operators it uses.                           *)
(***************************************************************************)
EXTENDS JobQueue, TLAPS

-----------------------------------------------------------------------------
(* The inductive invariant.                                                 *)

LeaseOK(d) ==
    IF d.status \in LeasedStatuses
    THEN d.token = d.attempt /\ d.lease >= 0
    ELSE d.token = Null /\ d.lease = Null

RunOK(d) ==
    d.run = CASE d.status \in {"claimed", "retry_wait"} -> "queued"
              [] d.status = "dead_letter" -> "failed"
              [] OTHER -> d.status

\* No deadline lies before the origin of the clock, so none is taken for a null; a
\* paused budget, which may be overspent, keeps this true when the clock resumes.
ClockOK(d, t) ==
    d.status # "absent" => d.timeoutAt >= 0 /\ d.left + t >= 0

StopOK(d) ==
    /\ d.cancelAt = Null \/ d.cancelAt >= 0
    /\ d.drain # "none" =>
         /\ d.cancelAt # Null /\ d.drainDeadline >= 0
         /\ d.status \in {"running",
               IF d.drain = "cancel" /\ ~d.revoked THEN "canceled" ELSE "failed"}
         /\ d.status = "running" => d.lease <= d.drainDeadline

CutOK(d) == d.drain # "none" => d.root # "open"

\* A drain is frozen a moment before its root is cut, in one transaction.
UncutOK(d, t) ==
    d \in Rows /\ LeaseOK(d) /\ RunOK(d) /\ ClockOK(d, t) /\ StopOK(d)

RowOK(d, t) == UncutOK(d, t) /\ CutOK(d)

IInv ==
    /\ now \in Nat /\ now >= MaxSkew
    /\ row \in [Jobs -> Rows]
    /\ \A j \in Jobs : RowOK(row[j], now)
    /\ runner \in [Jobs -> [Attempts -> Runners]]
    /\ scanned \subseteq Workers \X Jobs

\* The fields the facts above read, less the ones the task clock writes.
Job(d)  == <<d.status, d.attempt, d.token, d.lease, d.run>>
Stop(d) == <<d.cancelAt, d.revoked, d.drain, d.drainDeadline, d.root>>

-----------------------------------------------------------------------------
(* What the row operators return.                                           *)

\* A host's clock is an instant that is never before the origin.
LEMMA LocalType ==
    ASSUME now \in Nat, now >= MaxSkew, NEW h \in Hosts
    PROVE  Local(h) \in Int /\ Local(h) >= 0
BY ConstantsAssumption DEF Local

\* A refresh of the task clock writes the deadline and the budget, nothing else.
LEMMA RefreshType ==
    ASSUME NEW j, NEW d0 \in Rows, NEW d \in Rows, NEW t \in Int,
           NEW r, r = RefreshTaskClock(j, d0, d, t)
    PROVE  /\ r \in Rows /\ Job(r) = Job(d) /\ Stop(r) = Stop(d)
           /\ r.question = d.question /\ r.wait = d.wait /\ r.events = d.events
           /\ r.availableAt = d.availableAt
<1>1. LeftAt(d0, t) \in Int
  BY DEF LeftAt, Rows
<1>2. ASSUME NEW l \in Int, NEW p PROVE DeadlineAt(l, p, t) \in Int
  BY ConstantsAssumption DEF DeadlineAt, Never
<1>3. DeadlineAt(LeftAt(d0, t), TaskClockPhase(d), t) \in Int
  BY <1>1, <1>2
<1>4. ASSUME NEW x \in Int, NEW y \in Int, r = [d EXCEPT !.timeoutAt = x, !.left = y]
      PROVE  /\ r \in Rows /\ Job(r) = Job(d) /\ Stop(r) = Stop(d)
             /\ r.question = d.question /\ r.wait = d.wait /\ r.events = d.events
             /\ r.availableAt = d.availableAt
  <2>1. [d EXCEPT !.timeoutAt = x, !.left = y] \in Rows
    BY DEF Rows
  <2>2. QED
    BY <1>4, <2>1 DEF Rows, Job, Stop
<1>5. (IF TaskClockPhase(d) = "active" THEN 0 ELSE LeftAt(d0, t)) \in Int
  BY <1>1
<1>6. QED
  BY <1>3, <1>4, <1>5 DEF RefreshTaskClock

\* Appending an event writes the log, nothing else.
LEMMA AppendType ==
    ASSUME NEW d \in Rows, NEW type \in EventTypes, NEW a \in 0..MaxClaims,
           NEW r, r = AppendEventOf(d, type, a)
    PROVE  /\ r \in Rows /\ Job(r) = Job(d) /\ Stop(r) = Stop(d)
           /\ r.timeoutAt = d.timeoutAt /\ r.left = d.left
           /\ r.question = d.question /\ r.wait = d.wait
<1>1. [type |-> type, attempt |-> a] \in Events
  BY DEF Events
<1>2. Append(d.events, [type |-> type, attempt |-> a]) \in Seq(Events)
  BY <1>1 DEF Rows
<1>3. QED
  BY <1>2 DEF AppendEventOf, Rows, Job, Stop

\* Clearing a lease writes the token and the lease deadline, nothing else.
LEMMA ClearLeaseType ==
    ASSUME NEW d \in Rows, NEW r, r = ClearLease(d)
    PROVE  /\ r \in Rows /\ r.token = Null /\ r.lease = Null
           /\ r.status = d.status /\ r.attempt = d.attempt /\ r.run = d.run
           /\ Stop(r) = Stop(d) /\ r.timeoutAt = d.timeoutAt /\ r.left = d.left
           /\ r.question = d.question /\ r.wait = d.wait
<1>1. Null \in Int
  BY DEF Null
<1>2. r \in Rows
  BY <1>1 DEF ClearLease, Rows
<1>3. QED
  BY <1>2 DEF ClearLease, Rows, Stop

\* transitionTerminal ends job and run, clears the lease, keeps stop and clock.
LEMMA TerminalType ==
    ASSUME NEW d \in Rows, NEW s \in TerminalJobStatuses,
           NEW r, r = TransitionTerminal(d, s)
    PROVE  /\ r \in Rows /\ r.status = s /\ r.token = Null /\ r.lease = Null
           /\ r.run = RunStateOf(s) /\ Stop(r) = Stop(d)
           /\ r.timeoutAt = d.timeoutAt /\ r.left = d.left
<1> DEFINE c == ClearLease(d)
           e == [c EXCEPT !.status = s, !.run = RunStateOf(s),
                          !.question = ClosePending(@)]
<1>1. ClosePending(d.question) \in [Questions -> {"none", "pending", "closed"}]
  BY DEF ClosePending, Rows
<1>2. RunStateOf(s) \in RunStates
  BY DEF RunStateOf, TerminalJobStatuses, LiveJobStatuses, RunStates, TerminalRunStates
<1>3. s \in JobStatuses
  BY DEF JobStatuses
<1>4. c \in Rows /\ c.question = d.question
  BY ClearLeaseType
<1> HIDE DEF c
<1>5. ASSUME NEW q \in [Questions -> {"none", "pending", "closed"}]
      PROVE  [c EXCEPT !.status = s, !.run = RunStateOf(s), !.question = q] \in Rows
  BY <1>2, <1>3, <1>4 DEF Rows
<1>6. e \in Rows
  BY <1>1, <1>4, <1>5
<1>7. TerminalEventOf(s) \in EventTypes
  BY DEF TerminalEventOf, EventTypes, TerminalEventTypes, TerminalJobStatuses
<1>8. /\ e.status = s /\ e.run = RunStateOf(s)
      /\ e.attempt = c.attempt /\ e.token = c.token /\ e.lease = c.lease
      /\ Stop(e) = Stop(c) /\ e.timeoutAt = c.timeoutAt /\ e.left = c.left
  BY <1>4 DEF Rows, Stop
<1>9. r = AppendEventOf(e, TerminalEventOf(s), e.attempt)
  BY DEF TransitionTerminal, AppendEvent, c
<1> HIDE DEF e
<1>10. e.attempt \in 0..MaxClaims
  BY <1>6 DEF Rows
<1>11. Job(r) = Job(e) /\ r \in Rows /\ Stop(r) = Stop(e)
       /\ r.timeoutAt = e.timeoutAt /\ r.left = e.left
  BY <1>6, <1>7, <1>9, <1>10, AppendType
<1>12. Stop(c) = Stop(d) /\ c.token = Null /\ c.lease = Null
       /\ c.timeoutAt = d.timeoutAt /\ c.left = d.left
  BY ClearLeaseType DEF c
<1>13. QED
  BY <1>8, <1>11, <1>12 DEF Job

-----------------------------------------------------------------------------
(* What they keep.                                                          *)

\* A row that is in order stays so as time passes.
LEMMA LaterOK ==
    ASSUME NEW d, NEW t \in Int, NEW u \in Int, t <= u, RowOK(d, t)
    PROVE  RowOK(d, u)
<1>1. d.left \in Int
  BY ConstantsAssumption DEF RowOK, UncutOK, Rows
<1>2. ClockOK(d, u)
  BY <1>1 DEF RowOK, UncutOK, ClockOK
<1>3. QED
  BY <1>2 DEF RowOK, UncutOK

\* A row with the same job, stop, clock and questions is in order too.
LEMMA SameOK ==
    ASSUME NEW d, NEW r \in Rows, NEW t \in Int, RowOK(d, t),
           Job(r) = Job(d), Stop(r) = Stop(d), r.question = d.question,
           r.timeoutAt = d.timeoutAt, r.left = d.left
    PROVE  RowOK(r, t)
<1>1. LeaseOK(r) /\ RunOK(r)
  BY DEF RowOK, UncutOK, LeaseOK, RunOK, Job
<1>2. StopOK(r) /\ CutOK(r)
  BY DEF RowOK, UncutOK, StopOK, CutOK, Job, Stop
<1>3. ClockOK(r, t)
  BY DEF RowOK, UncutOK, ClockOK, Job
<1>4. QED
  BY <1>1, <1>2, <1>3 DEF RowOK, UncutOK

\* transitionTerminal leaves the row in order, if it ends as a frozen stop says.
LEMMA TerminalOK ==
    ASSUME NEW d, NEW t \in Int, RowOK(d, t), d.status # "absent",
           NEW s \in TerminalJobStatuses,
           d.drain # "none" =>
             s = IF d.drain = "cancel" /\ ~d.revoked THEN "canceled" ELSE "failed"
    PROVE  RowOK(TransitionTerminal(d, s), t)
<1> DEFINE r == TransitionTerminal(d, s)
<1>1. d \in Rows
  BY DEF RowOK, UncutOK
<1>2. /\ r \in Rows /\ r.status = s /\ r.token = Null /\ r.lease = Null
      /\ r.run = RunStateOf(s) /\ Stop(r) = Stop(d)
      /\ r.timeoutAt = d.timeoutAt /\ r.left = d.left
  BY <1>1, TerminalType
<1> HIDE DEF r
<1>3. LeaseOK(r)
  BY <1>2 DEF LeaseOK, LeasedStatuses, TerminalJobStatuses
<1>4. RunOK(r)
  BY <1>2 DEF RunOK, RunStateOf, TerminalJobStatuses
<1>5. ClockOK(r, t)
  BY <1>2 DEF RowOK, UncutOK, ClockOK
<1>6. StopOK(r) /\ CutOK(r)
  BY <1>2 DEF RowOK, UncutOK, StopOK, CutOK, Stop, TerminalJobStatuses
<1>7. QED
  BY <1>2, <1>3, <1>4, <1>5, <1>6 DEF RowOK, UncutOK, r

Causes == {"cancel", "timeout"}

\* transitionStoppedJob ends a job as its stop cause says.
LEMMA StoppedOK ==
    ASSUME NEW d, NEW t \in Int, RowOK(d, t), d.status # "absent",
           NEW cause \in Causes, d.drain \in {"none", cause}
    PROVE  RowOK(TransitionStoppedJob(d, cause), t)
<1> DEFINE s == IF cause = "cancel" /\ ~d.revoked THEN "canceled" ELSE "failed"
<1>1. s \in TerminalJobStatuses
  BY DEF TerminalJobStatuses
<1>2. d.drain # "none" =>
        s = IF d.drain = "cancel" /\ ~d.revoked THEN "canceled" ELSE "failed"
  OBVIOUS
<1> HIDE DEF s
<1>3. RowOK(TransitionTerminal(d, s), t)
  BY <1>1, <1>2, TerminalOK
<1>4. QED
  BY <1>3 DEF TransitionStoppedJob, s

\* A refresh at t, which ends the transaction, of a row d written from d0.
LEMMA RefreshOK ==
    ASSUME NEW j, NEW d0, NEW n \in Int, RowOK(d0, n), d0.status # "absent",
           NEW t \in Int, n <= t, MaxSkew <= t,
           NEW d \in Rows, LeaseOK(d), RunOK(d), StopOK(d), CutOK(d),
           d.timeoutAt = d0.timeoutAt, d.left = d0.left
    PROVE  RowOK(RefreshTaskClock(j, d0, d, t), t)
<1> DEFINE r == RefreshTaskClock(j, d0, d, t)
           left == LeftAt(d0, t)
<1>1. /\ d0 \in Rows /\ ClockOK(d0, n)
      /\ d0.timeoutAt \in Int /\ d0.left \in Int
  BY DEF RowOK, UncutOK, Rows
<1>2. /\ r \in Rows /\ Job(r) = Job(d) /\ Stop(r) = Stop(d)
      /\ r.question = d.question
  BY <1>1, RefreshType
<1>3. LeaseOK(r) /\ RunOK(r)
  BY <1>2 DEF LeaseOK, RunOK, Job
<1>4. StopOK(r) /\ CutOK(r)
  BY <1>2 DEF StopOK, CutOK, Job, Stop
<1>5. CASE j \notin Clocked \/ TaskClockPhase(d) = "terminal"
  <2>1. r = d
    BY <1>5 DEF RefreshTaskClock
  <2>2. ClockOK(d, t)
    BY <1>1, <1>5, ConstantsAssumption DEF ClockOK
  <2>3. QED
    BY <1>2, <1>3, <1>4, <2>1, <2>2 DEF RowOK, UncutOK
<1>6. CASE j \in Clocked /\ TaskClockPhase(d) # "terminal"
  <2>1. left \in Int /\ left + t >= 0
    BY <1>1, <1>6, ConstantsAssumption DEF ClockOK, LeftAt
  <2>2. /\ r.timeoutAt = DeadlineAt(left, TaskClockPhase(d), t)
        /\ r.left = IF TaskClockPhase(d) = "active" THEN 0 ELSE left
    <3>1. r = [d EXCEPT !.timeoutAt = DeadlineAt(left, TaskClockPhase(d), t),
                        !.left = IF TaskClockPhase(d) = "active" THEN 0 ELSE left]
      BY <1>6 DEF RefreshTaskClock
    <3> HIDE DEF r, left
    <3>2. QED
      BY <3>1 DEF Rows
  <2> HIDE DEF left, r
  <2>3. /\ DeadlineAt(left, TaskClockPhase(d), t) \in Int
        /\ DeadlineAt(left, TaskClockPhase(d), t) >= 0
    BY <2>1, ConstantsAssumption DEF DeadlineAt, Never
  <2>4. r.left + t >= 0
    BY <2>1, <2>2, ConstantsAssumption
  <2>5. r.timeoutAt >= 0
    BY <2>2, <2>3, ConstantsAssumption
  <2>6. ClockOK(r, t)
    BY <2>4, <2>5 DEF ClockOK
  <2>7. QED
    BY <1>2, <1>3, <1>4, <2>6 DEF RowOK, UncutOK, r
<1>7. QED
  BY <1>5, <1>6

\* Appending an event leaves the row in order.
LEMMA AppendOK ==
    ASSUME NEW d, NEW t \in Int, RowOK(d, t),
           NEW type \in EventTypes, NEW a \in 0..MaxClaims
    PROVE  RowOK(AppendEventOf(d, type, a), t)
<1> DEFINE r == AppendEventOf(d, type, a)
<1>1. d \in Rows
  BY DEF RowOK, UncutOK
<1>2. /\ r \in Rows /\ Job(r) = Job(d) /\ Stop(r) = Stop(d)
      /\ r.timeoutAt = d.timeoutAt /\ r.left = d.left /\ r.question = d.question
  BY <1>1, AppendType
<1> HIDE DEF r
<1>3. RowOK(r, t)
  BY <1>2, SameOK
<1>4. QED
  BY <1>3 DEF r

\* Cutting the root writes the root, nothing else.
LEMMA RootType ==
    ASSUME NEW d \in Rows, NEW reason \in {"user_request", "budget_exhausted"},
           NEW r, r = CancelRuntimeRoot(d, reason)
    PROVE  /\ r \in Rows /\ r.root # "open" /\ Job(r) = Job(d)
           /\ r.cancelAt = d.cancelAt /\ r.revoked = d.revoked /\ r.drain = d.drain
           /\ r.drainDeadline = d.drainDeadline /\ r.question = d.question
           /\ r.timeoutAt = d.timeoutAt /\ r.left = d.left
<1> DEFINE x == IF d.root = "open" THEN reason ELSE d.root
<1>1. x \in {"open", "user_request", "budget_exhausted"} /\ x # "open"
  BY DEF Rows
<1>2. r = [d EXCEPT !.root = x]
  BY DEF CancelRuntimeRoot
<1> HIDE DEF x
<1>3. r \in Rows
  BY <1>1, <1>2 DEF Rows
<1>4. QED
  BY <1>1, <1>2, <1>3 DEF Rows, Job

\* Cutting the root completes a freshly frozen drain.
LEMMA RootOK ==
    ASSUME NEW d, NEW t \in Int, UncutOK(d, t),
           NEW reason \in {"user_request", "budget_exhausted"}
    PROVE  RowOK(CancelRuntimeRoot(d, reason), t)
<1> DEFINE r == CancelRuntimeRoot(d, reason)
<1>1. d \in Rows
  BY DEF RowOK, UncutOK
<1>2. /\ r \in Rows /\ r.root # "open" /\ Job(r) = Job(d)
      /\ r.cancelAt = d.cancelAt /\ r.revoked = d.revoked /\ r.drain = d.drain
      /\ r.drainDeadline = d.drainDeadline /\ r.question = d.question
      /\ r.timeoutAt = d.timeoutAt /\ r.left = d.left
  BY <1>1, RootType
<1> HIDE DEF r
<1>3. LeaseOK(r) /\ RunOK(r)
  BY <1>2 DEF RowOK, UncutOK, LeaseOK, RunOK, Job
<1>4. StopOK(r) /\ CutOK(r)
  BY <1>2 DEF UncutOK, StopOK, CutOK, Job
<1>5. ClockOK(r, t)
  BY <1>2 DEF RowOK, UncutOK, ClockOK, Job
<1>6. QED
  BY <1>2, <1>3, <1>4, <1>5 DEF RowOK, UncutOK, r

\* A row with a request recorded; a revocation is only ever marked before a drain.
LEMMA RequestedOK ==
    ASSUME NEW d, NEW t \in Int, RowOK(d, t), NEW r \in Rows,
           Job(r) = Job(d), r.question = d.question, r.timeoutAt = d.timeoutAt,
           r.left = d.left, r.drain = d.drain, r.drainDeadline = d.drainDeadline,
           r.root = d.root, r.cancelAt >= 0,
           r.revoked = d.revoked \/ d.drain = "none"
    PROVE  RowOK(r, t)
<1>1. LeaseOK(r) /\ RunOK(r)
  BY DEF RowOK, UncutOK, LeaseOK, RunOK, Job
<1>2. StopOK(r) /\ CutOK(r)
  BY DEF RowOK, UncutOK, StopOK, CutOK, Job, Null
<1>3. ClockOK(r, t)
  BY DEF RowOK, UncutOK, ClockOK, Job
<1>4. QED
  BY <1>1, <1>2, <1>3 DEF RowOK, UncutOK

\* Recording a cancel request, as cancelRun does, leaves the row in order.
LEMMA RequestOK ==
    ASSUME NEW d, NEW t \in Int, RowOK(d, t), NEW c \in Int, c >= 0,
           NEW r, r = [d EXCEPT !.cancelAt = IF @ = Null THEN c ELSE @]
    PROVE  RowOK(r, t) /\ r.status = d.status /\ r.drain = d.drain
<1> DEFINE x == IF d.cancelAt = Null THEN c ELSE d.cancelAt
<1>1. d \in Rows /\ d.cancelAt \in Int
  BY DEF RowOK, UncutOK, Rows
<1>2. x \in Int /\ x >= 0
  BY <1>1 DEF RowOK, UncutOK, StopOK
<1>3. r = [d EXCEPT !.cancelAt = x]
  BY <1>1 DEF Rows
<1> HIDE DEF x
<1>4. r \in Rows
  BY <1>1, <1>2, <1>3 DEF Rows
<1>5. /\ Job(r) = Job(d) /\ r.question = d.question /\ r.timeoutAt = d.timeoutAt
      /\ r.left = d.left /\ r.drain = d.drain /\ r.drainDeadline = d.drainDeadline
      /\ r.root = d.root /\ r.cancelAt = x /\ r.revoked = d.revoked
  BY <1>1, <1>3 DEF Rows, Job
<1>6. RowOK(r, t)
  BY <1>2, <1>4, <1>5, RequestedOK
<1>7. QED
  BY <1>5, <1>6 DEF Job

\* Marking a revocation before any drain leaves the row in order.
LEMMA RevokeOK ==
    ASSUME NEW d, NEW t \in Int, RowOK(d, t), d.drain = "none",
           NEW x \in Int, x >= 0
    PROVE  RowOK([d EXCEPT !.cancelAt = x, !.revoked = TRUE], t)
<1> DEFINE r == [d EXCEPT !.cancelAt = x, !.revoked = TRUE]
<1>1. d \in Rows
  BY DEF RowOK, UncutOK
<1>2. r \in Rows
  BY <1>1 DEF Rows
<1>3. /\ Job(r) = Job(d) /\ r.question = d.question /\ r.timeoutAt = d.timeoutAt
      /\ r.left = d.left /\ r.drain = d.drain /\ r.drainDeadline = d.drainDeadline
      /\ r.root = d.root /\ r.cancelAt = x
  BY <1>1 DEF Rows, Job
<1> HIDE DEF r
<1>4. RowOK(r, t)
  BY <1>2, <1>3, RequestedOK
<1>5. QED
  BY <1>4 DEF r

\* freezeJobReceiptDrain leaves all but the root in order, and fixes the cause.
LEMMA FreezeOK ==
    ASSUME NEW d, NEW n \in Int, RowOK(d, n), NEW cause \in Causes,
           NEW c \in Int, c = Null \/ c >= 0, NEW t \in Int, t >= 0,
           NEW renew \in BOOLEAN
    PROVE  /\ UncutOK(FreezeJobReceiptDrain(d, cause, c, t, renew), n)
           /\ FreezeJobReceiptDrain(d, cause, c, t, renew).status = d.status
           /\ FreezeJobReceiptDrain(d, cause, c, t, renew).drain
                = IF d.drain = "none" /\ CanDrain(d, t) THEN cause ELSE d.drain
<1> DEFINE r == FreezeJobReceiptDrain(d, cause, c, t, renew)
<1>1. /\ d \in Rows /\ d.cancelAt \in Int /\ d.timeoutAt \in Int /\ d.lease \in Int
      /\ d.drainDeadline \in Int /\ d.drain \in {"none", "cancel", "timeout"}
  BY DEF RowOK, UncutOK, Rows
<1>2. CASE ~CanDrain(d, t)
  <2>1. r = d
    BY <1>2 DEF FreezeJobReceiptDrain
  <2>2. QED
    BY <1>2, <2>1 DEF RowOK
<1>3. CASE CanDrain(d, t)
  <2> DEFINE frozen == IF d.drain # "none" THEN d.drain ELSE cause
             anchor == IF frozen = "cancel" THEN (IF c # Null THEN c ELSE t)
                                            ELSE d.timeoutAt
             deadline == IF d.drain # "none" THEN d.drainDeadline ELSE anchor + DrainMs
             x == IF d.cancelAt = Null THEN t ELSE d.cancelAt
             y == MinOf(deadline, IF renew THEN t + LeaseMs ELSE d.lease)
  <2>1. d.status = "running" /\ d.timeoutAt >= 0 /\ d.lease >= 0
    BY <1>3 DEF CanDrain, RowOK, UncutOK, ClockOK, LeaseOK, LeasedStatuses
  <2>2. anchor \in Int /\ anchor >= 0
    BY <1>1, <2>1 DEF Null
  <2> HIDE DEF anchor
  <2>3. deadline \in Int /\ deadline >= 0
    BY <1>1, <2>2, ConstantsAssumption DEF RowOK, UncutOK, StopOK
  <2>4. frozen \in {"none", "cancel", "timeout"} /\ frozen # "none"
    BY <1>1 DEF Causes
  <2>5. x \in Int /\ x >= 0
    BY <1>1 DEF RowOK, UncutOK, StopOK
  <2> HIDE DEF deadline
  <2>6. y \in Int /\ y >= 0 /\ y <= deadline
    BY <1>1, <2>1, <2>3, ConstantsAssumption DEF MinOf
  <2> HIDE DEF x, y, frozen
  <2>7. r = [d EXCEPT !.drain = frozen, !.drainDeadline = deadline,
                      !.cancelAt = x, !.lease = y]
    BY <1>1, <1>3 DEF FreezeJobReceiptDrain, x, y, frozen, deadline, anchor, Rows
  <2> HIDE DEF r
  <2>8. r \in Rows
    BY <1>1, <2>3, <2>4, <2>5, <2>6, <2>7 DEF Rows
  <2>9. /\ r.drain = frozen /\ r.drainDeadline = deadline /\ r.cancelAt = x
        /\ r.lease = y /\ r.status = d.status /\ r.attempt = d.attempt
        /\ r.token = d.token /\ r.run = d.run /\ r.question = d.question
        /\ r.timeoutAt = d.timeoutAt /\ r.left = d.left /\ r.root = d.root
        /\ r.revoked = d.revoked
    BY <1>1, <2>7 DEF Rows
  <2>10. LeaseOK(r) /\ RunOK(r)
    BY <2>1, <2>6, <2>9 DEF RowOK, UncutOK, LeaseOK, RunOK, LeasedStatuses
  <2>11. StopOK(r)
    BY <2>1, <2>3, <2>5, <2>6, <2>9 DEF StopOK, Null
  <2>12. ClockOK(r, n)
    BY <2>9 DEF RowOK, UncutOK, ClockOK
  <2>13. r.drain = IF d.drain = "none" /\ CanDrain(d, t) THEN cause ELSE d.drain
    BY <1>3, <2>9 DEF frozen
  <2>14. QED
    BY <2>8, <2>9, <2>10, <2>11, <2>12, <2>13 DEF RowOK, UncutOK, r
<1>4. QED
  BY <1>2, <1>3

\* A stop keeps the lease for the drain window, or finds none to keep.
LEMMA RetainOK ==
    ASSUME NEW d, NEW n \in Int, RowOK(d, n), NEW cause \in Causes,
           NEW c \in Int, c = Null \/ c >= 0, NEW t \in Int, t >= 0,
           NEW renew \in BOOLEAN,
           NEW r, r = RetainStopReceiptLease(d, cause, c, t, renew)
    PROVE  /\ RowOK(r, n) /\ r.status = d.status
           /\ r.drain = d.drain \/ (d.drain = "none" /\ r.drain = cause)
<1> DEFINE f == FreezeJobReceiptDrain(d, cause, c, t, renew)
           reason == IF (IF d.drain # "none" THEN d.drain ELSE cause) = "timeout"
                     THEN "budget_exhausted" ELSE "user_request"
<1>1. reason \in {"user_request", "budget_exhausted"}
  OBVIOUS
<1>2. /\ UncutOK(f, n) /\ f.status = d.status
      /\ f.drain = IF d.drain = "none" /\ CanDrain(d, t) THEN cause ELSE d.drain
  BY FreezeOK
<1>3. r = CancelRuntimeRoot(f, reason)
  BY DEF RetainStopReceiptLease
<1> HIDE DEF f, reason
<1>4. RowOK(r, n)
  BY <1>1, <1>2, <1>3, RootOK
<1>5. r.status = f.status /\ r.drain = f.drain
  BY <1>1, <1>2, <1>3, RootType DEF UncutOK, Job
<1>6. QED
  BY <1>2, <1>4, <1>5

\* stopJobOrDrain, for the row's own stop cause, leaves the row in order.
LEMMA StopOrDrainOK ==
    ASSUME NEW d, NEW n \in Int, RowOK(d, n), d.status # "absent",
           NEW cause \in Causes, d.drain \in {"none", cause},
           NEW t \in Int, t >= 0, NEW renew \in BOOLEAN
    PROVE  RowOK(StopJobOrDrain(d, cause, t, renew), n)
<1> DEFINE kept == RetainStopReceiptLease(d, cause, d.cancelAt, t, renew)
<1>1. d.cancelAt \in Int /\ (d.cancelAt = Null \/ d.cancelAt >= 0)
  BY DEF RowOK, UncutOK, StopOK, Rows
<1>2. RowOK(kept, n) /\ kept.status = d.status /\ kept.drain \in {"none", cause}
  BY <1>1, RetainOK
<1> HIDE DEF kept
<1>3. RowOK(TransitionStoppedJob(kept, cause), n)
  BY <1>2, StoppedOK
<1>4. QED
  BY <1>2, <1>3 DEF StopJobOrDrain, kept

\* The stop cause agrees with a drain that is already frozen.
LEMMA CauseType ==
    ASSUME NEW d \in Rows, NEW t \in Int, QueueStopCause(d, t) # "none"
    PROVE  QueueStopCause(d, t) \in Causes /\ d.drain \in {"none", QueueStopCause(d, t)}
BY DEF QueueStopCause, Causes, Rows

\* requestCancellationTransaction leaves the row in order, in the same status.
LEMMA CancelOK ==
    ASSUME now \in Nat, now >= MaxSkew, NEW h \in Hosts,
           NEW d, RowOK(d, now),
           NEW r, r = RequestCancellation(d, h)
    PROVE  RowOK(r, now) /\ r.status = d.status
<1> DEFINE cut  == CancelRuntimeRoot(d, "user_request")
           cut1 == [cut EXCEPT !.cancelAt = IF @ = Null THEN now ELSE @]
           cause == IF QueueStopCause(d, Local(h)) = "none" THEN "cancel"
                    ELSE QueueStopCause(d, Local(h))
           c == IF d.cancelAt # Null THEN d.cancelAt ELSE Local(h)
           renew == FALSE
<1>1. Local(h) \in Int /\ Local(h) >= 0 /\ now \in Int /\ now >= 0
  BY LocalType
<1>2. d \in Rows /\ UncutOK(d, now)
  BY DEF RowOK, UncutOK
<1>3. RowOK(cut, now) /\ cut \in Rows /\ cut.status = d.status
  BY <1>1, <1>2, RootOK, RootType DEF Job
<1>4. c \in Int /\ (c = Null \/ c >= 0)
  BY <1>1, <1>2 DEF RowOK, UncutOK, StopOK, Rows
<1>5. cause \in Causes
  BY <1>1, <1>2, CauseType DEF Causes
<1> HIDE DEF cut, cause, c
<1>6. RowOK(cut1, now) /\ cut1.status = d.status
  BY <1>1, <1>3, RequestOK
<1>7. r = RetainStopReceiptLease(cut1, cause, c, now, renew) /\ renew \in BOOLEAN
  BY DEF RequestCancellation, cut, cause, c
<1> HIDE DEF cut1, renew
<1>8. QED
  BY <1>1, <1>4, <1>5, <1>6, <1>7, RetainOK

\* A refresh that ends a transaction which moved an undrained row to another status.
LEMMA MoveOK ==
    ASSUME NEW j, NEW d0, NEW n \in Int, RowOK(d0, n), d0.status # "absent",
           d0.drain = "none", NEW t \in Int, n <= t, MaxSkew <= t,
           NEW d \in Rows, LeaseOK(d), RunOK(d), Stop(d) = Stop(d0),
           d.timeoutAt = d0.timeoutAt, d.left = d0.left
    PROVE  RowOK(RefreshTaskClock(j, d0, d, t), t)
<1>1. StopOK(d) /\ CutOK(d)
  BY DEF RowOK, UncutOK, StopOK, CutOK, Stop
<1>2. QED
  BY <1>1, RefreshOK

\* Only a running job, or one that ended stopped, has a frozen drain.
LEMMA UndrainedUnlessStopping ==
    ASSUME NEW d, StopOK(d), d.status \notin {"running", "canceled", "failed"}
    PROVE  d.drain = "none"
BY DEF StopOK

\* startClaimedJob's admission leaves the row in order.
LEMMA RunningOK ==
    ASSUME NEW j, NEW d, NEW n \in Int, RowOK(d, n), d.status = "claimed",
           NEW t \in Int, n <= t, MaxSkew <= t
    PROVE  RowOK(Running(j, d, t), t)
<1> DEFINE open == [q \in Questions |->
                      IF d.question[q] = "pending" /\ d.wait[q] # "ready"
                      THEN "closed" ELSE d.question[q]]
           qs == IF j \in Clocked THEN open ELSE d.question
           e == [d EXCEPT !.status = "running", !.run = "running", !.question = qs]
           r == AppendEventOf(e, "run.started", e.attempt)
<1>1. d \in Rows /\ d.drain = "none"
  BY UndrainedUnlessStopping DEF RowOK, UncutOK
<1>2. qs \in [Questions -> {"none", "pending", "closed"}]
  BY <1>1 DEF Rows
<1>3. Running(j, d, t) = RefreshTaskClock(j, d, r, t)
  BY <1>1 DEF Running, AppendEvent, Rows
<1> HIDE DEF qs
<1>4. e \in Rows
  BY <1>1, <1>2 DEF Rows, JobStatuses, LiveJobStatuses, LeasedStatuses, RunStates
<1>5. /\ e.status = "running" /\ e.run = "running" /\ e.attempt = d.attempt
      /\ e.token = d.token /\ e.lease = d.lease /\ Stop(e) = Stop(d)
      /\ e.timeoutAt = d.timeoutAt /\ e.left = d.left
  BY <1>1 DEF Rows, Stop
<1> HIDE DEF e
<1>6. e.attempt \in 0..MaxClaims /\ "run.started" \in EventTypes
  BY <1>4 DEF Rows, EventTypes
<1>7. /\ r \in Rows /\ Job(r) = Job(e) /\ Stop(r) = Stop(e)
      /\ r.timeoutAt = e.timeoutAt /\ r.left = e.left
  BY <1>4, <1>6, AppendType
<1> HIDE DEF r
<1>8. LeaseOK(r) /\ RunOK(r)
  BY <1>5, <1>7 DEF RowOK, UncutOK, LeaseOK, RunOK, Job, LeasedStatuses
<1>9. QED
  BY <1>1, <1>3, <1>5, <1>7, <1>8, MoveOK

\* Every branch of a heartbeat leaves the row in order.
LEMMA HeartbeatOK ==
    ASSUME now \in Nat, now >= MaxSkew, NEW h \in Hosts,
           NEW d, RowOK(d, now), d.status = "running",
           NEW scheduled \in BOOLEAN, NEW authorized \in BOOLEAN
    PROVE  RowOK(HeartbeatRow(d, h, scheduled, authorized).row, now)
<1> DEFINE d1 == IF ~scheduled /\ d.cancelAt = Null
                 THEN RequestCancellation(d, h) ELSE d
           cause == QueueStopCause(d1, Local(h))
           revoked == [d1 EXCEPT !.cancelAt = IF @ = Null THEN now ELSE @,
                                 !.revoked = TRUE]
           renewed == [d1 EXCEPT !.lease = Local(h) + LeaseMs]
           yes == TRUE
<1>1. Local(h) \in Int /\ Local(h) >= 0 /\ now \in Int /\ now >= 0
  BY LocalType
<1>2. RowOK(d1, now) /\ d1.status = "running" /\ d1 \in Rows
  BY CancelOK DEF RowOK, UncutOK
<1>3. yes \in BOOLEAN
  OBVIOUS
<1> HIDE DEF yes
<1>4. CASE cause # "none"
  <2>1. cause \in Causes /\ d1.drain \in {"none", cause}
    BY <1>1, <1>2, <1>4, CauseType
  <2> HIDE DEF d1, cause
  <2>2. RowOK(StopJobOrDrain(d1, cause, now, yes), now)
    BY <1>1, <1>2, <1>3, <2>1, StopOrDrainOK
  <2>3. QED
    BY <1>4, <2>2 DEF HeartbeatRow, d1, cause, yes
<1>5. CASE cause = "none"
  <2>1. d1.drain = "none"
    BY <1>5 DEF QueueStopCause
  <2>2. CASE ~authorized
    <3> DEFINE by == "cancel"
    <3> HIDE DEF d1
    <3> DEFINE x == IF d1.cancelAt = Null THEN now ELSE d1.cancelAt
    <3>1. x \in Int /\ x >= 0
      BY <1>1, <1>2 DEF RowOK, UncutOK, StopOK, Rows
    <3>2. revoked = [d1 EXCEPT !.cancelAt = x, !.revoked = TRUE]
      BY <1>2 DEF Rows
    <3> HIDE DEF x, revoked
    <3>3. RowOK(revoked, now)
      BY <1>1, <1>2, <2>1, <3>1, <3>2, RevokeOK
    <3>4. revoked.status = "running" /\ revoked.drain = "none"
      BY <1>2, <2>1, <3>2 DEF Rows
    <3>5. by \in Causes
      BY DEF Causes
    <3> HIDE DEF by
    <3>6. RowOK(StopJobOrDrain(revoked, by, now, yes), now)
      BY <1>1, <1>3, <3>3, <3>4, <3>5, StopOrDrainOK
    <3>7. QED
      BY <1>5, <2>2, <3>6 DEF HeartbeatRow, d1, revoked, yes, by
  <2>3. CASE authorized
    <3> HIDE DEF d1
    <3>1. Local(h) + LeaseMs \in Int /\ Local(h) + LeaseMs >= 0
      BY <1>1, ConstantsAssumption
    <3>2. renewed \in Rows
      BY <1>2, <3>1 DEF Rows
    <3>3. /\ renewed.status = "running" /\ renewed.token = d1.token
          /\ renewed.attempt = d1.attempt /\ renewed.run = d1.run
          /\ renewed.lease = Local(h) + LeaseMs /\ Stop(renewed) = Stop(d1)
          /\ renewed.question = d1.question
          /\ renewed.timeoutAt = d1.timeoutAt /\ renewed.left = d1.left
      BY <1>2 DEF Rows, Stop
    <3> HIDE DEF renewed
    <3>4. LeaseOK(renewed) /\ RunOK(renewed)
      BY <1>2, <3>1, <3>3 DEF RowOK, UncutOK, LeaseOK, RunOK, LeasedStatuses
    <3>5. ClockOK(renewed, now)
      BY <1>2, <3>3 DEF RowOK, UncutOK, ClockOK
    <3>6. StopOK(renewed) /\ CutOK(renewed)
      BY <1>2, <2>1, <3>3 DEF RowOK, UncutOK, StopOK, CutOK, Stop
    <3>7. RowOK(renewed, now)
      BY <3>2, <3>4, <3>5, <3>6 DEF RowOK, UncutOK
    <3>8. QED
      BY <1>5, <2>3, <3>7 DEF HeartbeatRow, d1, renewed
  <2>4. QED
    BY <2>2, <2>3
<1>6. QED
  BY <1>4, <1>5

\* failJob's retry and failure leave the row in order.
LEMMA FailedOK ==
    ASSUME now \in Nat, now >= MaxSkew, NEW h \in Hosts,
           NEW j, NEW d, RowOK(d, now), d.status = "running",
           d.drain = "none", d.attempt \in Attempts,
           NEW t \in Int, now <= t, NEW retryable \in BOOLEAN
    PROVE  RowOK(FailedRow(j, d, retryable, h, t), t)
<1>1. now \in Int /\ Local(h) \in Int /\ MaxSkew <= t /\ d \in Rows
  BY LocalType, ConstantsAssumption DEF RowOK, UncutOK
<1>2. CASE retryable /\ d.attempt < MaxAttempts /\ d.timeoutAt > Local(h)
  <2> DEFINE c == ClearLease(d)
             x == Local(h) + RetryDelayMs(d.attempt)
             e == [c EXCEPT !.status = "retry_wait", !.run = "queued",
                            !.availableAt = x]
             f == RefreshTaskClock(j, d, e, t)
  <2>1. x \in Int
    BY <1>1, RetryDelayAssumption
  <2>2. /\ c \in Rows /\ c.token = Null /\ c.lease = Null /\ c.attempt = d.attempt
        /\ Stop(c) = Stop(d) /\ c.timeoutAt = d.timeoutAt /\ c.left = d.left
    BY <1>1, ClearLeaseType
  <2>3. FailedRow(j, d, retryable, h, t) = AppendEventOf(f, "run.retrying", f.attempt)
    BY <1>2 DEF FailedRow, AppendEvent
  <2> HIDE DEF c, x
  <2>4. e \in Rows
    BY <2>1, <2>2 DEF Rows, JobStatuses, LiveJobStatuses, RunStates
  <2>5. /\ e.status = "retry_wait" /\ e.run = "queued" /\ e.token = Null
        /\ e.lease = Null /\ Stop(e) = Stop(d)
        /\ e.timeoutAt = d.timeoutAt /\ e.left = d.left
    BY <2>2 DEF Rows, Stop
  <2> HIDE DEF e
  <2>6. LeaseOK(e) /\ RunOK(e)
    BY <2>5 DEF LeaseOK, RunOK, LeasedStatuses
  <2>7. RowOK(f, t)
    BY <1>1, <2>4, <2>5, <2>6, MoveOK
  <2> HIDE DEF f
  <2>8. f.attempt \in 0..MaxClaims /\ "run.retrying" \in EventTypes
    BY <2>7 DEF RowOK, UncutOK, Rows, EventTypes
  <2>9. QED
    BY <2>3, <2>7, <2>8, AppendOK
<1>3. CASE ~(retryable /\ d.attempt < MaxAttempts /\ d.timeoutAt > Local(h))
  <2> DEFINE s == IF retryable /\ d.attempt >= MaxAttempts
                  THEN "dead_letter" ELSE "failed"
  <2>1. s \in TerminalJobStatuses
    BY DEF TerminalJobStatuses
  <2>2. FailedRow(j, d, retryable, h, t) = TransitionTerminal(d, s)
    BY <1>3 DEF FailedRow
  <2> HIDE DEF s
  <2>3. RowOK(d, t)
    BY <1>1, LaterOK
  <2>4. QED
    BY <2>1, <2>2, <2>3, TerminalOK
<1>4. QED
  BY <1>2, <1>3

\* A recovered lease leaves the row in order.
LEMMA RecoverOK ==
    ASSUME now \in Nat, now >= MaxSkew, NEW scan \in Int,
           NEW j, NEW d, RowOK(d, now), d.status \in LeasedStatuses,
           d.drain = "none"
    PROVE  RowOK(RecoverLease(j, d, scan), now)
<1> DEFINE c == ClearLease(d)
           e == [c EXCEPT !.status = "queued", !.run = "queued", !.availableAt = scan]
           f == AppendEventOf(e, "lease.recovered", e.attempt)
<1>1. now \in Int /\ MaxSkew <= now
  BY ConstantsAssumption
<1>2. d \in Rows /\ d.status # "absent"
  BY DEF RowOK, UncutOK, LeasedStatuses
<1>3. /\ c \in Rows /\ c.token = Null /\ c.lease = Null
      /\ Stop(c) = Stop(d) /\ c.timeoutAt = d.timeoutAt /\ c.left = d.left
  BY <1>2, ClearLeaseType
<1>4. RecoverLease(j, d, scan) = RefreshTaskClock(j, d, f, now)
  BY DEF RecoverLease, AppendEvent
<1> HIDE DEF c
<1>5. e \in Rows
  BY <1>1, <1>3 DEF Rows, JobStatuses, LiveJobStatuses, RunStates
<1>6. /\ e.status = "queued" /\ e.run = "queued" /\ e.token = Null /\ e.lease = Null
      /\ Stop(e) = Stop(d) /\ e.timeoutAt = d.timeoutAt /\ e.left = d.left
  BY <1>3 DEF Rows, Stop
<1> HIDE DEF e
<1>7. e.attempt \in 0..MaxClaims /\ "lease.recovered" \in EventTypes
  BY <1>5 DEF Rows, EventTypes
<1>8. /\ f \in Rows /\ Job(f) = Job(e) /\ Stop(f) = Stop(e)
      /\ f.timeoutAt = e.timeoutAt /\ f.left = e.left
  BY <1>5, <1>7, AppendType
<1> HIDE DEF f
<1>9. LeaseOK(f) /\ RunOK(f)
  BY <1>6, <1>8 DEF LeaseOK, RunOK, Job, LeasedStatuses
<1>10. QED
  BY <1>1, <1>2, <1>4, <1>6, <1>8, <1>9, MoveOK

\* A promoted retry leaves the row in order.
LEMMA PromoteOK ==
    ASSUME NEW d, NEW t \in Int, RowOK(d, t), d.status = "retry_wait",
           NEW r, r = [d EXCEPT !.status = "queued"]
    PROVE  RowOK(r, t)
<1>1. d \in Rows /\ d.drain = "none"
  BY UndrainedUnlessStopping DEF RowOK, UncutOK
<1>2. r \in Rows
  BY <1>1 DEF Rows, JobStatuses, LiveJobStatuses
<1>3. /\ r.status = "queued" /\ r.run = d.run /\ r.token = d.token /\ r.lease = d.lease
      /\ Stop(r) = Stop(d) /\ r.question = d.question
      /\ r.timeoutAt = d.timeoutAt /\ r.left = d.left
  BY <1>1 DEF Rows, Stop
<1>4. LeaseOK(r) /\ RunOK(r)
  BY <1>3 DEF RowOK, UncutOK, LeaseOK, RunOK, LeasedStatuses
<1>5. StopOK(r) /\ CutOK(r)
  BY <1>1, <1>3 DEF RowOK, UncutOK, StopOK, CutOK, Stop
<1>6. ClockOK(r, t)
  BY <1>3 DEF RowOK, UncutOK, ClockOK
<1>7. QED
  BY <1>2, <1>4, <1>5, <1>6 DEF RowOK, UncutOK

\* Every branch of maintainQueue leaves the row in order.
LEMMA MaintainedOK ==
    ASSUME now \in Nat, now >= MaxSkew, NEW h \in Hosts,
           NEW j, NEW d, RowOK(d, now), d.status # "absent", NEW scan \in Int
    PROVE  RowOK(MaintainedRow(j, d, Local(h), scan), now)
<1> DEFINE t == Local(h)
           action == IF d.status \in LiveJobStatuses
                     THEN QueueMaintenanceAction(d, t) ELSE "none"
           cause == QueueStopCause(d, t)
           no == FALSE
<1>1. t \in Int /\ now \in Int /\ now >= 0 /\ d \in Rows /\ no \in BOOLEAN
  BY LocalType DEF RowOK, UncutOK
<1>2. action \in {"none", "cancel", "timeout", "promote_retry", "dead_letter", "recover_lease"}
  BY <1>1, CauseType DEF QueueMaintenanceAction, Causes
<1>3. CASE action \in {"cancel", "timeout"}
  <2>1. action = cause /\ cause # "none"
    BY <1>3 DEF QueueMaintenanceAction
  <2>2. action \in Causes /\ d.drain \in {"none", action}
    BY <1>1, <2>1, CauseType
  <2> HIDE DEF action, t, no
  <2>3. RowOK(StopJobOrDrain(d, action, now, no), now)
    BY <1>1, <2>2, StopOrDrainOK
  <2>4. QED
    BY <1>3, <2>3 DEF MaintainedRow, action, t, no
<1>4. CASE action = "promote_retry"
  <2>1. d.status = "retry_wait"
    BY <1>1, <1>4, CauseType DEF QueueMaintenanceAction, Causes
  <2>2. MaintainedRow(j, d, t, scan) = [d EXCEPT !.status = "queued"]
    BY <1>4 DEF MaintainedRow
  <2>3. QED
    BY <1>1, <2>1, <2>2, PromoteOK
<1>5. CASE action = "dead_letter"
  <2>1. d.drain = "none"
    BY <1>1, <1>5, CauseType DEF QueueMaintenanceAction, QueueStopCause, Causes
  <2> DEFINE s == "dead_letter"
  <2>2. s \in TerminalJobStatuses
    BY DEF TerminalJobStatuses
  <2>3. MaintainedRow(j, d, t, scan) = TransitionTerminal(d, s)
    BY <1>5 DEF MaintainedRow
  <2> HIDE DEF s
  <2>4. QED
    BY <1>1, <2>1, <2>2, <2>3, TerminalOK
<1>6. CASE action = "recover_lease"
  <2>1. cause = "none" /\ d.status \in LeasedStatuses
    BY <1>1, <1>6, CauseType DEF QueueMaintenanceAction, Causes
  <2>2. d.drain = "none"
    BY <2>1 DEF QueueStopCause
  <2>3. MaintainedRow(j, d, t, scan) = RecoverLease(j, d, scan)
    BY <1>6 DEF MaintainedRow
  <2>4. QED
    BY <2>1, <2>2, <2>3, RecoverOK
<1>7. CASE action = "none"
  BY <1>7 DEF MaintainedRow
<1>8. QED
  BY <1>2, <1>3, <1>4, <1>5, <1>6, <1>7

-----------------------------------------------------------------------------
(* The actions.                                                             *)

\* One transaction writes one row and moves the clock forward.
LEMMA CommitOK ==
    ASSUME IInv, NEW j \in Jobs, NEW d, NEW t \in Int, now <= t, RowOK(d, t),
           Commit(j, d, t), runner' \in [Jobs -> [Attempts -> Runners]],
           scanned' \subseteq Workers \X Jobs
    PROVE  IInv'
<1>1. now' = t /\ now' \in Nat /\ now' >= MaxSkew /\ now \in Int
  BY ConstantsAssumption DEF IInv, Commit
<1>2. d \in Rows /\ row' \in [Jobs -> Rows]
  BY DEF IInv, Commit, RowOK, UncutOK
<1>3. ASSUME NEW k \in Jobs PROVE RowOK(row'[k], t)
  <2>1. CASE k = j
    BY <2>1 DEF IInv, Commit
  <2>2. CASE k # j
    <3>1. row'[k] = row[k] /\ RowOK(row[k], now)
      BY <2>2 DEF IInv, Commit
    <3>2. QED
      BY <1>1, <3>1, LaterOK
  <2>3. QED
    BY <2>1, <2>2
<1>4. QED
  BY <1>1, <1>2, <1>3 DEF IInv

\* A runner's next position is typed.
LEMMA GotoType ==
    ASSUME IInv, NEW j \in Jobs, NEW a \in Attempts, NEW pc \in PCs, Goto(j, a, pc)
    PROVE  runner' \in [Jobs -> [Attempts -> Runners]]
<1> DEFINE x == [runner[j][a] EXCEPT !.pc = pc]
<1>1. runner[j][a] \in Runners
  BY DEF IInv
<1>2. x \in Runners
  BY <1>1 DEF Runners
<1>3. runner' = [runner EXCEPT ![j] = [runner[j] EXCEPT ![a] = x]]
  BY DEF Goto
<1> HIDE DEF x
<1>4. QED
  BY <1>2, <1>3 DEF IInv

\* An aborted runner is typed.
LEMMA AbortType ==
    ASSUME IInv, NEW j \in Jobs, NEW a \in Attempts, NEW b \in BOOLEAN,
           runner' = [runner EXCEPT ![j][a].aborted = b]
    PROVE  runner' \in [Jobs -> [Attempts -> Runners]]
<1> DEFINE x == [runner[j][a] EXCEPT !.aborted = b]
<1>1. runner[j][a] \in Runners
  BY DEF IInv
<1>2. x \in Runners
  BY <1>1 DEF Runners
<1>3. runner' = [runner EXCEPT ![j] = [runner[j] EXCEPT ![a] = x]]
  OBVIOUS
<1> HIDE DEF x
<1>4. QED
  BY <1>2, <1>3 DEF IInv

\* A runner that is gone is typed.
LEMMA ReturnsType ==
    ASSUME IInv, NEW j \in Jobs, NEW a \in Attempts, Returns(j, a)
    PROVE  runner' \in [Jobs -> [Attempts -> Runners]]
<1>1. Gone \in Runners
  BY DEF Gone, Runners, PCs
<1>2. QED
  BY <1>1 DEF IInv, Returns

\* A step that writes no row.
LEMMA MemoryOK ==
    ASSUME IInv, UNCHANGED <<now, row>>,
           runner' \in [Jobs -> [Attempts -> Runners]],
           scanned' \subseteq Workers \X Jobs
    PROVE  IInv'
BY DEF IInv

\* The row a leased transaction opens, clock refreshed, is in order.
LEMMA OpenedOK ==
    ASSUME IInv, NEW j \in Jobs, NEW d, d = Opened(j), d.status # "absent"
    PROVE  /\ now \in Int /\ now >= 0 /\ now >= MaxSkew /\ MaxSkew \in Int
           /\ d \in Rows /\ RowOK(d, now)
           /\ Job(d) = Job(row[j]) /\ Stop(d) = Stop(row[j])
           /\ d.question = row[j].question /\ d.wait = row[j].wait
           /\ d.events = row[j].events
<1>1. /\ now \in Int /\ now >= 0 /\ now >= MaxSkew /\ MaxSkew \in Int
      /\ row[j] \in Rows /\ RowOK(row[j], now)
  BY ConstantsAssumption DEF IInv
<1>2. /\ d \in Rows /\ Job(d) = Job(row[j]) /\ Stop(d) = Stop(row[j])
      /\ d.question = row[j].question /\ d.wait = row[j].wait
      /\ d.events = row[j].events
  BY <1>1, RefreshType DEF Opened
<1>3. row[j].status # "absent"
  BY <1>2 DEF Job
<1>4. LeaseOK(row[j]) /\ RunOK(row[j]) /\ StopOK(row[j]) /\ CutOK(row[j])
  BY <1>1 DEF RowOK, UncutOK
<1>5. RowOK(d, now)
  BY <1>1, <1>3, <1>4, RefreshOK DEF Opened
<1>6. QED
  BY <1>1, <1>2, <1>5

\* A transaction commits at an instant that is not before its start.
LEMMA CommitTimesType ==
    ASSUME IInv, NEW t \in CommitTimes
    PROVE  t \in Int /\ now <= t /\ MaxSkew <= t
BY ConstantsAssumption DEF IInv, CommitTimes

\* A runner lives on a host and reads its clock.
LEMMA HostType ==
    ASSUME IInv, NEW j \in Jobs, NEW a \in Attempts
    PROVE  /\ now \in Nat /\ now >= MaxSkew /\ runner[j][a].worker \in Hosts
           /\ Clock(j, a) \in Int
BY LocalType DEF IInv, Runners, Hosts, Clock

\* Every web operation preserves the invariant.
LEMMA WebStepOK ==
    ASSUME IInv, NEW j \in Jobs, WebStep(j)
    PROVE  IInv'
<1> DEFINE d == row[j]
<1>1. /\ now \in Int /\ now \in Nat /\ now >= 0 /\ now >= MaxSkew /\ MaxSkew \in Int
      /\ d \in Rows /\ RowOK(d, now) /\ UncutOK(d, now)
  BY ConstantsAssumption DEF IInv, RowOK
<1>2. CASE EnqueueRun(j)
  <2> DEFINE x == IF j \in Clocked \/ Budget = 0 THEN Never ELSE Local(Web) + Budget
             y == IF j \in Clocked THEN Budget ELSE 0
             e == [d EXCEPT !.status = "queued", !.run = "queued",
                            !.availableAt = Local(Web), !.timeoutAt = x, !.left = y]
             r == AppendEventOf(e, "run.created", e.attempt)
  <2>0. Local(Web) \in Int /\ Local(Web) >= 0
    BY <1>1, LocalType DEF Hosts
  <2>1. x \in Int /\ y \in Int /\ x >= 0 /\ y + now >= 0
    BY <1>1, <2>0, ConstantsAssumption DEF Never
  <2>2. d.status = "absent" /\ Commit(j, r, now) /\ UNCHANGED <<runner, scanned>>
    BY <1>2 DEF EnqueueRun, AppendEvent
  <2> HIDE DEF d, x, y
  <2>3. e \in Rows
    BY <1>1, <2>0, <2>1 DEF Rows, JobStatuses, LiveJobStatuses, RunStates
  <2>4. /\ e.status = "queued" /\ e.run = "queued" /\ e.token = d.token
        /\ e.lease = d.lease /\ Stop(e) = Stop(d) /\ e.timeoutAt = x /\ e.left = y
    BY <1>1 DEF Rows, Stop
  <2>5. d.drain = "none"
    BY <1>1, <2>2, UndrainedUnlessStopping DEF UncutOK
  <2> HIDE DEF e
  <2>6. LeaseOK(e) /\ RunOK(e)
    BY <1>1, <2>2, <2>4 DEF UncutOK, LeaseOK, RunOK, LeasedStatuses
  <2>7. StopOK(e) /\ CutOK(e)
    BY <1>1, <2>4, <2>5 DEF UncutOK, StopOK, CutOK, Stop
  <2>8. ClockOK(e, now)
    BY <2>1, <2>4 DEF ClockOK
  <2>9. e.attempt \in 0..MaxClaims /\ "run.created" \in EventTypes
    BY <2>3 DEF Rows, EventTypes
  <2>10. RowOK(e, now)
    BY <2>3, <2>6, <2>7, <2>8 DEF RowOK, UncutOK
  <2>11. RowOK(r, now)
    BY <1>1, <2>9, <2>10, AppendOK
  <2> HIDE DEF r
  <2>12. QED
    BY <1>1, <2>2, <2>11, CommitOK DEF IInv
<1>3. CASE CancelRun(j)
  <2> DEFINE r1 == CancelRuntimeRoot(d, "user_request")
             r2 == RequestCancellation(d, Web)
  <2>1. RowOK(r1, now)
    BY <1>1, RootOK
  <2>2. RowOK(r2, now)
    BY <1>1, CancelOK DEF Hosts
  <2>3. (Commit(j, r1, now) \/ Commit(j, r2, now)) /\ UNCHANGED <<runner, scanned>>
    BY <1>3 DEF CancelRun
  <2> HIDE DEF r1, r2
  <2>4. QED
    BY <1>1, <2>1, <2>2, <2>3, CommitOK DEF IInv
<1>4. CASE RevokeCompletedReview(j)
  <2> DEFINE c == CancelRuntimeRoot(d, "user_request")
             r == [c EXCEPT !.cancelAt = IF @ = Null THEN now ELSE @]
  <2>1. Commit(j, r, now) /\ UNCHANGED <<runner, scanned>>
    BY <1>4 DEF RevokeCompletedReview
  <2>2. RowOK(c, now)
    BY <1>1, RootOK
  <2> HIDE DEF c
  <2>3. RowOK(r, now)
    BY <1>1, <2>2, RequestOK
  <2> HIDE DEF r
  <2>4. QED
    BY <1>1, <2>1, <2>3, CommitOK DEF IInv
<1>5. CASE CancelByPolicyChange(j)
  <2> DEFINE r == [d EXCEPT !.cancelAt = IF @ = Null THEN now ELSE @]
  <2>1. Commit(j, r, now) /\ UNCHANGED <<runner, scanned>>
    BY <1>5 DEF CancelByPolicyChange
  <2>2. RowOK(r, now)
    BY <1>1, RequestOK
  <2> HIDE DEF r
  <2>3. QED
    BY <1>1, <2>1, <2>2, CommitOK DEF IInv
<1>6. QED
  BY <1>2, <1>3, <1>4, <1>5 DEF WebStep

\* claimNextJob preserves the invariant.
LEMMA ClaimOK ==
    ASSUME IInv, NEW w \in Workers, NEW j \in Jobs, ClaimNextJob(w, j)
    PROVE  IInv'
<1> DEFINE d == row[j]
           a == d.attempt + 1
           new == [worker |-> w, pc |-> "starting", aborted |-> FALSE]
<1>1. /\ now \in Int /\ now >= MaxSkew /\ MaxSkew \in Int /\ MaxSkew >= 0
      /\ d \in Rows /\ RowOK(d, now)
  BY ConstantsAssumption DEF IInv
<1>2. /\ d.status = "queued" /\ a <= MaxClaims
      /\ runner' = [runner EXCEPT ![j][a] = new] /\ UNCHANGED scanned
  BY DEF ClaimNextJob
<1>3. PICK t \in CommitTimes :
        Commit(j, [d EXCEPT !.status = "claimed", !.attempt = a,
                            !.token = a, !.lease = t + LeaseMs], t)
  BY DEF ClaimNextJob
<1>4. t \in Int /\ now <= t /\ MaxSkew <= t /\ t + LeaseMs \in Int /\ t + LeaseMs >= 0
  BY <1>1, CommitTimesType, ConstantsAssumption
<1>5. a \in Attempts /\ a \in 0..MaxClaims
  <2>1. d.attempt \in 0..MaxClaims
    BY <1>1 DEF Rows
  <2>2. QED
    BY <1>2, <2>1, ConstantsAssumption DEF Attempts
<1>6. d.drain = "none"
  BY <1>1, <1>2, UndrainedUnlessStopping DEF RowOK, UncutOK
<1> DEFINE r == [d EXCEPT !.status = "claimed", !.attempt = a,
                          !.token = a, !.lease = t + LeaseMs]
<1> HIDE DEF a
<1>7. r \in Rows
  BY <1>1, <1>4, <1>5 DEF Rows, JobStatuses, LiveJobStatuses, LeasedStatuses
<1>8. /\ r.status = "claimed" /\ r.attempt = a /\ r.token = a /\ r.lease = t + LeaseMs
      /\ r.run = d.run /\ Stop(r) = Stop(d) /\ r.question = d.question
      /\ r.timeoutAt = d.timeoutAt /\ r.left = d.left
  BY <1>1 DEF Rows, Stop
<1>9. Commit(j, r, t)
  BY <1>3
<1> HIDE DEF r, d
<1>10. LeaseOK(r) /\ RunOK(r)
  BY <1>1, <1>2, <1>4, <1>8 DEF RowOK, UncutOK, LeaseOK, RunOK, LeasedStatuses
<1>11. StopOK(r) /\ CutOK(r)
  BY <1>1, <1>6, <1>8 DEF RowOK, UncutOK, StopOK, CutOK, Stop
<1>12. ClockOK(r, now)
  BY <1>1, <1>2, <1>8 DEF RowOK, UncutOK, ClockOK
<1>13. RowOK(r, now)
  BY <1>7, <1>10, <1>11, <1>12 DEF RowOK, UncutOK
<1>14. RowOK(r, t)
  BY <1>1, <1>4, <1>13, LaterOK
<1>15. new \in Runners
  BY DEF Runners, PCs
<1> HIDE DEF new
<1>16. runner' \in [Jobs -> [Attempts -> Runners]]
  BY <1>2, <1>5, <1>15 DEF IInv
<1>17. QED
  BY <1>2, <1>4, <1>9, <1>14, <1>16, CommitOK DEF IInv

\* startClaimedJob preserves the invariant.
LEMMA StartOK ==
    ASSUME IInv, NEW j \in Jobs, NEW a \in Attempts, StartClaimedJob(j, a)
    PROVE  IInv'
<1> DEFINE d == Opened(j)
<1>1. d.status = "claimed" /\ UNCHANGED scanned
  BY DEF StartClaimedJob
<1>2. /\ now \in Int /\ now >= 0 /\ now >= MaxSkew /\ MaxSkew \in Int
      /\ d \in Rows /\ RowOK(d, now)
  BY <1>1, OpenedOK
<1>3. d.drain = "none"
  BY <1>1, <1>2, UndrainedUnlessStopping DEF RowOK, UncutOK
<1>4. ASSUME NEW s \in {"canceled", "failed", "dead_letter"},
             Commit(j, TransitionTerminal(d, s), now), Returns(j, a)
      PROVE  IInv'
  <2> HIDE DEF d
  <2>1. s \in TerminalJobStatuses
    BY DEF TerminalJobStatuses
  <2>2. RowOK(TransitionTerminal(d, s), now)
    BY <1>1, <1>2, <1>3, <2>1, TerminalOK
  <2>3. runner' \in [Jobs -> [Attempts -> Runners]]
    BY <1>4, ReturnsType
  <2>4. QED
    BY <1>1, <1>2, <1>4, <2>2, <2>3, CommitOK DEF IInv
<1>5. ASSUME NEW t \in CommitTimes,
             Commit(j, Running(j, d, t), t), Goto(j, a, "executing")
      PROVE  IInv'
  <2> HIDE DEF d
  <2>1. t \in Int /\ now <= t /\ MaxSkew <= t
    BY CommitTimesType
  <2>2. RowOK(Running(j, d, t), t)
    BY <1>1, <1>2, <2>1, RunningOK
  <2>3. runner' \in [Jobs -> [Attempts -> Runners]]
    BY <1>5, GotoType DEF PCs
  <2>4. QED
    BY <1>1, <1>2, <1>5, <2>1, <2>2, <2>3, CommitOK DEF IInv
<1>6. QED
  BY <1>4, <1>5 DEF StartClaimedJob

\* completeJob, failJob, failClaimedJobStart and finishJobDrain on a stopped job.
LEMMA StoppedCommitOK ==
    ASSUME IInv, NEW j \in Jobs, NEW d, RowOK(d, now), d.status # "absent",
           NEW u \in Int, QueueStopCause(d, u) # "none",
           NEW t \in CommitTimes, Commit(j, TransitionStoppedJob(d, QueueStopCause(d, u)), t),
           runner' \in [Jobs -> [Attempts -> Runners]], UNCHANGED scanned
    PROVE  IInv'
<1> DEFINE cause == QueueStopCause(d, u)
<1>1. t \in Int /\ now <= t /\ now \in Int
  BY CommitTimesType DEF IInv
<1>2. d \in Rows /\ RowOK(d, t)
  BY <1>1, LaterOK DEF RowOK, UncutOK
<1>3. cause \in Causes /\ d.drain \in {"none", cause}
  BY <1>2, CauseType
<1> HIDE DEF cause
<1>4. RowOK(TransitionStoppedJob(d, cause), t)
  BY <1>1, <1>2, <1>3, StoppedOK
<1>5. QED
  BY <1>1, <1>4, CommitOK DEF IInv, cause

\* A transaction that ends an undrained job preserves the invariant.
LEMMA TerminalCommitOK ==
    ASSUME IInv, NEW j \in Jobs, NEW d, RowOK(d, now), d.status # "absent",
           d.drain = "none", NEW s \in TerminalJobStatuses,
           NEW t \in CommitTimes, Commit(j, TransitionTerminal(d, s), t),
           runner' \in [Jobs -> [Attempts -> Runners]], UNCHANGED scanned
    PROVE  IInv'
<1>1. t \in Int /\ now <= t /\ now \in Int
  BY CommitTimesType DEF IInv
<1>2. RowOK(d, t)
  BY <1>1, LaterOK
<1>3. RowOK(TransitionTerminal(d, s), t)
  BY <1>1, <1>2, TerminalOK
<1>4. QED
  BY <1>1, <1>3, CommitOK DEF IInv

\* failClaimedJobStart preserves the invariant.
LEMMA FailStartOK ==
    ASSUME IInv, NEW j \in Jobs, NEW a \in Attempts, FailClaimedJobStart(j, a)
    PROVE  IInv'
<1> DEFINE d == Opened(j)
           cause == QueueStopCause(d, now)
           s == "failed"
<1>1. d.status = "claimed" /\ UNCHANGED scanned /\ Returns(j, a)
  BY DEF FailClaimedJobStart, HoldsLease
<1>2. now \in Int /\ RowOK(d, now) /\ d \in Rows
  BY <1>1, OpenedOK
<1>3. d.drain = "none" /\ d.status # "absent"
  BY <1>1, <1>2, UndrainedUnlessStopping DEF RowOK, UncutOK
<1>4. PICK t \in CommitTimes :
        Commit(j, IF cause # "none" THEN TransitionStoppedJob(d, cause)
                  ELSE TransitionTerminal(d, s), t)
  BY DEF FailClaimedJobStart
<1>5. runner' \in [Jobs -> [Attempts -> Runners]]
  BY <1>1, ReturnsType
<1>6. s \in TerminalJobStatuses
  BY DEF TerminalJobStatuses
<1> HIDE DEF d, s
<1>7. CASE cause # "none"
  BY <1>1, <1>2, <1>3, <1>4, <1>5, <1>7, StoppedCommitOK
<1>8. CASE cause = "none"
  BY <1>1, <1>2, <1>3, <1>4, <1>5, <1>6, <1>8, TerminalCommitOK
<1>9. QED
  BY <1>7, <1>8

\* heartbeatJob preserves the invariant.
LEMMA HeartbeatJobOK ==
    ASSUME IInv, NEW j \in Jobs, NEW a \in Attempts, HeartbeatJob(j, a)
    PROVE  IInv'
<1> DEFINE d == Opened(j)
           h == runner[j][a].worker
<1>1. d.status = "running" /\ UNCHANGED scanned
  BY DEF HeartbeatJob, HoldsLease
<1>2. now \in Int /\ RowOK(d, now) /\ d \in Rows
  BY <1>1, OpenedOK
<1>3. now \in Nat /\ now >= MaxSkew /\ h \in Hosts
  BY HostType
<1>4. PICK scheduled \in BOOLEAN, authorized \in BOOLEAN, t \in CommitTimes :
        LET beat == HeartbeatRow(d, h, scheduled, authorized) IN
        /\ Commit(j, beat.row, t)
        /\ IF runner[j][a].pc = "detached" THEN Returns(j, a)
           ELSE runner' = [runner EXCEPT ![j][a].aborted = @ \/ ~beat.active]
  BY DEF HeartbeatJob
<1> DEFINE beat == HeartbeatRow(d, h, scheduled, authorized)
           r == beat.row
           b == runner[j][a].aborted \/ ~beat.active
<1>5. t \in Int /\ now <= t
  BY CommitTimesType
<1>6. RowOK(r, now)
  BY <1>1, <1>2, <1>3, HeartbeatOK
<1>7. runner' \in [Jobs -> [Attempts -> Runners]]
  <2>1. CASE runner[j][a].pc = "detached"
    BY <1>4, <2>1, ReturnsType
  <2>2. CASE runner[j][a].pc # "detached"
    <3>1. runner' = [runner EXCEPT ![j][a].aborted = b]
      BY <1>4, <2>2 DEF IInv
    <3>2. b \in BOOLEAN
      OBVIOUS
    <3> HIDE DEF b
    <3>3. QED
      BY <3>1, <3>2, AbortType
  <2>3. QED
    BY <2>1, <2>2
<1>8. Commit(j, r, t)
  BY <1>4
<1> HIDE DEF r
<1>9. RowOK(r, t)
  BY <1>2, <1>5, <1>6, LaterOK
<1>10. QED
  BY <1>1, <1>5, <1>7, <1>8, <1>9, CommitOK DEF IInv

\* appendJobEvent preserves the invariant.
LEMMA AppendJobEventOK ==
    ASSUME IInv, NEW j \in Jobs, NEW a \in Attempts, AppendJobEvent(j, a)
    PROVE  IInv'
<1> DEFINE d == Opened(j)
<1>1. d.status = "running" /\ UNCHANGED <<runner, scanned>>
  BY DEF AppendJobEvent, HoldsLease
<1>2. now \in Int /\ RowOK(d, now) /\ d \in Rows
  BY <1>1, OpenedOK
<1>3. PICK t \in CommitTimes :
        \/ Commit(j, AppendEventOf(d, "step", a), t)
        \/ \E q \in Questions, notice \in {"pending", "closed"} :
             LET asked == [d.question EXCEPT ![q] = IF @ = "closed" THEN @ ELSE notice]
             IN Commit(j, RefreshTaskClock(j, d,
                        AppendEventOf([d EXCEPT !.question = asked], "step", a), t), t)
  BY DEF AppendJobEvent
<1>4. /\ t \in Int /\ now <= t /\ MaxSkew <= t
      /\ a \in 0..MaxClaims /\ "step" \in EventTypes
  BY CommitTimesType, ConstantsAssumption DEF EventTypes, Attempts
<1> HIDE DEF d
<1>5. CASE Commit(j, AppendEventOf(d, "step", a), t)
  <2>1. RowOK(d, t)
    BY <1>2, <1>4, LaterOK
  <2>2. RowOK(AppendEventOf(d, "step", a), t)
    BY <1>4, <2>1, AppendOK
  <2>3. QED
    BY <1>1, <1>4, <1>5, <2>2, CommitOK DEF IInv
<1>6. ASSUME NEW q \in Questions, NEW notice \in {"pending", "closed"},
             NEW asked, asked = [d.question EXCEPT ![q] = IF @ = "closed" THEN @ ELSE notice],
             Commit(j, RefreshTaskClock(j, d,
                        AppendEventOf([d EXCEPT !.question = asked], "step", a), t), t)
      PROVE  IInv'
  <2> DEFINE e == [d EXCEPT !.question = asked]
             r == AppendEventOf(e, "step", a)
  <2>1. asked \in [Questions -> {"none", "pending", "closed"}]
    BY <1>2, <1>6 DEF Rows
  <2>2. e \in Rows
    BY <1>2, <2>1 DEF Rows
  <2>3. /\ Job(e) = Job(d) /\ Stop(e) = Stop(d)
        /\ e.timeoutAt = d.timeoutAt /\ e.left = d.left
    BY <1>2 DEF Rows, Job, Stop
  <2> HIDE DEF e
  <2>4. /\ r \in Rows /\ Job(r) = Job(d) /\ Stop(r) = Stop(d)
        /\ r.timeoutAt = d.timeoutAt /\ r.left = d.left
    BY <1>4, <2>2, <2>3, AppendType
  <2> HIDE DEF r
  <2>5. LeaseOK(r) /\ RunOK(r)
    BY <1>2, <2>4 DEF RowOK, UncutOK, LeaseOK, RunOK, Job
  <2>6. StopOK(r) /\ CutOK(r)
    BY <1>2, <2>4 DEF RowOK, UncutOK, StopOK, CutOK, Job, Stop
  <2>7. RowOK(RefreshTaskClock(j, d, r, t), t)
    BY <1>1, <1>2, <1>4, <2>4, <2>5, <2>6, RefreshOK
  <2>8. Commit(j, RefreshTaskClock(j, d, r, t), t)
    BY <1>6 DEF r, e
  <2>9. QED
    BY <1>1, <1>4, <2>7, <2>8, CommitOK DEF IInv
<1>7. QED
  BY <1>3, <1>5, <1>6

\* A cancel decided in recordTaskProgress preserves the invariant.
LEMMA ProgressOK ==
    ASSUME IInv, NEW j \in Jobs, NEW a \in Attempts, CancelByProgress(j, a)
    PROVE  IInv'
<1> DEFINE d == Opened(j)
           c == CancelRuntimeRoot(d, "user_request")
           r == [c EXCEPT !.cancelAt = now]
           x == [c EXCEPT !.cancelAt = IF @ = Null THEN now ELSE @]
<1>1. /\ d.status = "running" /\ d.cancelAt = Null /\ UNCHANGED <<runner, scanned>>
      /\ Commit(j, r, now)
  BY DEF CancelByProgress, IsOwner
<1>2. /\ now \in Int /\ now >= 0 /\ RowOK(d, now) /\ d \in Rows /\ UncutOK(d, now)
  BY <1>1, OpenedOK DEF RowOK
<1> HIDE DEF d
<1>3. RowOK(c, now) /\ c.cancelAt = Null
  BY <1>1, <1>2, RootOK, RootType
<1> HIDE DEF c
<1>4. RowOK(x, now)
  BY <1>2, <1>3, RequestOK
<1>5. r = x
  BY <1>3 DEF RowOK, UncutOK, Rows
<1> HIDE DEF r, x
<1>6. QED
  BY <1>1, <1>2, <1>4, <1>5, CommitOK DEF IInv

\* parkNativeQuestion preserves the invariant.
LEMMA ParkOK ==
    ASSUME IInv, NEW j \in Jobs, NEW a \in Attempts, NEW q \in Questions,
           ParkNativeQuestion(j, a, q)
    PROVE  IInv'
<1> DEFINE d == Opened(j)
           c == ClearLease(d)
           e == [c EXCEPT !.status = "waiting_approval",
                          !.run = "waiting_approval", !.wait[q] = "parked"]
<1>1. /\ d.status = "running" /\ d.cancelAt = Null /\ UNCHANGED scanned
      /\ Goto(j, a, "cleanup")
  BY DEF ParkNativeQuestion, IsOwner
<1>2. now \in Int /\ RowOK(d, now) /\ d \in Rows
  BY <1>1, OpenedOK
<1>3. PICK t \in CommitTimes : Commit(j, RefreshTaskClock(j, d, e, t), t)
  BY DEF ParkNativeQuestion
<1>4. t \in Int /\ now <= t /\ MaxSkew <= t
  BY CommitTimesType
<1> HIDE DEF d
<1>5. /\ c \in Rows /\ c.token = Null /\ c.lease = Null
      /\ Stop(c) = Stop(d) /\ c.timeoutAt = d.timeoutAt /\ c.left = d.left
  BY <1>2, ClearLeaseType
<1> HIDE DEF c
<1>6. [c.wait EXCEPT ![q] = "parked"]
        \in [Questions -> {"none", "parked", "ready", "continued"}]
  BY <1>5 DEF Rows
<1>7. e \in Rows
  BY <1>5, <1>6 DEF Rows, JobStatuses, LiveJobStatuses, RunStates
<1>8. /\ e.status = "waiting_approval" /\ e.run = "waiting_approval"
      /\ e.token = Null /\ e.lease = Null /\ Stop(e) = Stop(d)
      /\ e.timeoutAt = d.timeoutAt /\ e.left = d.left
  BY <1>5 DEF Rows, Stop
<1>9. d.drain = "none"
  BY <1>1, <1>2 DEF RowOK, UncutOK, StopOK
<1> HIDE DEF e
<1>10. LeaseOK(e) /\ RunOK(e)
  BY <1>8 DEF LeaseOK, RunOK, LeasedStatuses
<1>11. RowOK(RefreshTaskClock(j, d, e, t), t)
  BY <1>1, <1>2, <1>4, <1>7, <1>8, <1>9, <1>10, MoveOK
<1>12. runner' \in [Jobs -> [Attempts -> Runners]]
  BY <1>1, GotoType DEF PCs
<1>13. QED
  BY <1>1, <1>3, <1>4, <1>11, <1>12, CommitOK DEF IInv

\* continueNativeQuestion preserves the invariant.
LEMMA ContinueOK ==
    ASSUME IInv, NEW j \in Jobs, NEW a \in Attempts, NEW q \in Questions,
           ContinueNativeQuestion(j, a, q)
    PROVE  IInv'
<1> DEFINE d == Opened(j)
           e == [d EXCEPT !.wait[q] = "continued", !.question[q] = "closed"]
<1>1. /\ d.status = "running" /\ d.cancelAt = Null /\ UNCHANGED <<runner, scanned>>
  BY DEF ContinueNativeQuestion, IsOwner
<1>2. now \in Int /\ RowOK(d, now) /\ d \in Rows
  BY <1>1, OpenedOK
<1>3. PICK t \in CommitTimes : Commit(j, RefreshTaskClock(j, d, e, t), t)
  BY DEF ContinueNativeQuestion
<1>4. t \in Int /\ now <= t /\ MaxSkew <= t
  BY CommitTimesType
<1> HIDE DEF d
<1>5. /\ [d.wait EXCEPT ![q] = "continued"]
           \in [Questions -> {"none", "parked", "ready", "continued"}]
      /\ [d.question EXCEPT ![q] = "closed"]
           \in [Questions -> {"none", "pending", "closed"}]
  BY <1>2 DEF Rows
<1>6. e \in Rows
  BY <1>2, <1>5 DEF Rows
<1>7. /\ Job(e) = Job(d) /\ Stop(e) = Stop(d)
      /\ e.timeoutAt = d.timeoutAt /\ e.left = d.left
  BY <1>2 DEF Rows, Job, Stop
<1>8. d.drain = "none"
  BY <1>1, <1>2 DEF RowOK, UncutOK, StopOK
<1> HIDE DEF e
<1>9. LeaseOK(e) /\ RunOK(e)
  BY <1>2, <1>7 DEF RowOK, UncutOK, LeaseOK, RunOK, Job
<1>10. RowOK(RefreshTaskClock(j, d, e, t), t)
  BY <1>1, <1>2, <1>4, <1>6, <1>7, <1>8, <1>9, MoveOK
<1>11. QED
  BY <1>1, <1>3, <1>4, <1>10, CommitOK DEF IInv

\* wakeNativeQuestionWaits preserves the invariant.
LEMMA WakeOK ==
    ASSUME IInv, NEW j \in Jobs, NEW q \in Questions, WakeNativeQuestionWaits(j, q)
    PROVE  IInv'
<1> DEFINE d == Opened(j)
           e == [d EXCEPT !.status = "queued", !.run = "queued",
                          !.availableAt = now, !.wait[q] = "ready"]
<1>1. /\ d.status = "waiting_approval" /\ UNCHANGED <<runner, scanned>>
      /\ Commit(j, RefreshTaskClock(j, d, e, now), now)
  BY DEF WakeNativeQuestionWaits
<1>2. now \in Int /\ RowOK(d, now) /\ d \in Rows /\ MaxSkew <= now
  BY <1>1, OpenedOK
<1>3. d.drain = "none"
  BY <1>1, <1>2, UndrainedUnlessStopping DEF RowOK, UncutOK
<1> HIDE DEF d
<1>4. [d.wait EXCEPT ![q] = "ready"]
        \in [Questions -> {"none", "parked", "ready", "continued"}]
  BY <1>2 DEF Rows
<1>5. e \in Rows
  BY <1>2, <1>4 DEF Rows, JobStatuses, LiveJobStatuses, RunStates
<1>6. /\ e.status = "queued" /\ e.run = "queued" /\ e.token = d.token
      /\ e.lease = d.lease /\ Stop(e) = Stop(d)
      /\ e.timeoutAt = d.timeoutAt /\ e.left = d.left
  BY <1>2 DEF Rows, Stop
<1> HIDE DEF e
<1>7. LeaseOK(e) /\ RunOK(e)
  BY <1>1, <1>2, <1>6 DEF RowOK, UncutOK, LeaseOK, RunOK, LeasedStatuses
<1>8. RowOK(RefreshTaskClock(j, d, e, now), now)
  BY <1>1, <1>2, <1>3, <1>5, <1>6, <1>7, MoveOK
<1>9. QED
  BY <1>1, <1>2, <1>8, CommitOK DEF IInv

\* completeJob preserves the invariant.
LEMMA CompleteOK ==
    ASSUME IInv, NEW j \in Jobs, NEW a \in Attempts, CompleteJob(j, a)
    PROVE  IInv'
<1> DEFINE d == Opened(j)
           cause == QueueStopCause(d, Clock(j, a))
<1>1. d.status = "running" /\ UNCHANGED scanned /\ Goto(j, a, "cleanup")
  BY DEF CompleteJob, HoldsLease
<1>2. now \in Int /\ RowOK(d, now) /\ d \in Rows /\ Clock(j, a) \in Int
  BY <1>1, OpenedOK, HostType
<1>3. PICK t \in CommitTimes :
        \/ cause # "none" /\ Commit(j, TransitionStoppedJob(d, cause), t)
        \/ /\ cause = "none"
           /\ \E outcome \in {"succeeded", "failed"} :
                Commit(j, TransitionTerminal(d, outcome), t)
  BY DEF CompleteJob
<1>4. runner' \in [Jobs -> [Attempts -> Runners]]
  BY <1>1, GotoType DEF PCs
<1>5. CASE cause # "none"
  <2> HIDE DEF d
  <2>1. QED
    BY <1>1, <1>2, <1>3, <1>4, <1>5, StoppedCommitOK
<1>6. CASE cause = "none"
  <2>1. PICK outcome \in {"succeeded", "failed"} :
          Commit(j, TransitionTerminal(d, outcome), t)
    BY <1>3, <1>6
  <2>2. outcome \in TerminalJobStatuses
    BY DEF TerminalJobStatuses
  <2>3. d.drain = "none"
    BY <1>6 DEF QueueStopCause
  <2> HIDE DEF d
  <2>4. QED
    BY <1>1, <1>2, <1>4, <2>1, <2>2, <2>3, TerminalCommitOK
<1>7. QED
  BY <1>5, <1>6

\* failJob preserves the invariant.
LEMMA FailJobOK ==
    ASSUME IInv, NEW j \in Jobs, NEW a \in Attempts, FailJob(j, a)
    PROVE  IInv'
<1> DEFINE d == Opened(j)
           h == runner[j][a].worker
           cause == QueueStopCause(d, Local(h))
<1>1. /\ d.status = "running" /\ d.token = a
      /\ UNCHANGED scanned /\ Goto(j, a, "cleanup")
  BY DEF FailJob, HoldsLease
<1>2. now \in Int /\ RowOK(d, now) /\ d \in Rows
  BY <1>1, OpenedOK
<1>3. now \in Nat /\ now >= MaxSkew /\ h \in Hosts /\ Local(h) \in Int
  BY HostType, LocalType
<1>4. PICK t \in CommitTimes, retryable \in BOOLEAN :
        Commit(j, IF cause # "none" THEN TransitionStoppedJob(d, cause)
                  ELSE FailedRow(j, d, retryable, h, t), t)
  BY DEF FailJob
<1>5. runner' \in [Jobs -> [Attempts -> Runners]]
  BY <1>1, GotoType DEF PCs
<1>6. CASE cause # "none"
  <2> HIDE DEF d, h
  <2>1. QED
    BY <1>1, <1>2, <1>3, <1>4, <1>5, <1>6, StoppedCommitOK
<1>7. CASE cause = "none"
  <2>1. d.drain = "none"
    BY <1>7 DEF QueueStopCause
  <2>2. d.attempt \in Attempts
    BY <1>1, <1>2 DEF RowOK, UncutOK, LeaseOK, LeasedStatuses
  <2>3. t \in Int /\ now <= t
    BY CommitTimesType
  <2> HIDE DEF d, h
  <2>4. RowOK(FailedRow(j, d, retryable, h, t), t)
    BY <1>1, <1>2, <1>3, <2>1, <2>2, <2>3, FailedOK
  <2>5. QED
    BY <1>1, <1>4, <1>5, <1>7, <2>3, <2>4, CommitOK DEF IInv
<1>8. QED
  BY <1>6, <1>7

\* finishJobDrain preserves the invariant.
LEMMA FinishOK ==
    ASSUME IInv, NEW j \in Jobs, NEW a \in Attempts, FinishJobDrain(j, a)
    PROVE  IInv'
<1> DEFINE d == Opened(j)
           cause == QueueStopCause(d, Clock(j, a))
<1>1. runner' \in [Jobs -> [Attempts -> Runners]] /\ UNCHANGED scanned
  BY ReturnsType DEF FinishJobDrain
<1>2. ASSUME d.status = "running", cause # "none", NEW t \in CommitTimes,
             Commit(j, TransitionStoppedJob(d, cause), t)
      PROVE  IInv'
  <2>1. now \in Int /\ RowOK(d, now) /\ d \in Rows /\ Clock(j, a) \in Int
    BY <1>2, OpenedOK, HostType
  <2> HIDE DEF d
  <2>2. QED
    BY <1>1, <1>2, <2>1, StoppedCommitOK
<1>3. CASE UNCHANGED <<now, row>>
  BY <1>1, <1>3, MemoryOK DEF IInv
<1>4. QED
  BY <1>2, <1>3 DEF FinishJobDrain, HoldsLease

\* maintainQueue preserves the invariant.
LEMMA MaintainOK ==
    ASSUME IInv, NEW w \in Workers, NEW j \in Jobs, MaintainQueue(w, j)
    PROVE  IInv'
<1> DEFINE d == Opened(j)
<1>1. PICK scan \in MinOf(now, Local(w))..Local(w) :
        Commit(j, MaintainedRow(j, d, Local(w), scan), now)
  BY DEF MaintainQueue
<1> DEFINE r == MaintainedRow(j, d, Local(w), scan)
<1>2. w \in Hosts /\ now \in Nat /\ now >= MaxSkew /\ now \in Int /\ scan \in Int
  BY DEF Hosts, IInv
<1>3. RowOK(r, now)
  <2>1. CASE d.status # "absent"
    <3>1. RowOK(d, now)
      BY <2>1, OpenedOK
    <3> HIDE DEF d
    <3>2. QED
      BY <1>2, <2>1, <3>1, MaintainedOK
  <2>2. CASE d.status = "absent"
    <3>1. row[j] \in Rows /\ RowOK(row[j], now)
      BY DEF IInv
    <3>2. d \in Rows /\ Job(d) = Job(row[j]) /\ Stop(d) = Stop(row[j])
      BY <1>2, <3>1, RefreshType DEF Opened
    <3>3. r = d
      BY <2>2 DEF MaintainedRow, LiveJobStatuses, LeasedStatuses
    <3> HIDE DEF d, r
    <3>4. LeaseOK(d) /\ RunOK(d)
      BY <3>1, <3>2 DEF RowOK, UncutOK, LeaseOK, RunOK, Job
    <3>5. StopOK(d) /\ CutOK(d)
      BY <3>1, <3>2 DEF RowOK, UncutOK, StopOK, CutOK, Job, Stop
    <3>6. QED
      BY <2>2, <3>2, <3>3, <3>4, <3>5 DEF RowOK, UncutOK, ClockOK
  <2>3. QED
    BY <2>1, <2>2
<1>4. Commit(j, r, now) /\ UNCHANGED runner /\ scanned' = scanned \ {<<w, j>>}
  BY <1>1 DEF MaintainQueue
<1> HIDE DEF r
<1>5. QED
  BY <1>2, <1>3, <1>4, CommitOK DEF IInv

\* Steps in a worker's memory preserve the invariant.
LEMMA MemoryStepsOK ==
    ASSUME IInv, NEW j \in Jobs, NEW a \in Attempts,
           \/ HeartbeatFails(j, a) \/ HandlerReturns(j, a) \/ SettlementThrows(j, a)
           \/ LeaseLost(j, a) \/ Cleanup(j, a) \/ RunnerStops(j, a)
    PROVE  IInv'
<1>1. UNCHANGED <<now, row, scanned>>
  BY DEF HeartbeatFails, HandlerReturns, SettlementThrows, LeaseLost, Cleanup, RunnerStops
<1>2. \/ runner' = [runner EXCEPT ![j][a].aborted = TRUE]
      \/ \E pc \in PCs : Goto(j, a, pc)
      \/ Returns(j, a)
  BY DEF HeartbeatFails, HandlerReturns, SettlementThrows, LeaseLost, Cleanup,
         RunnerStops, PCs
<1>3. runner' \in [Jobs -> [Attempts -> Runners]]
  <2> DEFINE b == TRUE
  <2>1. b \in BOOLEAN
    OBVIOUS
  <2> HIDE DEF b
  <2>2. CASE runner' = [runner EXCEPT ![j][a].aborted = b]
    BY <2>1, <2>2, AbortType
  <2>3. QED
    BY <1>2, <2>2, GotoType, ReturnsType DEF b
<1>4. QED
  BY <1>1, <1>3, MemoryOK DEF IInv

\* An empty queue satisfies the invariant.
LEMMA InitOK == Init => IInv
<1> SUFFICES ASSUME Init PROVE IInv
  OBVIOUS
<1>1. Null \in Int /\ MaxSkew \in Nat /\ 0 \in 0..MaxClaims
  BY ConstantsAssumption DEF Null
<1>2. /\ [q \in Questions |-> "none"] \in [Questions -> {"none", "pending", "closed"}]
      /\ [q \in Questions |-> "none"]
           \in [Questions -> {"none", "parked", "ready", "continued"}]
      /\ << >> \in Seq(Events)
  OBVIOUS
<1>3. EmptyRow \in Rows
  BY <1>1, <1>2 DEF EmptyRow, Rows, JobStatuses, RunStates
<1>4. ASSUME NEW j \in Jobs PROVE RowOK(EmptyRow, now)
  <2>1. LeaseOK(EmptyRow) /\ RunOK(EmptyRow)
    BY DEF LeaseOK, RunOK, EmptyRow, LeasedStatuses
  <2>2. StopOK(EmptyRow) /\ CutOK(EmptyRow) /\ ClockOK(EmptyRow, now)
    BY DEF StopOK, CutOK, ClockOK, EmptyRow
  <2>3. QED
    BY <1>3, <2>1, <2>2 DEF RowOK, UncutOK
<1>5. [worker |-> Web, pc |-> "none", aborted |-> FALSE] \in Runners
  BY DEF Runners, PCs
<1>6. QED
  BY <1>1, <1>3, <1>4, <1>5 DEF Init, IInv

\* Every step of the queue preserves the invariant.
LEMMA NextOK == IInv /\ [Next]_vars => IInv'
<1> SUFFICES ASSUME IInv, [Next]_vars PROVE IInv'
  OBVIOUS
<1>1. CASE UNCHANGED vars
  BY <1>1, MemoryOK DEF IInv, vars
<1>2. CASE Tick
  <2>1. /\ now' = now + 1 /\ now' \in Int /\ now <= now' /\ now \in Int
        /\ now' \in Nat /\ now' >= MaxSkew
    BY <1>2, ConstantsAssumption DEF Tick, IInv
  <2>2. ASSUME NEW j \in Jobs PROVE RowOK(row[j], now')
    BY <2>1, LaterOK DEF IInv
  <2>3. QED
    BY <1>2, <2>1, <2>2 DEF Tick, IInv
<1>3. ASSUME NEW j \in Jobs, NEW a \in Attempts, RunnerStep(j, a) PROVE IInv'
  BY <1>3, StartOK, FailStartOK, HeartbeatJobOK, AppendJobEventOK, ProgressOK,
     CompleteOK, FailJobOK, FinishOK, MemoryStepsOK, ParkOK, ContinueOK DEF RunnerStep
<1>4. ASSUME NEW j \in Jobs, MaintenanceStep(j) PROVE IInv'
  <2>1. ASSUME NEW w \in Workers, ScanQueue(w, j) PROVE IInv'
    BY <2>1, MemoryOK DEF ScanQueue, IInv
  <2>2. QED
    BY <1>4, <2>1, MaintainOK, WakeOK DEF MaintenanceStep
<1>5. QED
  BY <1>1, <1>2, <1>3, <1>4, WebStepOK, ClaimOK DEF Next

-----------------------------------------------------------------------------
(* Theorems.                                                                *)

\* The inductive invariant holds in every reachable state.
THEOREM Invariance == Spec => []IInv
BY InitOK, NextOK, PTL DEF Spec

\* Every reachable state has the types the database schema and the runner declare.
THEOREM TypeCorrect == Spec => []TypeOK
<1>1. IInv => TypeOK
  BY DEF IInv, TypeOK
<1>2. QED
  BY <1>1, Invariance, PTL

\* A claimed or running job, and no other, carries a lease and the newest token:
\* what claimNextJob sets, transitionTerminal, park, retry and recovery clear.
THEOREM LeaseAgrees == Spec => []LeaseMatchesStatus
<1>1. IInv => LeaseMatchesStatus
  BY DEF IInv, RowOK, UncutOK, LeaseOK, LeaseMatchesStatus, Null
<1>2. QED
  BY <1>1, Invariance, PTL

\* The run's state is always the one its job's status stands for.
THEOREM RunAgrees == Spec => []RunMatchesJob
<1>1. IInv => RunMatchesJob
  BY DEF IInv, RowOK, UncutOK, RunOK, RunMatchesJob
<1>2. QED
  BY <1>1, Invariance, PTL

\* A frozen stop cause decides the end of the job, and the draining lease stays
\* inside the frozen window, for any skew, lag, window and number of workers.
THEOREM StopDecides == Spec => []FirstStopDecides
<1>1. IInv => FirstStopDecides
  BY DEF IInv, RowOK, UncutOK, StopOK, CutOK, FirstStopDecides
<1>2. QED
  BY <1>1, Invariance, PTL
=============================================================================
