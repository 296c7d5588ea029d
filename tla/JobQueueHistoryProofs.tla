----------------------- MODULE JobQueueHistoryProofs ------------------------
(***************************************************************************)
(* What holds of the queue because a row is written only in the ways of    *)
(* JobQueueStepProofs: the log, the parked runs, the final stop, the       *)
(* leases, the budget, and the lifecycle the user is promised.             *)
(***************************************************************************)
EXTENDS JobQueueStepProofs, FiniteSetTheorems

-----------------------------------------------------------------------------
(* The inductive invariants that rest on it.                                *)

\* The log of a row: no event is newer than the attempt; a claim has no event yet;
\* a running attempt was neither retried nor recovered.
LogOK(d) ==
    LET e == d.events  n == Len(e) IN
    /\ \A i \in 1..n : e[i].attempt <= d.attempt
    /\ d.status = "claimed" => \A i \in 1..n : e[i].attempt < d.attempt
    /\ d.status = "running" =>
         \A i \in 1..n : e[i].type \in {"run.retrying", "lease.recovered"}
                           => e[i].attempt < d.attempt
    /\ \A i \in 1..n : e[i].type \in TerminalEventTypes =>
         i = n /\ d.status \in TerminalJobStatuses
    /\ d.status \in TerminalJobStatuses =>
         n > 0 /\ e[n].type = TerminalEventOf(d.status)
    /\ \A i, k \in 1..n :
         i < k =>
           /\ e[i].attempt <= e[k].attempt
           /\ e[k].type = "run.started" => e[i].attempt < e[k].attempt
           /\ e[k].type = "step" /\ e[i].type \in {"run.retrying", "lease.recovered"}
                => e[i].attempt < e[k].attempt

\* The waits of a row: one at most is open, a parked run holds one whose question
\* is pending, and only a clocked run has questions at all.
WaitOK(j, d) ==
    /\ \A p, q \in Questions :
         d.wait[p] \in {"parked", "ready"} /\ d.wait[q] \in {"parked", "ready"} => p = q
    /\ d.status = "waiting_approval" =>
         \E q \in Questions : d.wait[q] = "parked" /\ d.question[q] = "pending"
    /\ j \notin Clocked => \A q \in Questions : d.question[q] # "pending"

\* A row nobody enqueued yet: nothing logged, asked, parked or stopped.
FreshOK(d) ==
    d.status = "absent" =>
      /\ d.events = << >> /\ d.cancelAt = Null
      /\ \A q \in Questions : d.question[q] = "none" /\ d.wait[q] = "none"

QueueInv ==
    /\ IInv
    /\ \A j \in Jobs :
         /\ FreshOK(row[j]) /\ LogOK(row[j]) /\ WaitOK(j, row[j])
         /\ MeterOK(j, row[j], now)

-----------------------------------------------------------------------------
(* What each way of writing a row keeps.                                    *)

\* A row that nobody enqueued is written only by a refresh of what it has not got.
LEMMA FreshKept ==
    ASSUME NEW j, NEW d \in Rows, NEW e \in Rows, FreshOK(d), Written(j, d, e)
    PROVE  FreshOK(e)
<1>1. CASE Quiet(d, e)
  BY <1>1 DEF Quiet, FreshOK, Place, Talk
<1>2. CASE ~Quiet(d, e)
  <2>1. e.status # "absent"
    BY <1>2 DEF Written, Enqueued, Claimed, Started, Stepped, Parked, Continued, Woken,
       GivenBack, Promoted, Ended, Job, TerminalJobStatuses
  <2>2. QED
    BY <2>1 DEF FreshOK
<1>3. QED
  BY <1>1, <1>2

\* The log as it is stays in order when the row goes on to a later attempt, and
\* when it leaves the leased statuses.
LEMMA LogStands ==
    ASSUME NEW d \in Rows, NEW e \in Rows, LogOK(d), e.events = d.events,
           \/ e.status = d.status /\ e.attempt = d.attempt
           \/ /\ d.status \notin TerminalJobStatuses
              /\ e.status \notin {"running"} \cup TerminalJobStatuses
              /\ \/ e.status # "claimed" /\ e.attempt = d.attempt
                 \/ e.attempt = d.attempt + 1
    PROVE  LogOK(e)
<1> DEFINE log == d.events
           n == Len(log)
<1>1. /\ log \in Seq(Events) /\ n \in Nat
      /\ \A i \in 1..n : log[i] \in Events /\ log[i].attempt \in Int
      /\ d.attempt \in Int /\ e.attempt \in Int
  <2>1. log \in Seq(Events) /\ d.attempt \in Int /\ e.attempt \in Int
    BY ConstantsAssumption DEF Rows
  <2>2. \A i \in 1..n : log[i] \in Events
    BY <2>1
  <2>3. QED
    BY <2>1, <2>2, ConstantsAssumption DEF Events
<1>2. CASE e.status = d.status /\ e.attempt = d.attempt
  BY <1>2 DEF LogOK
<1>3. CASE /\ d.status \notin TerminalJobStatuses
           /\ e.status \notin {"running"} \cup TerminalJobStatuses
           /\ \/ e.status # "claimed" /\ e.attempt = d.attempt
              \/ e.attempt = d.attempt + 1
  <2>1. d.attempt <= e.attempt /\ (e.status = "claimed" => d.attempt < e.attempt)
    BY <1>1, <1>3
  <2>2. \A i \in 1..n : log[i].attempt <= d.attempt
    BY DEF LogOK
  <2>3. /\ \A i \in 1..n : log[i].attempt <= e.attempt
        /\ e.status = "claimed" => \A i \in 1..n : log[i].attempt < e.attempt
    BY <1>1, <2>1, <2>2
  <2>4. \A i \in 1..n : log[i].type \notin TerminalEventTypes
    BY <1>3 DEF LogOK
  <2>5. \A i, k \in 1..n :
          i < k =>
            /\ log[i].attempt <= log[k].attempt
            /\ log[k].type = "run.started" => log[i].attempt < log[k].attempt
            /\ log[k].type = "step" /\ log[i].type \in {"run.retrying", "lease.recovered"}
                 => log[i].attempt < log[k].attempt
    BY DEF LogOK
  <2>6. e.status # "running" /\ e.status \notin TerminalJobStatuses /\ e.events = log
    BY <1>3
  <2> HIDE DEF log, n
  <2>7. QED
    BY <2>3, <2>4, <2>5, <2>6 DEF LogOK, n
<1>4. QED
  BY <1>2, <1>3

\* One more event of the row's attempt keeps the log in order: a start is the first
\* event of its attempt, a step comes before the attempt is given back, and an end
\* is the last word.
LEMMA LogGrows ==
    ASSUME NEW d \in Rows, NEW e \in Rows, LogOK(d), e.attempt = d.attempt,
           d.status \notin TerminalJobStatuses, e.status # "claimed",
           NEW type, e.events = Logged(d, type),
           type = "run.started" => d.status = "claimed",
           type = "step" => d.status = "running",
           e.status = "running" => /\ d.status \in LeasedStatuses
                                   /\ type \notin {"run.retrying", "lease.recovered"},
           IF e.status \in TerminalJobStatuses THEN type = TerminalEventOf(e.status)
                                               ELSE type \notin TerminalEventTypes
    PROVE  LogOK(e)
<1> DEFINE log == d.events
           n == Len(log)
           a == d.attempt
           x == [type |-> type, attempt |-> a]
           new == Append(log, x)
<1>1. /\ log \in Seq(Events) /\ n \in Nat /\ a \in Int
      /\ \A i \in 1..n : log[i] \in Events /\ log[i].attempt \in Int
  <2>1. log \in Seq(Events) /\ a \in Int
    BY ConstantsAssumption DEF Rows
  <2>2. \A i \in 1..n : log[i] \in Events
    BY <2>1
  <2>3. QED
    BY <2>1, <2>2, ConstantsAssumption DEF Events
<1>2. /\ \A i \in 1..n : log[i].attempt <= a
      /\ type = "run.started" => \A i \in 1..n : log[i].attempt < a
      /\ type = "step" \/ e.status = "running" =>
           \A i \in 1..n : log[i].type \in {"run.retrying", "lease.recovered"}
                             => log[i].attempt < a
      /\ \A i \in 1..n : log[i].type \notin TerminalEventTypes
  BY DEF LogOK, LeasedStatuses
<1>3. \A i, k \in 1..n :
        i < k =>
          /\ log[i].attempt <= log[k].attempt
          /\ log[k].type = "run.started" => log[i].attempt < log[k].attempt
          /\ log[k].type = "step" /\ log[i].type \in {"run.retrying", "lease.recovered"}
               => log[i].attempt < log[k].attempt
  BY DEF LogOK
<1>4. e.events = new
  BY DEF Logged
<1>5. x.type = type /\ x.attempt = a
  OBVIOUS
<1> HIDE DEF x
<1>6. /\ Len(new) = n + 1 /\ new[n + 1] = x
      /\ \A i \in 1..n : new[i] = log[i]
  BY <1>1
<1>7. \A i \in 1..(n + 1) : i \in 1..n \/ i = n + 1
  BY <1>1
<1> HIDE DEF log, n, a, new
<1>8. /\ \A i \in 1..(n + 1) : new[i].attempt <= a
      /\ e.status = "running" =>
           \A i \in 1..(n + 1) : new[i].type \in {"run.retrying", "lease.recovered"}
                             => new[i].attempt < a
      /\ \A i \in 1..(n + 1) : new[i].type \in TerminalEventTypes =>
           i = n + 1 /\ e.status \in TerminalJobStatuses
      /\ e.status \in TerminalJobStatuses =>
           n + 1 > 0 /\ new[n + 1].type = TerminalEventOf(e.status)
  BY <1>1, <1>2, <1>5, <1>6, <1>7
<1>9. ASSUME NEW i \in 1..(n + 1), NEW k \in 1..(n + 1), i < k
      PROVE  /\ new[i].attempt <= new[k].attempt
             /\ new[k].type = "run.started" => new[i].attempt < new[k].attempt
             /\ new[k].type = "step" /\ new[i].type \in {"run.retrying", "lease.recovered"}
                  => new[i].attempt < new[k].attempt
  <2>1. i \in 1..n /\ new[i] = log[i]
    BY <1>1, <1>6, <1>9
  <2>2. CASE k \in 1..n
    BY <1>3, <1>6, <1>9, <2>1, <2>2
  <2>3. CASE k = n + 1
    BY <1>2, <1>5, <1>6, <2>1, <2>3
  <2>4. QED
    BY <1>7, <2>2, <2>3
<1>10. e.attempt = a
  BY DEF a
<1>11. QED
  BY <1>4, <1>6, <1>8, <1>9, <1>10 DEF LogOK

\* The log stays in order, however a row is written.
LEMMA LogKept ==
    ASSUME NEW j, NEW d \in Rows, NEW e \in Rows, FreshOK(d), LogOK(d), Written(j, d, e)
    PROVE  LogOK(e)
<1>1. CASE Quiet(d, e) \/ Continued(d, e)
  <2>1. e.events = d.events /\ e.status = d.status /\ e.attempt = d.attempt
    BY <1>1 DEF Quiet, Continued, Place, Job
  <2>2. QED
    BY <2>1, LogStands
<1>2. CASE Claimed(d, e) \/ Parked(d, e) \/ Woken(d, e) \/ Promoted(d, e)
  <2>1. /\ e.events = d.events
        /\ d.status \notin TerminalJobStatuses
        /\ e.status \notin {"running"} \cup TerminalJobStatuses
        /\ \/ e.status # "claimed" /\ e.attempt = d.attempt
           \/ e.attempt = d.attempt + 1
    BY <1>2 DEF Claimed, Parked, Woken, Promoted, TerminalJobStatuses
  <2>2. QED
    BY <2>1, LogStands
<1>3. ASSUME NEW type, e.events = Logged(d, type), e.attempt = d.attempt,
             d.status \notin TerminalJobStatuses, e.status # "claimed",
             type = "run.started" => d.status = "claimed",
             type = "step" => d.status = "running",
             e.status = "running" => /\ d.status \in LeasedStatuses
                                     /\ type \notin {"run.retrying", "lease.recovered"},
             IF e.status \in TerminalJobStatuses THEN type = TerminalEventOf(e.status)
                                                 ELSE type \notin TerminalEventTypes
      PROVE  LogOK(e)
  BY <1>3, LogGrows
<1>4. CASE Enqueued(j, d, e)
  <2>1. /\ e.events = Logged(d, "run.created") /\ e.attempt = d.attempt
        /\ d.status = "absent" /\ e.status = "queued"
    BY <1>4 DEF Enqueued
  <2>2. QED
    BY <1>3, <2>1 DEF TerminalJobStatuses, TerminalEventTypes
<1>5. CASE Started(d, e)
  <2>1. /\ e.events = Logged(d, "run.started") /\ e.attempt = d.attempt
        /\ d.status = "claimed" /\ e.status = "running"
    BY <1>5 DEF Started
  <2>2. QED
    BY <1>3, <2>1 DEF TerminalJobStatuses, TerminalEventTypes, LeasedStatuses
<1>6. CASE Stepped(j, d, e)
  <2>1. /\ e.events = Logged(d, "step") /\ e.attempt = d.attempt
        /\ d.status = "running" /\ e.status = "running"
    BY <1>6 DEF Stepped, Job
  <2>2. QED
    BY <1>3, <2>1 DEF TerminalJobStatuses, TerminalEventTypes, LeasedStatuses
<1>7. CASE GivenBack(d, e)
  <2>1. /\ \/ e.events = Logged(d, "run.retrying")
           \/ e.events = Logged(d, "lease.recovered")
        /\ e.attempt = d.attempt /\ d.status \in LeasedStatuses
        /\ e.status \in {"queued", "retry_wait"}
    BY <1>7 DEF GivenBack
  <2>2. QED
    BY <1>3, <2>1 DEF TerminalJobStatuses, TerminalEventTypes, LeasedStatuses
<1>8. CASE Ended(d, e)
  <2>1. /\ e.events = Logged(d, TerminalEventOf(e.status)) /\ e.attempt = d.attempt
        /\ d.status \in LiveJobStatuses /\ e.status \in TerminalJobStatuses
    BY <1>8 DEF Ended
  <2>2. TerminalEventOf(e.status) \in TerminalEventTypes
    BY DEF TerminalEventOf, TerminalEventTypes
  <2>3. QED
    BY <1>3, <2>1, <2>2 DEF TerminalJobStatuses, TerminalEventTypes, LiveJobStatuses,
       LeasedStatuses
<1>9. QED
  BY <1>1, <1>2, <1>4, <1>5, <1>6, <1>7, <1>8 DEF Written

\* The waits stay in order, however a row is written.
LEMMA WaitKept ==
    ASSUME NEW j, NEW d \in Rows, NEW e \in Rows, FreshOK(d), WaitOK(j, d), Written(j, d, e)
    PROVE  WaitOK(j, e)
<1>1. CASE Quiet(d, e)
  BY <1>1 DEF Quiet, WaitOK, Place, Talk
<1>2. CASE Enqueued(j, d, e) \/ Claimed(d, e) \/ GivenBack(d, e) \/ Promoted(d, e)
  <2>1. e.question = d.question /\ e.wait = d.wait /\ e.status # "waiting_approval"
    BY <1>2 DEF Enqueued, Claimed, GivenBack, Promoted, Talk
  <2>2. QED
    BY <2>1 DEF WaitOK
<1>3. CASE Started(d, e) \/ Stepped(j, d, e) \/ Ended(d, e)
  <2>1. /\ e.wait = d.wait /\ e.status # "waiting_approval"
        /\ j \in Clocked \/ (\A q \in Questions : e.question[q] = "pending"
                                                    => d.question[q] = "pending")
    BY <1>3 DEF Started, Stepped, Ended, Job, ClosePending, TerminalJobStatuses
  <2>2. QED
    BY <2>1 DEF WaitOK
<1>4. CASE Parked(d, e)
  <2>1. PICK q \in Questions :
          d.question[q] = "pending" /\ e.wait = [d.wait EXCEPT ![q] = "parked"]
    BY <1>4 DEF Parked
  <2>2. e.question = d.question /\ \A p \in Questions : d.wait[p] \in {"none", "continued"}
    BY <1>4 DEF Parked
  <2>3. \A p \in Questions : e.wait[p] = IF p = q THEN "parked" ELSE d.wait[p]
    BY <2>1 DEF Rows
  <2>4. QED
    BY <2>1, <2>2, <2>3 DEF WaitOK
<1>5. CASE Continued(d, e)
  <2>1. PICK q \in Questions : /\ e.question = [d.question EXCEPT ![q] = "closed"]
                               /\ e.wait = [d.wait EXCEPT ![q] = "continued"]
    BY <1>5 DEF Continued
  <2>2. \A p \in Questions : /\ e.wait[p] = IF p = q THEN "continued" ELSE d.wait[p]
                             /\ e.question[p] = IF p = q THEN "closed" ELSE d.question[p]
    BY <2>1 DEF Rows
  <2>3. e.status # "waiting_approval"
    BY <1>5 DEF Continued, Job
  <2>4. QED
    BY <2>2, <2>3 DEF WaitOK
<1>6. CASE Woken(d, e)
  <2>1. PICK q \in Questions :
          d.wait[q] = "parked" /\ e.wait = [d.wait EXCEPT ![q] = "ready"]
    BY <1>6 DEF Woken
  <2>2. \A p \in Questions : e.wait[p] = IF p = q THEN "ready" ELSE d.wait[p]
    BY <2>1 DEF Rows
  <2>3. e.status # "waiting_approval" /\ e.question = d.question
    BY <1>6 DEF Woken
  <2>4. \A p \in Questions : e.wait[p] \in {"parked", "ready"}
                               => d.wait[p] \in {"parked", "ready"}
    BY <2>1, <2>2
  <2>5. QED
    BY <2>3, <2>4 DEF WaitOK
<1>7. QED
  BY <1>1, <1>2, <1>3, <1>4, <1>5, <1>6 DEF Written

\* The clock's deadline stays in order, however a row is written.
LEMMA MeterKept ==
    ASSUME NEW j, NEW d \in Rows, NEW e \in Rows, NEW u, NEW t,
           MeterOK(j, d, u), RowStep(j, d, u, e, t)
    PROVE  MeterOK(j, e, t)
<1>1. CASE d.status # "absent"
  BY <1>1 DEF RowStep, ClockStep, MeterOK
<1>2. CASE Enqueued(j, d, e)
  <2>1. j \in Clocked => e.timeoutAt = Never /\ e.left = Budget
    BY <1>2 DEF Enqueued
  <2>2. QED
    BY <2>1 DEF MeterOK
<1>3. CASE d.status = "absent" /\ ~Enqueued(j, d, e)
  <2>1. e.status = "absent"
    BY <1>3 DEF RowStep, Written, Quiet, Claimed, Started, Stepped, Parked, Continued,
       Woken, GivenBack, Promoted, Ended, Place, LeasedStatuses, LiveJobStatuses
  <2>2. QED
    BY <2>1 DEF MeterOK
<1>4. QED
  BY <1>1, <1>2, <1>3

-----------------------------------------------------------------------------
(* The invariant and what it implies.                                       *)

\* An empty table is in order.
LEMMA QueueInvInit == Init => QueueInv
<1> SUFFICES ASSUME Init, NEW j \in Jobs
             PROVE  /\ FreshOK(row[j]) /\ LogOK(row[j]) /\ WaitOK(j, row[j])
                    /\ MeterOK(j, row[j], now)
  BY InitOK DEF QueueInv
<1>1. row[j] = EmptyRow
  BY DEF Init
<1>2. FreshOK(EmptyRow)
  BY DEF FreshOK, EmptyRow
<1>3. LogOK(EmptyRow)
  BY DEF LogOK, EmptyRow, TerminalJobStatuses
<1>4. WaitOK(j, EmptyRow)
  BY DEF WaitOK, EmptyRow
<1>5. MeterOK(j, EmptyRow, now)
  BY DEF MeterOK, EmptyRow
<1>6. QED
  BY <1>1, <1>2, <1>3, <1>4, <1>5

\* Every step keeps it, and writes rows in the known ways.
LEMMA QueueInvNext == QueueInv /\ [Next]_vars => QueueInv' /\ RowSteps
<1> SUFFICES ASSUME QueueInv, [Next]_vars PROVE QueueInv' /\ RowSteps
  OBVIOUS
<1>1. IInv /\ IInv' /\ RowSteps
  BY NextOK, NextSteps DEF QueueInv
<1>2. ASSUME NEW j \in Jobs
      PROVE  (FreshOK(row[j]) /\ LogOK(row[j]) /\ WaitOK(j, row[j])
                /\ MeterOK(j, row[j], now))'
  <2> DEFINE d == row[j]
             e == row'[j]
             u == now
             t == now'
  <2>1. d \in Rows /\ e \in Rows
    BY <1>1 DEF IInv
  <2>2. RowStep(j, d, u, e, t)
    BY <1>1 DEF RowSteps
  <2>3. FreshOK(d) /\ LogOK(d) /\ WaitOK(j, d) /\ MeterOK(j, d, u)
    BY DEF QueueInv
  <2> HIDE DEF d, e, u, t
  <2>4. Written(j, d, e)
    BY <2>2 DEF RowStep
  <2>5. FreshOK(e) /\ LogOK(e) /\ WaitOK(j, e)
    BY <2>1, <2>3, <2>4, FreshKept, LogKept, WaitKept
  <2>6. MeterOK(j, e, t)
    BY <2>1, <2>2, <2>3, MeterKept
  <2>7. QED
    BY <2>5, <2>6 DEF e, t
<1>3. QED
  BY <1>1, <1>2 DEF QueueInv

\* Log, waits and clock of every row stay in order in every behaviour of the queue.
THEOREM QueueInvariance == Spec => []QueueInv
<1>1. QueueInv /\ UNCHANGED vars => QueueInv'
  BY QueueInvNext
<1>2. QED
  BY <1>1, QueueInvInit, QueueInvNext, PTL DEF Spec

\* No runner, late or not, writes after the end of its run: the terminal event is
\* the last one, appears exactly when the job is over, and carries its outcome
\* (appendEvent, transitionTerminal).
THEOREM EndIsLast == Spec => []NothingAfterTheEnd
<1>1. QueueInv => NothingAfterTheEnd
  <2> SUFFICES ASSUME QueueInv, NEW j \in Jobs
               PROVE  LET d == row[j]  n == Len(d.events) IN
                      /\ \A i \in 1..n : d.events[i].type \in TerminalEventTypes => i = n
                      /\ IF d.status \in TerminalJobStatuses
                         THEN n > 0 /\ d.events[n].type = TerminalEventOf(d.status)
                         ELSE n > 0 => d.events[n].type \notin TerminalEventTypes
    BY DEF NothingAfterTheEnd
  <2> DEFINE d == row[j]
             n == Len(d.events)
  <2>1. LogOK(d) /\ d \in Rows
    BY DEF QueueInv, IInv
  <2>2. n \in Nat
    BY <2>1 DEF Rows
  <2> HIDE DEF d
  <2>3. QED
    BY <2>1, <2>2 DEF LogOK, d
<1>2. QED
  BY <1>1, QueueInvariance, PTL

\* Whatever an overtaken runner still tries, the log is fenced by attempt: what an
\* attempt wrote is never mixed with a later one's, and never follows its own
\* retry or recovery (lockedLeasedJob, assertLockedLeaseCurrent).
THEOREM LogIsFenced == Spec => []LogFencedByAttempt
<1>1. QueueInv => LogFencedByAttempt
  <2> SUFFICES ASSUME QueueInv, NEW j \in Jobs
               PROVE  LET e == row[j].events IN
                      \A i, k \in 1..Len(e) :
                        i < k =>
                          /\ e[i].attempt <= e[k].attempt
                          /\ e[k].type = "run.started" => e[i].attempt < e[k].attempt
                          /\ e[k].type = "step"
                               /\ e[i].type \in {"run.retrying", "lease.recovered"}
                               => e[i].attempt < e[k].attempt
    BY DEF LogFencedByAttempt
  <2>1. LogOK(row[j])
    BY DEF QueueInv
  <2>2. QED
    BY <2>1 DEF LogOK
<1>2. QED
  BY <1>1, QueueInvariance, PTL

\* A parked run can be taken up again, from one place only, and its budget does
\* not run out while its user thinks (parkNativeQuestionInTransaction,
\* refreshTaskClock).
THEOREM ParkedStaysAnswerable == Spec => []ParkedIsAnswerable
<1>1. QueueInv => ParkedIsAnswerable
  <2> SUFFICES ASSUME QueueInv, NEW j \in Jobs
               PROVE  LET d == row[j]
                          open == {q \in Questions : d.wait[q] \in {"parked", "ready"}} IN
                      /\ Cardinality(open) <= 1
                      /\ d.status = "waiting_approval" =>
                           /\ \E q \in Questions :
                                d.wait[q] = "parked" /\ d.question[q] = "pending"
                           /\ d.left > 0 => d.timeoutAt = Never
    BY DEF ParkedIsAnswerable
  <2> DEFINE d == row[j]
             open == {q \in Questions : d.wait[q] \in {"parked", "ready"}}
  <2>1. WaitOK(j, d) /\ MeterOK(j, d, now) /\ d \in Rows /\ RowOK(d, now)
    BY DEF QueueInv, IInv
  <2> HIDE DEF d
  <2>2. Cardinality(open) <= 1
    <3>1. \A p, q \in open : p = q
      BY <2>1 DEF WaitOK
    <3>2. CASE open = {}
      BY <3>2, FS_EmptySet
    <3>3. CASE open # {}
      <4>1. PICK q : open = {q}
        BY <3>1, <3>3
      <4>2. QED
        BY <4>1, FS_Singleton
    <3>4. QED
      BY <3>2, <3>3
  <2>3. ASSUME d.status = "waiting_approval"
        PROVE  /\ \E q \in Questions : d.wait[q] = "parked" /\ d.question[q] = "pending"
               /\ d.left > 0 => d.timeoutAt = Never
    <3>1. PICK q \in Questions : d.wait[q] = "parked" /\ d.question[q] = "pending"
      BY <2>1, <2>3 DEF WaitOK
    <3>2. j \in Clocked
      BY <2>1, <3>1 DEF WaitOK
    <3>3. d.run = "waiting_approval"
      BY <2>1, <2>3 DEF RowOK, UncutOK, RunOK
    <3>4. TaskClockPhase(d) = "waiting"
      BY <3>1, <3>3 DEF TaskClockPhase, TerminalRunStates
    <3>5. d.left > 0 => d.timeoutAt = Never
      BY <2>1, <2>3, <3>2, <3>4, ConstantsAssumption DEF MeterOK
    <3>6. QED
      BY <3>1, <3>5
  <2>4. QED
    BY <2>2, <2>3 DEF d
<1>2. QED
  BY <1>1, QueueInvariance, PTL

-----------------------------------------------------------------------------
(* What a step may never do.                                                *)

\* A row of a step: typed, in order before, and written in a known way.
LEMMA StepOfRow ==
    ASSUME QueueInv, [Next]_vars, NEW j \in Jobs
    PROVE  /\ row[j] \in Rows /\ row'[j] \in Rows
           /\ RowOK(row[j], now) /\ RowOK(row'[j], now')
           /\ FreshOK(row[j]) /\ RowStep(j, row[j], now, row'[j], now')
<1>1. IInv /\ IInv' /\ RowSteps
  BY NextOK, NextSteps DEF QueueInv
<1>2. QED
  BY <1>1 DEF QueueInv, IInv, RowSteps

\* An expired lease is never revived: a renewal commits inside the lease it renews
\* (assertLockedLeaseCurrent).
THEOREM NoLeaseRevived == Spec => LeaseNeverRevived
<1>1. QueueInv /\ [Next]_vars =>
        [\A j \in Jobs :
           /\ row[j].token # Null /\ row'[j].token = row[j].token
           /\ row'[j].lease > row[j].lease
           => now' < row[j].lease]_vars
  BY StepOfRow DEF RowStep, LeaseStep
<1>2. QED
  BY <1>1, QueueInvariance, PTL DEF Spec, LeaseNeverRevived

\* Nothing takes a requested stop back: no retry, recovery, promotion, claim or
\* success follows it (queueStopCause before every outcome).
THEOREM StopStays == Spec => StopIsFinal
<1>1. ASSUME QueueInv, [Next]_vars, NEW j \in Jobs, row[j].cancelAt # Null
      PROVE  \/ row'[j].status = row[j].status
             \/ row'[j].status \in {"canceled", "failed"}
             \/ row[j].status = "waiting_approval" /\ row'[j].status = "queued"
  <2> DEFINE d == row[j]
             e == row'[j]
  <2>1. FreshOK(d) /\ Written(j, d, e) /\ d.cancelAt # Null
    BY <1>1, StepOfRow DEF RowStep
  <2> HIDE DEF d, e
  <2>2. CASE Quiet(d, e) \/ Stepped(j, d, e) \/ Continued(d, e)
    BY <2>2 DEF Quiet, Stepped, Continued, Place, Job, d, e
  <2>3. CASE Ended(d, e)
    <3>1. e.cancelAt # Null /\ e.status \in TerminalJobStatuses
      BY <2>1, <2>3 DEF Ended, StopGrows
    <3>2. e.status \in {"canceled", "failed"}
      BY <2>3, <3>1 DEF Ended, TerminalJobStatuses
    <3>3. QED
      BY <3>2 DEF e
  <2>4. CASE Woken(d, e)
    BY <2>4 DEF Woken, d, e
  <2>5. QED
    BY <2>1, <2>2, <2>3, <2>4 DEF Written, FreshOK, Enqueued, Claimed, Started, Parked,
       GivenBack, Promoted
<1>2. QueueInv /\ [Next]_vars =>
        [\A j \in Jobs :
           row[j].cancelAt # Null =>
             \/ row'[j].status = row[j].status
             \/ row'[j].status \in {"canceled", "failed"}
             \/ row[j].status = "waiting_approval" /\ row'[j].status = "queued"]_vars
  BY <1>1
<1>3. QED
  BY <1>2, QueueInvariance, PTL DEF Spec, StopIsFinal

\* What is frozen stays frozen: the drain, the first request, the root's cut, and
\* all of a job that is over but its revocation mark.
THEOREM FrozenIsKept == Spec => FrozenStays
<1>1. ASSUME QueueInv, [Next]_vars, NEW j \in Jobs
      PROVE  LET d == row[j]  e == row'[j] IN
             /\ d.drain # "none" => e.drain = d.drain /\ e.drainDeadline = d.drainDeadline
             /\ d.cancelAt # Null => e.cancelAt = d.cancelAt
             /\ d.root # "open" => e.root = d.root
             /\ d.status \in TerminalJobStatuses =>
                  e = [d EXCEPT !.cancelAt = e.cancelAt, !.root = e.root]
  <2> DEFINE d == row[j]
             e == row'[j]
  <2>1. Written(j, d, e) /\ OverStep(d, e)
    BY <1>1, StepOfRow DEF RowStep
  <2> HIDE DEF d, e
  <2>2. Stop(e) = Stop(d) => StopGrows(d, e)
    BY DEF Stop, StopGrows
  <2>3. StopGrows(d, e)
    BY <2>1, <2>2 DEF Written, Quiet, Enqueued, Claimed, Started, Stepped, Parked,
       Continued, Woken, GivenBack, Promoted, Ended
  <2>4. QED
    BY <2>1, <2>3 DEF OverStep, StopGrows, d, e
<1>2. QueueInv /\ [Next]_vars =>
        [\A j \in Jobs :
           LET d == row[j]  e == row'[j] IN
           /\ d.drain # "none" => e.drain = d.drain /\ e.drainDeadline = d.drainDeadline
           /\ d.cancelAt # Null => e.cancelAt = d.cancelAt
           /\ d.root # "open" => e.root = d.root
           /\ d.status \in TerminalJobStatuses =>
                e = [d EXCEPT !.cancelAt = e.cancelAt, !.root = e.root]]_vars
  BY <1>1
<1>3. QED
  BY <1>2, QueueInvariance, PTL DEF Spec, FrozenStays

\* The task clock charges active time, all of it and nothing else, whatever
\* transaction moves the run (refreshTaskClock before the phase changes).
THEOREM BudgetIsActiveTime == Spec => OnlyActiveTimeIsCharged
<1>1. ASSUME QueueInv, [Next]_vars, NEW j \in Clocked
      PROVE  LET d == row[j]  e == row'[j] IN
             Budget > 0 /\ d.status # "absent" /\ e.status \notin TerminalJobStatuses =>
               LeftAt(e, now') = LeftAt(d, now)
                  - (IF TaskClockPhase(d) = "active" THEN now' - now ELSE 0)
  <2> DEFINE d == row[j]
             e == row'[j]
             u == now
             t == now'
  <2>1. j \in Jobs
    BY ConstantsAssumption
  <2>2. ClockStep(j, d, u, e, t) /\ RunOK(e) /\ e \in Rows
    BY <1>1, <2>1, StepOfRow DEF RowStep, RowOK, UncutOK
  <2> HIDE DEF d, e, u, t
  <2>3. e.status \notin TerminalJobStatuses => TaskClockPhase(e) # "terminal"
    <3>1. e.status \notin TerminalJobStatuses => e.run \notin TerminalRunStates
      BY <2>2 DEF RunOK, TerminalJobStatuses, TerminalRunStates
    <3>2. QED
      BY <3>1 DEF TaskClockPhase
  <2>4. Budget > 0 /\ d.status # "absent" /\ e.status \notin TerminalJobStatuses =>
          LeftAt(e, t) = LeftAt(d, u)
            - (IF TaskClockPhase(d) = "active" THEN t - u ELSE 0)
    BY <2>2, <2>3 DEF ClockStep, Charged
  <2>5. QED
    BY <2>4 DEF d, e, u, t
<1>2. QueueInv /\ [Next]_vars =>
        [\A j \in Clocked :
           LET d == row[j]  e == row'[j] IN
           Budget > 0 /\ d.status # "absent" /\ e.status \notin TerminalJobStatuses =>
             LeftAt(e, now') = LeftAt(d, now)
                - (IF TaskClockPhase(d) = "active" THEN now' - now ELSE 0)]_vars
  BY <1>1
<1>3. QED
  BY <1>2, QueueInvariance, PTL DEF Spec, OnlyActiveTimeIsCharged

-----------------------------------------------------------------------------
(* The queue implements the lifecycle, step by step.                        *)

\* The verdict appears with the end of the job, and is its outcome.
LEMMA VerdictOf ==
    ASSUME NEW d \in Rows, LogOK(d)
    PROVE  Verdict(d) = IF d.status \in TerminalJobStatuses THEN RunStateOf(d.status)
                                                            ELSE "none"
<1> DEFINE log == d.events
           n == Len(log)
<1>1. log \in Seq(Events) /\ n \in Nat
  BY DEF Rows
<1>2. CASE log = << >>
  <2>1. d.status \notin TerminalJobStatuses
    BY <1>2 DEF LogOK
  <2>2. QED
    BY <1>2, <2>1 DEF Verdict
<1>3. CASE log # << >>
  <2>1. n \in 1..n
    BY <1>1, <1>3
  <2>2. CASE d.status \in TerminalJobStatuses
    <3>1. log[n].type = TerminalEventOf(d.status)
      BY <2>2 DEF LogOK
    <3>2. Verdict(d) = CASE log[n].type = "run.succeeded" -> "succeeded"
                         [] log[n].type = "run.failed"    -> "failed"
                         [] log[n].type = "run.canceled"  -> "canceled"
                         [] OTHER                         -> "none"
      BY <1>3 DEF Verdict
    <3> HIDE DEF log, n
    <3>3. QED
      BY <2>2, <3>1, <3>2 DEF TerminalEventOf, RunStateOf, TerminalJobStatuses
  <2>3. CASE d.status \notin TerminalJobStatuses
    <3>1. log[n].type \notin TerminalEventTypes
      BY <2>1, <2>3 DEF LogOK
    <3>2. Verdict(d) = CASE log[n].type = "run.succeeded" -> "succeeded"
                         [] log[n].type = "run.failed"    -> "failed"
                         [] log[n].type = "run.canceled"  -> "canceled"
                         [] OTHER                         -> "none"
      BY <1>3 DEF Verdict
    <3> HIDE DEF log, n
    <3>3. QED
      BY <2>3, <3>1, <3>2 DEF TerminalEventTypes
  <2>4. QED
    BY <2>2, <2>3
<1>4. QED
  BY <1>2, <1>3

\* What the user sees of a row.
Seen(d) == <<d.run, d.cancelAt # Null, Verdict(d)>>

\* A row whose user sees something new took one of the lifecycle's steps.
SeenStep(d, e) ==
    LET Moves(from, to) == /\ d.run = from /\ e.run = to
                           /\ (e.cancelAt # Null) = (d.cancelAt # Null)
                           /\ Verdict(e) = Verdict(d) IN
    \/ Seen(e) = Seen(d)
    \/ Moves("absent", "queued")
    \/ d.cancelAt = Null /\ Moves("queued", "running")
    \/ d.cancelAt = Null /\ Moves("running", "queued")
    \/ d.cancelAt = Null /\ Moves("running", "waiting_approval")
    \/ Moves("waiting_approval", "queued")
    \/ /\ d.run # "absent" /\ e.cancelAt # Null
       /\ e.run = d.run /\ Verdict(e) = Verdict(d)
    \/ \E outcome \in {"succeeded", "failed", "canceled"} :
         /\ d.run \in {"queued", "running", "waiting_approval"}
         /\ outcome = "succeeded" => d.run = "running" /\ d.cancelAt = Null
         /\ d.cancelAt # Null => e.cancelAt # Null
         /\ outcome = "canceled" => e.cancelAt # Null
         /\ outcome = "succeeded" => e.cancelAt = Null
         /\ e.run = outcome /\ Verdict(e) = outcome

\* However a row is written, its user sees a step of the lifecycle, or nothing.
LEMMA RowLifecycle ==
    ASSUME NEW j, NEW d \in Rows, NEW e \in Rows, RunOK(d), RunOK(e),
           LogOK(d), LogOK(e), FreshOK(d), Written(j, d, e)
    PROVE  SeenStep(d, e)
<1>1. /\ Verdict(d) = IF d.status \in TerminalJobStatuses THEN RunStateOf(d.status)
                                                          ELSE "none"
      /\ Verdict(e) = IF e.status \in TerminalJobStatuses THEN RunStateOf(e.status)
                                                          ELSE "none"
  BY VerdictOf
<1>2. CASE Quiet(d, e)
  <2>1. e.status = d.status /\ e.run = d.run /\ Verdict(e) = Verdict(d)
    BY <1>1, <1>2 DEF Quiet, Place
  <2>2. CASE e.cancelAt = d.cancelAt
    BY <2>1, <2>2 DEF SeenStep, Seen
  <2>3. CASE e.cancelAt # d.cancelAt
    <3>1. d.status # "absent" /\ e.cancelAt # Null
      BY <1>2, <2>3 DEF Quiet, StopGrows
    <3>2. d.run # "absent"
      BY <3>1 DEF RunOK
    <3>3. QED
      BY <2>1, <3>1, <3>2 DEF SeenStep
  <2>4. QED
    BY <2>2, <2>3
<1>3. CASE Claimed(d, e) \/ Stepped(j, d, e) \/ Continued(d, e) \/ Promoted(d, e)
  <2>1. e.run = d.run /\ e.cancelAt = d.cancelAt
    BY <1>3 DEF Claimed, Stepped, Continued, Promoted, Job, Stop
  <2>2. d.status \notin TerminalJobStatuses /\ e.status \notin TerminalJobStatuses
    BY <1>3 DEF Claimed, Stepped, Continued, Promoted, Job, TerminalJobStatuses
  <2>3. QED
    BY <1>1, <2>1, <2>2 DEF SeenStep, Seen
<1>4. CASE \/ Enqueued(j, d, e) \/ Started(d, e) \/ Parked(d, e) \/ Woken(d, e)
           \/ GivenBack(d, e)
  <2>1. d.status \notin TerminalJobStatuses /\ e.status \notin TerminalJobStatuses
    BY <1>4 DEF Enqueued, Started, Parked, Woken, GivenBack, LeasedStatuses,
       TerminalJobStatuses
  <2>2. Verdict(e) = Verdict(d)
    BY <1>1, <2>1
  <2>3. e.cancelAt = d.cancelAt
    BY <1>4 DEF Enqueued, Started, Parked, Woken, GivenBack, Stop
  <2>4. CASE Enqueued(j, d, e)
    BY <2>2, <2>3, <2>4 DEF Enqueued, RunOK, SeenStep
  <2>5. CASE Started(d, e)
    BY <2>2, <2>3, <2>5 DEF Started, RunOK, SeenStep
  <2>6. CASE Parked(d, e)
    BY <2>2, <2>3, <2>6 DEF Parked, RunOK, SeenStep
  <2>7. CASE Woken(d, e)
    BY <2>2, <2>3, <2>7 DEF Woken, RunOK, SeenStep
  <2>8. CASE GivenBack(d, e)
    <3>1. d.run \in {"queued", "running"} /\ e.run = "queued" /\ d.cancelAt = Null
      BY <2>8 DEF GivenBack, RunOK, LeasedStatuses
    <3>2. QED
      BY <2>2, <2>3, <3>1 DEF SeenStep, Seen
  <2>9. QED
    BY <1>4, <2>4, <2>5, <2>6, <2>7, <2>8
<1>5. CASE Ended(d, e)
  <2> DEFINE outcome == RunStateOf(e.status)
  <2>1. e.status \in TerminalJobStatuses /\ d.status \in LiveJobStatuses
    BY <1>5 DEF Ended
  <2>2. /\ outcome \in {"succeeded", "failed", "canceled"}
        /\ outcome = "succeeded" <=> e.status = "succeeded"
        /\ outcome = "canceled" <=> e.status = "canceled"
    BY <2>1 DEF RunStateOf, TerminalJobStatuses
  <2>3. e.run = outcome /\ Verdict(e) = outcome
    BY <1>1, <1>5, <2>1 DEF Ended
  <2> HIDE DEF outcome
  <2>4. d.run \in {"queued", "running", "waiting_approval"}
    BY <2>1 DEF RunOK, LiveJobStatuses, LeasedStatuses
  <2>5. d.cancelAt # Null => e.cancelAt # Null
    BY <1>5 DEF Ended, StopGrows
  <2>6. /\ outcome = "succeeded" => e.cancelAt = Null /\ d.status = "running"
        /\ outcome = "canceled" => e.cancelAt # Null
    BY <1>5, <2>2 DEF Ended
  <2>7. outcome = "succeeded" => d.run = "running" /\ d.cancelAt = Null
    BY <2>5, <2>6 DEF RunOK
  <2>8. QED
    BY <2>2, <2>3, <2>4, <2>5, <2>6, <2>7 DEF SeenStep
<1>6. QED
  BY <1>2, <1>3, <1>4, <1>5 DEF Written

\* What the mapped functions become when one row is written.
LEMMA OneRowSeen ==
    ASSUME NEW j \in Jobs, \A k \in Jobs : k # j => row'[k] = row[k]
    PROVE  /\ [k \in Jobs |-> row[k].run]' =
                [[k \in Jobs |-> row[k].run] EXCEPT ![j] = row'[j].run]
           /\ [k \in Jobs |-> row[k].cancelAt # Null]' =
                [[k \in Jobs |-> row[k].cancelAt # Null] EXCEPT ![j] = row'[j].cancelAt # Null]
           /\ [k \in Jobs |-> Verdict(row[k])]' =
                [[k \in Jobs |-> Verdict(row[k])] EXCEPT ![j] = Verdict(row'[j])]
<1>1. \A k \in Jobs : k # j => row'[k].run = row[k].run
  OBVIOUS
<1>2. \A k \in Jobs : k # j => (row'[k].cancelAt # Null) = (row[k].cancelAt # Null)
  OBVIOUS
<1>3. \A k \in Jobs : k # j => Verdict(row'[k]) = Verdict(row[k])
  OBVIOUS
<1>4. [k \in Jobs |-> row[k].run]' =
        [[k \in Jobs |-> row[k].run] EXCEPT ![j] = row'[j].run]
  BY <1>1
<1>5. [k \in Jobs |-> row[k].cancelAt # Null]' =
        [[k \in Jobs |-> row[k].cancelAt # Null] EXCEPT ![j] = row'[j].cancelAt # Null]
  BY <1>2, Zenon
<1>6. [k \in Jobs |-> Verdict(row[k])]' =
        [[k \in Jobs |-> Verdict(row[k])] EXCEPT ![j] = Verdict(row'[j])]
  BY <1>3, Zenon
<1>7. QED
  BY <1>4, <1>5, <1>6

\* Every step of the queue is a step of the lifecycle, or a stutter.
LEMMA LifecycleStep ==
    ASSUME QueueInv, [Next]_vars
    PROVE  [Lifecycle!Next]_Lifecycle!vars
<1>1. QueueInv' /\ RowSteps
  BY QueueInvNext
<1>2. CASE \A k \in Jobs : row'[k] = row[k]
  <2>1. /\ [k \in Jobs |-> row[k].run]' = [k \in Jobs |-> row[k].run]
        /\ [k \in Jobs |-> row[k].cancelAt # Null]' = [k \in Jobs |-> row[k].cancelAt # Null]
        /\ [k \in Jobs |-> Verdict(row[k])]' = [k \in Jobs |-> Verdict(row[k])]
    BY <1>2, Zenon
  <2>2. QED
    BY <2>1 DEF Lifecycle!vars
<1>3. ASSUME NEW j \in Jobs, row'[j] # row[j]
      PROVE  [Lifecycle!Next]_Lifecycle!vars
  <2> DEFINE d == row[j]
             e == row'[j]
             state == [k \in Jobs |-> row[k].run]
             stop == [k \in Jobs |-> row[k].cancelAt # Null]
             verdict == [k \in Jobs |-> Verdict(row[k])]
  <2>1. SeenStep(d, e)
    <3>1. d \in Rows /\ e \in Rows /\ RunOK(d) /\ RunOK(e) /\ LogOK(d) /\ LogOK(e)
          /\ FreshOK(d)
      BY <1>1 DEF QueueInv, IInv, RowOK, UncutOK
    <3>2. Written(j, d, e)
      BY <1>1 DEF RowSteps, RowStep
    <3> HIDE DEF d, e
    <3>3. QED
      BY <3>1, <3>2, RowLifecycle
  <2>2. \A k \in Jobs : k # j => row'[k] = row[k]
    BY <1>1, <1>3 DEF RowSteps
  <2>3. /\ state' = [state EXCEPT ![j] = e.run]
        /\ stop' = [stop EXCEPT ![j] = e.cancelAt # Null]
        /\ verdict' = [verdict EXCEPT ![j] = Verdict(e)]
    BY <2>2, OneRowSeen
  <2>4. /\ state[j] = d.run /\ stop[j] = (d.cancelAt # Null) /\ verdict[j] = Verdict(d)
        /\ state = [state EXCEPT ![j] = d.run]
        /\ stop = [stop EXCEPT ![j] = d.cancelAt # Null]
        /\ verdict = [verdict EXCEPT ![j] = Verdict(d)]
    BY Zenon
  <2> DEFINE Moves(from, to) == /\ d.run = from /\ e.run = to
                                /\ (e.cancelAt # Null) = (d.cancelAt # Null)
                                /\ Verdict(e) = Verdict(d)
  <2>5. ASSUME NEW from, NEW to, Moves(from, to) PROVE Lifecycle!Move(j, from, to)
    BY <2>3, <2>4, <2>5 DEF Lifecycle!Move
  <2>6. CASE Seen(e) = Seen(d)
    <3>1. e.run = d.run /\ (e.cancelAt # Null) = (d.cancelAt # Null) /\ Verdict(e) = Verdict(d)
      BY <2>6 DEF Seen
    <3>2. state' = state /\ stop' = stop /\ verdict' = verdict
      BY <2>3, <2>4, <3>1
    <3>3. QED
      BY <3>2 DEF Lifecycle!vars
  <2>7. CASE \/ Moves("absent", "queued") \/ Moves("waiting_approval", "queued")
             \/ d.cancelAt = Null /\ \/ Moves("queued", "running")
                                     \/ Moves("running", "queued")
                                     \/ Moves("running", "waiting_approval")
    <3> HIDE DEF Moves, d, e
    <3>1. d.cancelAt = Null => ~stop[j]
      BY <2>4
    <3>2. QED
      BY <2>5, <2>7, <3>1 DEF Lifecycle!Next, Lifecycle!Submit, Lifecycle!Resume,
         Lifecycle!Begin, Lifecycle!GiveBack, Lifecycle!Park
  <2>8. CASE /\ d.run # "absent" /\ e.cancelAt # Null
             /\ e.run = d.run /\ Verdict(e) = Verdict(d)
    <3>1. /\ state[j] # "absent" /\ stop' = [stop EXCEPT ![j] = TRUE]
          /\ state' = state /\ verdict' = verdict
      BY <2>3, <2>4, <2>8
    <3>2. Lifecycle!RequestStop(j)
      BY <3>1 DEF Lifecycle!RequestStop
    <3>3. QED
      BY <3>2 DEF Lifecycle!Next
  <2>9. ASSUME NEW outcome \in {"succeeded", "failed", "canceled"},
               d.run \in {"queued", "running", "waiting_approval"},
               outcome = "succeeded" => d.run = "running" /\ d.cancelAt = Null,
               d.cancelAt # Null => e.cancelAt # Null,
               outcome = "canceled" => e.cancelAt # Null,
               outcome = "succeeded" => e.cancelAt = Null,
               e.run = outcome, Verdict(e) = outcome
        PROVE  Lifecycle!Next
    <3>1. /\ state[j] \in Lifecycle!Live
          /\ outcome = "succeeded" => state[j] = "running" /\ ~stop[j]
      BY <2>4, <2>9 DEF Lifecycle!Live
    <3>2. \E s \in {stop[j], TRUE} :
            /\ outcome = "canceled" => s
            /\ outcome = "succeeded" => ~s
            /\ stop' = [stop EXCEPT ![j] = s]
      <4>1. CASE e.cancelAt # Null
        <5>1. stop' = [stop EXCEPT ![j] = TRUE]
          BY <2>3, <4>1
        <5> HIDE DEF stop
        <5>2. QED
          BY <2>9, <4>1, <5>1
      <4>2. CASE e.cancelAt = Null
        <5>1. ~stop[j] /\ stop' = [stop EXCEPT ![j] = FALSE]
          BY <2>3, <2>4, <2>9, <4>2
        <5>2. stop[j] = FALSE
          BY <2>4, <5>1
        <5> HIDE DEF stop
        <5>3. QED
          BY <2>9, <4>2, <5>1, <5>2
      <4>3. QED
        BY <4>1, <4>2
    <3>3. state' = [state EXCEPT ![j] = outcome] /\ verdict' = [verdict EXCEPT ![j] = outcome]
      BY <2>3, <2>9
    <3>4. Lifecycle!End(j, outcome)
      BY <3>1, <3>2, <3>3 DEF Lifecycle!End
    <3>5. QED
      BY <3>4 DEF Lifecycle!Next, Lifecycle!Outcomes
  <2>10. QED
    BY <2>1, <2>6, <2>7, <2>8, <2>9 DEF SeenStep
<1>4. QED
  BY <1>2, <1>3

\* The queue implements what it promises the user of a run: seen through run,
\* cancel request and last event, it does what the lifecycle allows and nothing else.
THEOREM QueueImplementsLifecycle == Spec => ImplementsRunLifecycle
<1>1. Init => Lifecycle!Init
  <2>1. Init => \A j \in Jobs : row[j].run = "absent" /\ row[j].cancelAt = Null
                                /\ Verdict(row[j]) = "none"
    BY DEF Init, EmptyRow, Verdict
  <2>2. QED
    BY <2>1 DEF Lifecycle!Init
<1>2. QueueInv /\ [Next]_vars => [Lifecycle!Next]_Lifecycle!vars
  BY LifecycleStep
<1>3. QED
  BY <1>1, <1>2, QueueInvariance, PTL DEF Spec, ImplementsRunLifecycle, Lifecycle!Spec

-----------------------------------------------------------------------------
(* Who may take a lease away.                                               *)

\* A running row, stopped at t, whose lease and drain window are open.
DrainingOK(d, t) ==
    /\ d \in Rows /\ d.status = "running" /\ d.token # Null /\ d.lease > t
    /\ d.drain = "cancel" /\ d.drainDeadline > t /\ d.cancelAt # Null

\* Freezing a cancellation whose window is still open leaves the row draining.
LEMMA FreezeDrains ==
    ASSUME NEW d \in Rows, NEW t \in Int, t >= 0, CanDrain(d, t), d.cancelAt # Null,
           NEW c \in Int, c # Null,
           \/ d.drain = "none" /\ c + DrainMs > t
           \/ d.drain = "cancel" /\ d.drainDeadline > t,
           NEW renew \in BOOLEAN,
           NEW r, r = RetainStopReceiptLease(d, "cancel", c, t, renew)
    PROVE  DrainingOK(r, t) /\ r.token = d.token
<1> DEFINE cause == "cancel"
           f == FreezeJobReceiptDrain(d, cause, c, t, renew)
           deadline == IF d.drain # "none" THEN d.drainDeadline ELSE c + DrainMs
           x == IF d.cancelAt = Null THEN t ELSE d.cancelAt
           y == MinOf(deadline, IF renew THEN t + LeaseMs ELSE d.lease)
           reason == IF (IF d.drain # "none" THEN d.drain ELSE cause) = "timeout"
                     THEN "budget_exhausted" ELSE "user_request"
<1>1. d.lease \in Int /\ d.drainDeadline \in Int /\ d.cancelAt \in Int
  BY DEF Rows
<1>2. deadline \in Int /\ deadline > t
  BY <1>1, ConstantsAssumption
<1>3. f = [d EXCEPT !.drain = cause, !.drainDeadline = deadline, !.cancelAt = x,
                    !.lease = y]
  BY DEF FreezeJobReceiptDrain
<1> HIDE DEF deadline
<1>4. y \in Int /\ y > t
  BY <1>1, <1>2, ConstantsAssumption DEF MinOf, CanDrain
<1>5. x \in Int /\ x # Null
  BY <1>1
<1>6. cause \in {"none", "cancel", "timeout"} /\ cause \in Causes
  BY DEF Causes
<1> HIDE DEF x, y
<1>7. r = CancelRuntimeRoot(f, reason)
  BY DEF RetainStopReceiptLease
<1>8. f \in Rows
  BY <1>2, <1>3, <1>4, <1>5, <1>6 DEF Rows
<1>9. /\ f.status = d.status /\ f.token = d.token /\ f.lease = y /\ f.drain = cause
      /\ f.drainDeadline = deadline /\ f.cancelAt = x
  BY <1>3 DEF Rows
<1>10. reason \in {"user_request", "budget_exhausted"}
  OBVIOUS
<1> HIDE DEF f, reason
<1>11. /\ r \in Rows /\ Job(r) = Job(f) /\ r.cancelAt = f.cancelAt
       /\ r.drain = f.drain /\ r.drainDeadline = f.drainDeadline
  BY <1>7, <1>8, <1>10, RootType
<1>12. r.status = f.status /\ r.token = f.token /\ r.lease = f.lease
  BY <1>11 DEF Job
<1>13. QED
  BY <1>2, <1>4, <1>5, <1>9, <1>11, <1>12 DEF DrainingOK, CanDrain

\* A heartbeat of a live, unstopped lease keeps it, whatever authority was lost:
\* the job drains first.  A cancellation is anchored at the host's clock, so the
\* drain must be longer than a clock may be late.
LEMMA HeartbeatHolds ==
    ASSUME now \in Nat, now >= MaxSkew, NEW h \in Hosts, DrainMs > MaxSkew,
           NEW d \in Rows, d.status = "running", d.token # Null, StopOK(d),
           d.cancelAt = Null, d.lease > now, d.timeoutAt > Local(h),
           NEW scheduled \in BOOLEAN, NEW authorized \in BOOLEAN,
           NEW r, r = HeartbeatRow(d, h, scheduled, authorized).row
    PROVE  r.token = d.token
<1> DEFINE n == now
           l == Local(h)
           yes == TRUE
           no == FALSE
<1>1. /\ l \in Int /\ l >= 0 /\ n \in Int /\ n >= 0 /\ l + DrainMs > n
      /\ n + DrainMs > n /\ l # Null /\ n # Null
  <2>1. l \in Int /\ l >= 0
    BY LocalType
  <2>2. l = n + Skew[h] /\ Skew[h] \in Int /\ Skew[h] >= 0 - MaxSkew
    BY ConstantsAssumption DEF Local
  <2>3. QED
    BY <2>1, <2>2, ConstantsAssumption DEF Null
<1>2. yes \in BOOLEAN /\ no \in BOOLEAN
  OBVIOUS
<1> HIDE DEF yes, no
<1>3. d.drain = "none" /\ QueueStopCause(d, l) = "none"
  BY <1>1 DEF StopOK, QueueStopCause, Rows
<1>4. d.lease \in Int
  BY DEF Rows
<1>5. CASE scheduled
  <2>1. CASE authorized
    <3>1. r = [d EXCEPT !.lease = l + LeaseMs]
      BY <1>3, <1>5, <2>1 DEF HeartbeatRow
    <3>2. QED
      BY <3>1 DEF Rows
  <2>2. CASE ~authorized
    <3> DEFINE v == [d EXCEPT !.cancelAt = n, !.revoked = TRUE]
               kept == RetainStopReceiptLease(v, "cancel", v.cancelAt, n, yes)
    <3>1. r = StopJobOrDrain(v, "cancel", n, yes)
      BY <1>3, <1>5, <2>2 DEF HeartbeatRow, Rows, yes
    <3> HIDE DEF n, l
    <3>2. v \in Rows
      BY <1>1 DEF Rows
    <3>3. /\ v.status = "running" /\ v.token = d.token /\ v.lease = d.lease
          /\ v.drain = "none" /\ v.cancelAt = n
      BY <1>3 DEF Rows
    <3> HIDE DEF v
    <3>4. CanDrain(v, n)
      BY <3>3 DEF CanDrain, n
    <3>5. DrainingOK(kept, n) /\ kept.token = v.token
      BY <1>1, <1>2, <3>2, <3>3, <3>4, FreezeDrains
    <3>6. r = kept
      BY <3>1, <3>4, <3>5 DEF StopJobOrDrain, DrainOpen, DrainingOK
    <3>7. QED
      BY <3>3, <3>5, <3>6
  <2>3. QED
    BY <2>1, <2>2
<1>6. CASE ~scheduled
  <2> DEFINE c == CancelRuntimeRoot(d, "user_request")
             cut == [c EXCEPT !.cancelAt = IF @ = Null THEN n ELSE @]
             d1 == RequestCancellation(d, h)
             kept == RetainStopReceiptLease(d1, "cancel", d1.cancelAt, n, yes)
  <2>1. d1 = RetainStopReceiptLease(cut, "cancel", l, n, no)
    BY <1>3 DEF RequestCancellation, no
  <2>2. c \in Rows /\ Job(c) = Job(d) /\ c.cancelAt = Null /\ c.drain = "none"
    BY <1>3, RootType
  <2>3. c.status = "running" /\ c.token = d.token /\ c.lease = d.lease
    BY <2>2 DEF Job
  <2> HIDE DEF c, n, l
  <2>4. cut = [c EXCEPT !.cancelAt = n]
    BY <2>2 DEF Rows
  <2>5. cut \in Rows
    BY <1>1, <2>2, <2>4 DEF Rows
  <2>6. /\ cut.status = "running" /\ cut.token = d.token /\ cut.lease = d.lease
        /\ cut.drain = "none" /\ cut.cancelAt = n
    BY <2>2, <2>3, <2>4 DEF Rows
  <2> HIDE DEF cut
  <2>7. CanDrain(cut, n)
    BY <2>6 DEF CanDrain, n
  <2>8. DrainingOK(d1, n) /\ d1.token = d.token
    BY <1>1, <1>2, <2>1, <2>5, <2>6, <2>7, FreezeDrains
  <2>9. r = StopJobOrDrain(d1, "cancel", n, yes)
    <3>1. QueueStopCause(d1, l) = "cancel"
      BY <2>8 DEF DrainingOK, QueueStopCause
    <3> HIDE DEF d1
    <3>2. (IF ~scheduled /\ d.cancelAt = Null THEN RequestCancellation(d, h) ELSE d) = d1
      BY <1>6 DEF d1
    <3>3. QED
      BY <3>1, <3>2 DEF HeartbeatRow, n, l, yes
  <2> HIDE DEF d1
  <2>10. CanDrain(d1, n) /\ d1 \in Rows /\ d1.cancelAt # Null /\ d1.cancelAt \in Int
         /\ d1.drain = "cancel" /\ d1.drainDeadline > n
    BY <2>8 DEF DrainingOK, CanDrain, Rows
  <2>11. DrainingOK(kept, n) /\ kept.token = d1.token
    BY <1>1, <1>2, <2>10, FreezeDrains
  <2>12. r = kept
    BY <2>9, <2>10, <2>11 DEF StopJobOrDrain, DrainOpen, DrainingOK
  <2>13. QED
    BY <2>8, <2>11, <2>12
<1>7. QED
  BY <1>5, <1>6

\* A maintenance pass leaves a live, unstopped lease alone, however old its scan.
LEMMA MaintenanceHolds ==
    ASSUME now \in Int, NEW h \in Hosts, Local(h) \in Int,
           NEW d \in Rows, d.status \in LeasedStatuses, StopOK(d), d.cancelAt = Null,
           d.lease > Local(h), d.timeoutAt > Local(h), NEW j, NEW scan
    PROVE  MaintainedRow(j, d, Local(h), scan) = d
<1> DEFINE l == Local(h)
<1>1. d.drain = "none" /\ d.lease \in Int /\ d.timeoutAt \in Int
  BY DEF StopOK, Rows
<1>2. QueueStopCause(d, l) = "none"
  BY <1>1 DEF QueueStopCause
<1>3. QueueMaintenanceAction(d, l) = "none"
  BY <1>1, <1>2 DEF QueueMaintenanceAction, LeasedStatuses
<1>4. QED
  BY <1>3 DEF MaintainedRow

\* Opening a leased row refreshes its clock, and does not bring its deadline nearer.
LEMMA OpenedDeadline ==
    ASSUME QueueInv, NEW j \in Jobs, row[j].timeoutAt > now + MaxSkew,
           row[j].status # "absent"
    PROVE  Opened(j).timeoutAt > now + MaxSkew
<1> DEFINE d == row[j]
           n == now
           phase == TaskClockPhase(d)
           left == LeftAt(d, n)
           x == DeadlineAt(left, phase, n)
           y == IF phase = "active" THEN 0 ELSE left
<1>1. /\ d \in Rows /\ MeterOK(j, d, n) /\ n \in Int /\ d.timeoutAt \in Int
      /\ d.left \in Int /\ MaxSkew \in Nat /\ Budget \in Nat
      /\ d.timeoutAt > n + MaxSkew /\ d.status # "absent"
  BY ConstantsAssumption DEF QueueInv, IInv, Rows
<1>2. CASE j \notin Clocked \/ phase = "terminal"
  BY <1>1, <1>2 DEF Opened, RefreshTaskClock
<1>3. CASE j \in Clocked /\ phase # "terminal"
  <2>1. Opened(j) = [d EXCEPT !.timeoutAt = x, !.left = y]
    BY <1>3 DEF Opened, RefreshTaskClock
  <2> HIDE DEF d, n, x, y
  <2>2. Opened(j).timeoutAt = x
    BY <1>1, <2>1 DEF Rows
  <2>3. left = IF phase = "active" THEN d.timeoutAt - n ELSE d.left
    BY DEF LeftAt
  <2>4. phase \in {"terminal", "waiting", "queued", "active"}
    BY DEF TaskClockPhase
  <2>5. /\ Budget = 0 => d.timeoutAt = Never
        /\ Budget > 0 /\ phase \in {"waiting", "queued"} =>
             IF d.left > 0 THEN d.timeoutAt = Never ELSE d.timeoutAt <= n
    BY <1>1, <1>3 DEF MeterOK
  <2> HIDE DEF left, phase
  <2>6. x = d.timeoutAt
    <3>1. CASE Budget = 0
      BY <2>5, <3>1 DEF x, DeadlineAt
    <3>2. CASE Budget > 0 /\ phase = "active"
      BY <1>1, <2>3, <3>2 DEF x, DeadlineAt
    <3>3. CASE Budget > 0 /\ phase \in {"waiting", "queued"}
      BY <1>1, <2>3, <2>5, <3>3 DEF x, DeadlineAt
    <3>4. QED
      BY <1>1, <1>3, <2>4, <3>1, <3>2, <3>3
  <2>7. QED
    BY <1>1, <2>2, <2>6 DEF n
<1>4. QED
  BY <1>2, <1>3

\* The writes of a running handler leave the token alone.
LEMMA TokenStays ==
    ASSUME NEW o, NEW d, DOMAIN d = DOMAIN o, d.token = o.token, "token" \in DOMAIN o
    PROVE  /\ \A j, t : RefreshTaskClock(j, o, d, t).token = o.token
           /\ \A type, a : AppendEventOf(d, type, a).token = o.token
           /\ \A type, a : DOMAIN AppendEventOf(d, type, a) = DOMAIN o
<1>1. ASSUME NEW u, NEW v PROVE [d EXCEPT !.timeoutAt = u, !.left = v].token = d.token
  OBVIOUS
<1>2. \A j, t : RefreshTaskClock(j, o, d, t).token = o.token
  BY <1>1 DEF RefreshTaskClock
<1>3. QED
  BY <1>2 DEF AppendEventOf

\* A runner that moves or returns is another one than before.
LEMMA RunnerMoves ==
    ASSUME IInv, NEW j \in Jobs, NEW a \in Attempts,
           \/ \E pc : pc # runner[j][a].pc /\ Goto(j, a, pc)
           \/ Returns(j, a) /\ runner[j][a].pc # "done"
    PROVE  runner'[j][a] # runner[j][a]
<1>1. runner[j][a] \in Runners
  BY DEF IInv
<1>2. ASSUME NEW pc, pc # runner[j][a].pc, Goto(j, a, pc)
      PROVE  runner'[j][a] # runner[j][a]
  <2>1. runner'[j][a] = [runner[j][a] EXCEPT !.pc = pc]
    BY <1>2 DEF Goto, IInv
  <2>2. runner'[j][a].pc = pc
    BY <1>1, <2>1 DEF Runners
  <2>3. QED
    BY <1>2, <2>2
<1>3. CASE Returns(j, a) /\ runner[j][a].pc # "done"
  BY <1>3 DEF Returns, Gone, IInv
<1>4. QED
  BY <1>2, <1>3

\* A runner of the job that changes the row's token is the holder, and moves.
LEMMA HolderMoves ==
    ASSUME QueueInv, DrainMs > MaxSkew, NEW j \in Jobs, NEW a \in Attempts,
           RunnerStep(j, a), row[j].status \in LeasedStatuses,
           row[j].timeoutAt > now + MaxSkew, row[j].cancelAt = Null
    PROVE  \/ row'[j].token = row[j].token
           \/ a = row[j].token /\ runner'[j][a] # runner[j][a]
<1>1. PICK o : o = Opened(j)
  OBVIOUS
<1>2. /\ IInv /\ o.status = row[j].status /\ o.token = row[j].token /\ o.lease = row[j].lease
      /\ o \in Rows /\ RowOK(o, now) /\ StopOK(o) /\ o.cancelAt = Null
      /\ row \in [Jobs -> Rows]
  <2>1. IInv /\ row[j] \in Rows /\ row \in [Jobs -> Rows]
    BY DEF QueueInv, IInv
  <2>2. Job(o) = Job(row[j])
    BY <1>1, <2>1, RefreshType DEF Opened, IInv
  <2>3. o.status # "absent"
    BY <2>2 DEF Job, LeasedStatuses
  <2>4. Stop(o) = Stop(row[j]) /\ RowOK(o, now) /\ o \in Rows
    BY <1>1, <2>1, <2>3, OpenedOK
  <2>5. QED
    BY <2>1, <2>2, <2>4 DEF Job, Stop, RowOK, UncutOK
<1>3. ASSUME NEW e, NEW t, Commit(j, e, t) PROVE row'[j] = e
  BY <1>2, <1>3 DEF Commit
<1>4. CASE StartClaimedJob(j, a)
  <2>1. o.token = a /\ runner[j][a].pc = "starting" /\ (Returns(j, a) \/ Goto(j, a, "executing"))
    BY <1>1, <1>4 DEF StartClaimedJob
  <2>2. QED
    BY <1>2, <2>1, RunnerMoves
<1>5. CASE FailClaimedJobStart(j, a)
  <2>1. o.token = a /\ runner[j][a].pc = "starting" /\ Returns(j, a)
    BY <1>1, <1>5 DEF FailClaimedJobStart, HoldsLease
  <2>2. QED
    BY <1>2, <2>1, RunnerMoves
<1>6. CASE HeartbeatJob(j, a)
  <2> DEFINE h == runner[j][a].worker
  <2>1. PICK scheduled \in BOOLEAN, authorized \in BOOLEAN, t \in CommitTimes :
          /\ LockedLeaseCurrent(o, t)
          /\ Commit(j, HeartbeatRow(o, h, scheduled, authorized).row, t)
    BY <1>1, <1>6 DEF HeartbeatJob
  <2>2. o.status = "running" /\ o.token = a
    BY <1>1, <1>6 DEF HeartbeatJob, HoldsLease
  <2>3. o.token # Null
    BY <2>2, ConstantsAssumption DEF Attempts, Null
  <2>4. /\ now \in Nat /\ now >= MaxSkew /\ h \in Hosts /\ Local(h) \in Int
        /\ t \in Int /\ now <= t /\ o.lease \in Int /\ o.timeoutAt \in Int
    BY <1>2, HostType, LocalType, CommitTimesType DEF Rows
  <2>5. o.lease > now
    BY <2>1, <2>4 DEF LockedLeaseCurrent
  <2>6. o.timeoutAt > Local(h)
    <3>1. o.timeoutAt > now + MaxSkew
      BY <1>1, <1>2, OpenedDeadline DEF LeasedStatuses
    <3>2. Local(h) = now + Skew[h] /\ Skew[h] \in Int /\ Skew[h] <= MaxSkew
      BY <2>4, ConstantsAssumption DEF Local
    <3> HIDE DEF h
    <3>3. QED
      BY <2>4, <3>1, <3>2, ConstantsAssumption
  <2> HIDE DEF h
  <2>7. HeartbeatRow(o, h, scheduled, authorized).row.token = o.token
    BY <1>2, <2>2, <2>3, <2>4, <2>5, <2>6, HeartbeatHolds
  <2>8. QED
    BY <1>2, <1>3, <2>1, <2>7
<1>7. CASE AppendJobEvent(j, a)
  <2>1. PICK t \in CommitTimes :
          \/ Commit(j, AppendEventOf(o, "step", a), t)
          \/ \E asked : Commit(j, RefreshTaskClock(j, o,
                          AppendEventOf([o EXCEPT !.question = asked], "step", a), t), t)
    BY <1>1, <1>7 DEF AppendJobEvent
  <2>2. "token" \in DOMAIN o
    BY <1>2 DEF Rows
  <2>3. CASE Commit(j, AppendEventOf(o, "step", a), t)
    BY <1>2, <1>3, <2>2, <2>3, TokenStays
  <2>4. ASSUME NEW asked, NEW r,
               r = RefreshTaskClock(j, o,
                     AppendEventOf([o EXCEPT !.question = asked], "step", a), t)
        PROVE  r.token = o.token
    <3> DEFINE d == [o EXCEPT !.question = asked]
               e == AppendEventOf(d, "step", a)
    <3>1. DOMAIN d = DOMAIN o /\ d.token = o.token
      BY <1>2 DEF Rows
    <3> HIDE DEF d
    <3>2. DOMAIN e = DOMAIN o /\ e.token = o.token
      BY <2>2, <3>1, TokenStays
    <3>3. r = RefreshTaskClock(j, o, e, t)
      BY <2>4 DEF d
    <3> HIDE DEF e
    <3>4. QED
      BY <2>2, <3>2, <3>3, TokenStays
  <2>5. QED
    BY <1>2, <1>3, <2>1, <2>3, <2>4
<1>8. CASE CancelByProgress(j, a)
  <2> DEFINE c == CancelRuntimeRoot(o, "user_request")
  <2>1. Commit(j, [c EXCEPT !.cancelAt = now], now)
    BY <1>1, <1>8 DEF CancelByProgress
  <2>2. "token" \in DOMAIN c /\ c.token = o.token
    BY <1>2 DEF CancelRuntimeRoot, Rows
  <2> HIDE DEF c
  <2>3. [c EXCEPT !.cancelAt = now].token = o.token
    BY <2>2
  <2>4. QED
    BY <1>2, <1>3, <2>1, <2>3
<1>9. ASSUME NEW q \in Questions, ContinueNativeQuestion(j, a, q)
      PROVE  row'[j].token = row[j].token
  <2> DEFINE d == [o EXCEPT !.wait[q] = "continued", !.question[q] = "closed"]
  <2>1. PICK t \in CommitTimes : Commit(j, RefreshTaskClock(j, o, d, t), t)
    BY <1>1, <1>9 DEF ContinueNativeQuestion
  <2>2. DOMAIN d = DOMAIN o /\ d.token = o.token /\ "token" \in DOMAIN o
    BY <1>2 DEF Rows
  <2> HIDE DEF d
  <2>3. RefreshTaskClock(j, o, d, t).token = o.token
    BY <2>2, TokenStays
  <2>4. QED
    BY <1>2, <1>3, <2>1, <2>3
<1>10. ASSUME NEW q \in Questions, ParkNativeQuestion(j, a, q)
       PROVE  a = row[j].token /\ runner'[j][a] # runner[j][a]
  <2>1. o.token = a /\ runner[j][a].pc = "executing" /\ Goto(j, a, "cleanup")
    BY <1>1, <1>10 DEF ParkNativeQuestion, IsOwner
  <2>2. QED
    BY <1>2, <2>1, RunnerMoves
<1>11. CASE CompleteJob(j, a) \/ FailJob(j, a)
  <2>1. /\ o.token = a /\ runner[j][a].pc \in {"completing", "failing"}
        /\ Goto(j, a, "cleanup")
    BY <1>1, <1>11 DEF CompleteJob, FailJob, HoldsLease
  <2>2. QED
    BY <1>2, <2>1, RunnerMoves
<1>12. CASE FinishJobDrain(j, a)
  <2>1. /\ UNCHANGED row \/ o.token = a
        /\ runner[j][a].pc = "cleanup" /\ Returns(j, a)
    BY <1>1, <1>12 DEF FinishJobDrain, HoldsLease
  <2>2. QED
    BY <1>2, <2>1, RunnerMoves
<1>13. CASE \/ HeartbeatFails(j, a) \/ HandlerReturns(j, a) \/ SettlementThrows(j, a)
            \/ LeaseLost(j, a) \/ Cleanup(j, a) \/ RunnerStops(j, a)
  BY <1>13 DEF HeartbeatFails, HandlerReturns, SettlementThrows, LeaseLost, Cleanup,
     RunnerStops
<1>14. QED
  BY <1>4, <1>5, <1>6, <1>7, <1>8, <1>9, <1>10, <1>11, <1>12, <1>13 DEF RunnerStep

\* A job's row is written by steps of that job only.
LEMMA OthersStay ==
    ASSUME IInv, NEW j \in Jobs, NEW k \in Jobs, j # k,
           \/ WebStep(k) \/ MaintenanceStep(k)
           \/ \E w \in Workers : ClaimNextJob(w, k)
           \/ \E a \in Attempts : RunnerStep(k, a)
    PROVE  row'[j] = row[j]
<1>1. ASSUME NEW e, NEW t, Commit(k, e, t) PROVE row'[j] = row[j]
  BY <1>1 DEF Commit, IInv
<1>2. CASE WebStep(k)
  BY <1>1, <1>2 DEF WebStep, EnqueueRun, CancelRun, RevokeCompletedReview,
     CancelByPolicyChange
<1>3. CASE MaintenanceStep(k)
  BY <1>1, <1>3 DEF MaintenanceStep, ScanQueue, MaintainQueue, WakeNativeQuestionWaits
<1>4. CASE \E w \in Workers : ClaimNextJob(w, k)
  BY <1>1, <1>4 DEF ClaimNextJob
<1>5. ASSUME NEW a \in Attempts, RunnerStep(k, a) PROVE row'[j] = row[j]
  <2>1. CASE StartClaimedJob(k, a) \/ FailClaimedJobStart(k, a) \/ HeartbeatJob(k, a)
    BY <1>1, <2>1 DEF StartClaimedJob, FailClaimedJobStart, HeartbeatJob
  <2>2. CASE AppendJobEvent(k, a) \/ CancelByProgress(k, a) \/ CompleteJob(k, a)
    BY <1>1, <2>2 DEF AppendJobEvent, CancelByProgress, CompleteJob
  <2>3. CASE FailJob(k, a) \/ FinishJobDrain(k, a)
    BY <1>1, <2>3 DEF FailJob, FinishJobDrain
  <2>4. CASE \E q \in Questions : ParkNativeQuestion(k, a, q) \/ ContinueNativeQuestion(k, a, q)
    BY <1>1, <2>4 DEF ParkNativeQuestion, ContinueNativeQuestion
  <2>5. CASE \/ HeartbeatFails(k, a) \/ HandlerReturns(k, a) \/ SettlementThrows(k, a)
             \/ LeaseLost(k, a) \/ Cleanup(k, a) \/ RunnerStops(k, a)
    BY <2>5 DEF HeartbeatFails, HandlerReturns, SettlementThrows, LeaseLost, Cleanup,
       RunnerStops
  <2>6. QED
    BY <1>5, <2>1, <2>2, <2>3, <2>4, <2>5 DEF RunnerStep
<1>6. QED
  BY <1>2, <1>3, <1>4, <1>5

\* Nobody takes a live, unstopped lease away but its own runner, however stale the
\* scan a maintenance pass acts on, when the receipt drain outlasts the clock skew
\* (maintainQueue, heartbeatJob).
THEOREM LeaseIsHeld == DrainMs > MaxSkew => (Spec => LiveLeaseIsHeld)
<1> SUFFICES ASSUME DrainMs > MaxSkew PROVE Spec => LiveLeaseIsHeld
  OBVIOUS
<1>1. ASSUME QueueInv, [Next]_vars, NEW j \in Jobs,
             row[j].status \in LeasedStatuses, row[j].lease > now + MaxSkew,
             row[j].timeoutAt > now + MaxSkew, row[j].cancelAt = Null,
             row'[j].token # row[j].token
      PROVE  runner'[j][row[j].token] # runner[j][row[j].token]
  <2> DEFINE d == row[j]
  <2>1. /\ IInv /\ d \in Rows /\ row \in [Jobs -> Rows] /\ StopOK(d)
        /\ now \in Nat /\ now >= MaxSkew /\ now \in Int
    BY <1>1 DEF QueueInv, IInv, RowOK, UncutOK
  <2>2. row'[j] # row[j]
    BY <1>1
  <2>3. ASSUME NEW e, NEW t, Commit(j, e, t), e.token = d.token PROVE FALSE
    BY <1>1, <2>1, <2>3 DEF Commit
  <2>4. CASE WebStep(j)
    <3>1. CASE EnqueueRun(j) \/ RevokeCompletedReview(j)
      BY <1>1, <3>1 DEF EnqueueRun, RevokeCompletedReview, LeasedStatuses
    <3>2. CASE CancelRun(j)
      <4>1. Commit(j, RequestCancellation(d, Web), now)
        BY <1>1, <3>2 DEF CancelRun, LeasedStatuses, IsTerminalJobStatus, TerminalJobStatuses
      <4>2. Hushed(d, RequestCancellation(d, Web))
        <5>1. d.status # "absent" /\ Web \in Hosts
          BY <1>1 DEF LeasedStatuses, Hosts
        <5> HIDE DEF d
        <5>2. QED
          BY <2>1, <5>1, CancelShape
      <4>3. RequestCancellation(d, Web).token = d.token
        BY <4>2 DEF Hushed, Quiet, Place
      <4>4. QED
        BY <2>3, <4>1, <4>3
    <3>3. CASE CancelByPolicyChange(j)
      <4>1. Commit(j, [d EXCEPT !.cancelAt = now], now)
        BY <1>1, <3>3 DEF CancelByPolicyChange
      <4>2. [d EXCEPT !.cancelAt = now].token = d.token
        BY <2>1 DEF Rows
      <4>3. QED
        BY <2>3, <4>1, <4>2
    <3>4. QED
      BY <2>4, <3>1, <3>2, <3>3 DEF WebStep
  <2>5. CASE MaintenanceStep(j)
    <3>1. PICK o : o = Opened(j)
      OBVIOUS
    <3>2. /\ o.status = d.status /\ o.token = d.token /\ o.lease = d.lease
          /\ o.cancelAt = Null /\ StopOK(o) /\ o \in Rows
          /\ o.timeoutAt > now + MaxSkew
      <4>1. d.status # "absent"
        BY <1>1 DEF LeasedStatuses
      <4>2. Job(o) = Job(d) /\ Stop(o) = Stop(d) /\ o \in Rows
        BY <2>1, <3>1, RefreshType DEF Opened
      <4>3. o.status = d.status /\ o.token = d.token /\ o.lease = d.lease
            /\ o.cancelAt = Null
        BY <1>1, <4>2 DEF Job, Stop
      <4>4. RowOK(o, now)
        BY <2>1, <3>1, <4>1, <4>3, OpenedOK
      <4>5. o.timeoutAt > now + MaxSkew
        BY <1>1, <3>1, <4>1, OpenedDeadline
      <4>6. QED
        BY <4>2, <4>3, <4>4, <4>5 DEF RowOK, UncutOK
    <3>3. ASSUME NEW w \in Workers, MaintainQueue(w, j) PROVE FALSE
      <4> DEFINE l == Local(w)
      <4>1. PICK scan : Commit(j, MaintainedRow(j, o, l, scan), now)
        BY <3>1, <3>3 DEF MaintainQueue
      <4>2. l \in Int /\ o.lease > l /\ o.timeoutAt > l
        <5>1. w \in Hosts
          BY DEF Hosts
        <5>2. l = now + Skew[w] /\ Skew[w] \in Int /\ Skew[w] <= MaxSkew /\ MaxSkew \in Int
          BY <5>1, ConstantsAssumption DEF Local
        <5>3. o.lease \in Int /\ o.timeoutAt \in Int /\ o.lease > now + MaxSkew
          BY <1>1, <3>2 DEF Rows
        <5> HIDE DEF l
        <5>4. QED
          BY <2>1, <3>2, <5>2, <5>3
      <4>3. MaintainedRow(j, o, l, scan) = o
        BY <1>1, <2>1, <3>2, <4>2, MaintenanceHolds DEF Hosts
      <4>4. QED
        BY <2>3, <3>2, <4>1, <4>3
    <3>4. ASSUME NEW q \in Questions, WakeNativeQuestionWaits(j, q) PROVE FALSE
      <4>1. o.status = "waiting_approval"
        BY <3>1, <3>4 DEF WakeNativeQuestionWaits
      <4>2. QED
        BY <1>1, <3>2, <4>1 DEF LeasedStatuses
    <3>5. ASSUME NEW w \in Workers, ScanQueue(w, j) PROVE FALSE
      BY <2>2, <3>5 DEF ScanQueue
    <3>6. QED
      BY <2>5, <3>3, <3>4, <3>5 DEF MaintenanceStep
  <2>6. ASSUME NEW w \in Workers, ClaimNextJob(w, j) PROVE FALSE
    BY <1>1, <2>6 DEF ClaimNextJob, LeasedStatuses
  <2>7. ASSUME NEW a \in Attempts, RunnerStep(j, a)
        PROVE  runner'[j][row[j].token] # runner[j][row[j].token]
    BY <1>1, <2>7, HolderMoves
  <2>8. CASE UNCHANGED vars \/ Tick
    BY <2>2, <2>8 DEF vars, Tick
  <2>9. ASSUME NEW k \in Jobs, k # j,
               \/ WebStep(k) \/ MaintenanceStep(k)
               \/ \E w \in Workers : ClaimNextJob(w, k)
               \/ \E a \in Attempts : RunnerStep(k, a)
        PROVE  FALSE
    BY <2>1, <2>2, <2>9, OthersStay
  <2>10. QED
    BY <1>1, <2>4, <2>5, <2>6, <2>7, <2>8, <2>9 DEF Next
<1>2. QueueInv /\ [Next]_vars =>
        [\A j \in Jobs :
           LET d == row[j] IN
           /\ d.status \in LeasedStatuses /\ d.lease > now + MaxSkew
           /\ d.timeoutAt > now + MaxSkew /\ d.cancelAt = Null
           /\ row'[j].token # d.token
           => runner'[j][d.token] # runner[j][d.token]]_vars
  BY <1>1
<1>3. QED
  BY <1>2, QueueInvariance, PTL DEF Spec, LiveLeaseIsHeld
=============================================================================
