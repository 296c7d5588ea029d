------------------------- MODULE LeaseLockRetryProofs -------------------------
(***************************************************************************)
(* What the retry loop of LeaseLockRetry guarantees for every lease, drain *)
(* window, lock wait, reserve and attempt limit.                           *)
(***************************************************************************)
EXTENDS LeaseLockRetry, TLAPS

\* An attempt whose rest of the lease was measured: a retry, or one decided on.
Retrying ==
    \/ call.pc = "deciding" /\ call.next = "retry"
    \/ call.attempt > 1 /\ call.pc \in {"starting", "locking", "working"}

\* Another attempt is considered only while the limit is not reached.
AttemptsLeft ==
    call.pc \in {"backoff", "reading", "deciding"} => call.attempt < maxLeaseLockAttempts

\* A lock wait is for one of the locks that are left.
LocksLeft == call.pc = "locking" => call.held < LastLock(site)

\* Only the end of the call writes.
WritesAtEnd == applied = 0 \/ (applied = 1 /\ call.pc = "done")

\* What the read saw of the cancel request.
StopSeen ==
    /\ call.readAt <= now
    /\ StopMode /\ Retrying => row.canceled >= call.readAt

IInv == TypeOK /\ AttemptsLeft /\ LocksLeft /\ WritesAtEnd /\ StopSeen

\* The waits of a retry fit three times into the lease it read, less the reserve,
\* and the clock is no further than the delay and the waits so far account for.
InBudget ==
    /\ Retrying /\ call.pc # "working" =>
          3 * call.wait + leaseRetryReserve <= call.end - call.readAt
    /\ Retrying /\ call.pc \in {"deciding", "starting"} =>
          now <= call.readAt + call.t /\ call.t <= MaxDelay
    /\ Retrying /\ call.pc = "locking" =>
          /\ now <= call.readAt + MaxDelay + Waits(site, call.held) * call.wait + call.t
          /\ call.t <= call.wait
          /\ NoWait(site, call.held + 1) => call.t = 0

-----------------------------------------------------------------------------

\* Names and numbers of the constants as natural numbers.
LEMMA Numbers ==
    /\ leaseLockWait \in Nat /\ leaseLockWait >= 1
    /\ maxLeaseLockAttempts \in Nat /\ maxLeaseLockAttempts >= 1
    /\ LeaseLength \in Nat /\ LeaseLength >= 1 /\ DrainWindow \in Nat /\ DrainWindow >= 1
    /\ leaseRetryReserve \in Nat /\ MaxDelay \in Nat /\ AdmissionLocks \in Nat /\ MaxWork \in Nat /\ MaxTime \in Nat
    /\ Never \in Nat /\ Never = MaxTime + LeaseLength + DrainWindow + 1
  BY RetryAssumption DEF Never

\* Every kind of call takes at least two locks.
LEMMA LocksOfSite ==
    ASSUME NEW s \in Sites
    PROVE  /\ FirstLocks(s) \in Nat /\ Root(s) = FirstLocks(s) + 2
           /\ LastLock(s) \in Nat /\ LastLock(s) >= Root(s)
  BY Numbers DEF FirstLocks, Root, LastLock

\* Each lock is one more wait, but for the one that is only tried.
LEMMA WaitsOfSite ==
    ASSUME NEW s \in Sites, NEW n \in Nat, n < LastLock(s)
    PROVE  /\ Waits(s, n) \in Nat /\ Waits(s, n + 1) \in Nat
           /\ Waits(s, LastLock(s)) \in Nat /\ Waits(s, n + 1) <= Waits(s, LastLock(s))
           /\ Waits(s, n + 1) = IF NoWait(s, n + 1) THEN Waits(s, n) ELSE Waits(s, n) + 1
<1>1. FirstLocks(s) \in Nat /\ LastLock(s) \in Nat /\ LastLock(s) >= FirstLocks(s) + 2
  BY LocksOfSite
<1>2. QED BY <1>1 DEF Waits, NoWait

\* More waits of the same length take no less time.
LEMMA Monotone ==
    ASSUME NEW a \in Nat, NEW b \in Nat, NEW w \in Nat, a <= b
    PROVE  a * w <= b * w
<1>1. PICK d \in Nat : b = a + d
  <2>1. b - a \in Nat /\ b = a + (b - a) OBVIOUS
  <2>2. QED BY <2>1
<1>2. b * w = a * w + d * w BY <1>1
<1>3. d * w >= 0 /\ a * w \in Int /\ d * w \in Int OBVIOUS
<1>4. QED BY <1>2, <1>3

\* The wait a read decides on is within bounds and fits three times into the
\* rest of the lease (LockWait's division rounds down).
LEMMA WaitFits ==
    ASSUME NEW end \in Nat, now \in Nat, LockWait(end) >= minimumRetryLockWait
    PROVE  /\ LockWait(end) \in 1..leaseLockWait
           /\ 3 * LockWait(end) + leaseRetryReserve <= end - now
<1> DEFINE d == end - now - leaseRetryReserve
<1>1. d \in Int BY Numbers
<1>2. d \div 3 \in Int /\ 3 * (d \div 3) <= d BY <1>1
<1>3. QED BY <1>1, <1>2, Numbers
        DEF LockWait, Lesser, contendedLockWaits, minimumRetryLockWait

-----------------------------------------------------------------------------
(* The invariant *)

LEMMA FirstIsCall == FirstAttempt \in Calls
  BY Numbers DEF FirstAttempt, Calls, Ends, PCs, Nexts, Outcomes

LEMMA InitInv == Init => IInv
<1> SUFFICES ASSUME Init PROVE IInv OBVIOUS
<1>1. row \in Rows
  <2>1. /\ row = [owned |-> row.owned, lease |-> row.lease, canceled |-> row.canceled,
                  drain |-> row.drain]
        /\ row.lease \in 1..LeaseLength /\ row.canceled = Never /\ row.drain = Never
    BY DEF Init
  <2>2. row.owned \in BOOLEAN BY DEF Init
  <2>3. row.lease \in Ends /\ Never \in Ends BY <2>1, Numbers DEF Ends
  <2>4. QED BY <2>1, <2>2, <2>3 DEF Rows
<1>4. 0 \in 0..MaxTime BY Numbers
<1>a. aborted \in BOOLEAN BY DEF Init
<1>5. TypeOK BY <1>1, <1>4, <1>a, FirstIsCall DEF Init, TypeOK
<1>2. AttemptsLeft /\ LocksLeft /\ WritesAtEnd /\ StopSeen
  BY Numbers DEF Init, FirstAttempt, AttemptsLeft, LocksLeft, WritesAtEnd, StopSeen, Retrying
<1>3. QED BY <1>5, <1>2 DEF IInv

\* The call's fields after it has returned.
LEMMA DoneInv ==
    ASSUME IInv, NEW o \in Outcomes, Done(o),
           row' = row, site' = site, now' = now, aborted' = aborted, applied' \in {0, 1}
    PROVE  IInv'
<1>0. call' \in Calls
  <2>1. call.attempt \in 1..maxLeaseLockAttempts BY DEF IInv, TypeOK, Calls
  <2>2. QED BY <2>1, FirstIsCall DEF Done, Calls, PCs
<1>1. TypeOK' BY <1>0 DEF IInv, TypeOK
<1>2. (AttemptsLeft /\ LocksLeft /\ WritesAtEnd /\ StopSeen)'
  BY Numbers DEF IInv, TypeOK, Done, FirstAttempt, AttemptsLeft, LocksLeft, WritesAtEnd,
                 StopSeen, Retrying
<1>3. QED BY <1>1, <1>2 DEF IInv

\* Nothing but the row, or the runner's flag, changes.
LEMMA CallStep_Begin == ASSUME IInv, BeginAttempt PROVE IInv'
<1>0. call \in Calls /\ site \in Sites BY DEF IInv, TypeOK
<1>a. call' \in Calls
  <2>1. 0 \in Nat /\ "locking" \in PCs BY DEF PCs
  <2>2. QED BY <1>0, <2>1 DEF BeginAttempt, Calls
<1>1. TypeOK' BY <1>a DEF IInv, TypeOK, BeginAttempt
<1>2. LocksLeft'
  <2>1. call'.held = 0 /\ site' = site BY <1>0 DEF BeginAttempt, Calls
  <2>2. LastLock(site) \in Nat /\ 2 <= LastLock(site) BY <1>0, LocksOfSite
  <2>3. QED BY <2>1, <2>2 DEF LocksLeft
<1>3. (AttemptsLeft /\ WritesAtEnd /\ StopSeen)'
  BY <1>0 DEF IInv, Calls, BeginAttempt, AttemptsLeft, WritesAtEnd, StopSeen, Retrying, StopMode
<1>4. QED BY <1>1, <1>2, <1>3 DEF IInv

LEMMA CallStep_GetLock == ASSUME IInv, GetLock PROVE IInv'
<1> DEFINE n == call.held + 1
           root == n = Root(site)
<1>a. call \in Calls /\ row \in Rows /\ site \in Sites BY DEF IInv, TypeOK
<1>b. LastLock(site) \in Nat BY <1>a, LocksOfSite
<1>t. /\ call.held \in Nat /\ row.lease \in Ends /\ row.drain \in Ends
      /\ call.pc = "locking" /\ call.held < LastLock(site)
  BY <1>a DEF IInv, GetLock, LocksLeft, Calls, Rows
<1>1. CASE Done("lease_lost")
  BY <1>1, DoneInv DEF GetLock, Nexts, Outcomes, IInv, WritesAtEnd
<1>2. CASE ~Done("lease_lost")
  <2>1. call' = [call EXCEPT
              !.held = n, !.t = 0,
              !.fence = IF root THEN Lesser(row.lease, row.drain) ELSE @,
              !.pc = IF n = LastLock(site) THEN "working" ELSE @]
    BY <1>2 DEF GetLock
  <2>2. UNCHANGED <<now, site, row, aborted, applied>> BY DEF GetLock
  <2>3. Lesser(row.lease, row.drain) \in Ends BY <1>t DEF Lesser
  <2>4. n \in Nat /\ (n # LastLock(site) => n < LastLock(site)) BY <1>b, <1>t
  <2>a. call' \in Calls BY <1>a, <1>t, <2>1, <2>3, <2>4 DEF Calls, PCs
  <2>5. TypeOK' BY <2>a, <2>2 DEF IInv, TypeOK
  <2>6. LocksLeft' BY <1>a, <2>1, <2>2, <2>4 DEF LocksLeft, Calls
  <2>7. (AttemptsLeft /\ WritesAtEnd)'
    BY <1>a, <1>t, <2>1, <2>2 DEF IInv, AttemptsLeft, WritesAtEnd, Calls
  <2>8. StopSeen'
    BY <1>a, <1>t, <2>1, <2>2 DEF IInv, StopSeen, Retrying, StopMode, Calls
  <2>9. QED BY <2>5, <2>6, <2>7, <2>8 DEF IInv
<1>3. QED BY <1>1, <1>2

LEMMA CallStep_Ends == ASSUME IInv, Commit \/ Fail PROVE IInv'
<1>1. applied = 0 BY DEF IInv, WritesAtEnd, Commit, Fail
<1>2. applied' \in {0, 1} BY <1>1 DEF Commit, Fail
<1>3. PICK o \in {"committed", "lease_lost", "failed"} : Done(o)
  BY DEF Commit, Fail
<1>4. QED BY <1>2, <1>3, DoneInv DEF Commit, Fail, Nexts, Outcomes

LEMMA CallStep_TimesOut == ASSUME IInv, LockTimesOut \/ BackoffEnds PROVE IInv'
<1>1. applied \in {0, 1} /\ UNCHANGED <<now, site, row, aborted, applied>>
  BY DEF IInv, WritesAtEnd, LockTimesOut, BackoffEnds
<1>2. CASE \E o \in {"aborted", "exhausted"} : Done(o)
  BY <1>1, <1>2, DoneInv DEF Nexts, Outcomes
<1>3. CASE \E pc \in {"backoff", "reading"} : Goto(pc) /\ call.attempt < maxLeaseLockAttempts
                                                       /\ call.pc # "done"
  <2>1. PICK pc \in {"backoff", "reading"} : Goto(pc) BY <1>3
  <2>2. TypeOK' BY <1>1, <2>1 DEF IInv, TypeOK, Goto, Calls, PCs
  <2>3. (AttemptsLeft /\ LocksLeft /\ WritesAtEnd /\ StopSeen)'
    BY <1>1, <1>3, <2>1 DEF IInv, TypeOK, Calls, Goto, AttemptsLeft, LocksLeft, WritesAtEnd,
                           StopSeen, Retrying
  <2>4. QED BY <2>2, <2>3 DEF IInv
<1>4. QED BY <1>2, <1>3 DEF LockTimesOut, BackoffEnds, IInv, AttemptsLeft

LEMMA CallStep_Read == ASSUME IInv, ReadLease PROVE IInv'
<1> DEFINE end == Lesser(row.lease, row.drain)
<1>1. UNCHANGED <<now, site, row, aborted, applied>> /\ call.pc = "reading"
  BY DEF ReadLease
<1>2. end \in Ends BY DEF IInv, TypeOK, Rows, Lesser
<1>3. Verdict \in Nexts BY DEF Verdict, Nexts
<1>4. (IF Verdict = "retry" THEN LockWait(end) ELSE call.wait) \in 1..leaseLockWait
  <2>1. CASE Verdict = "retry"
    <3>1. LockWait(end) >= minimumRetryLockWait BY <2>1 DEF Verdict
    <3>2. end \in Nat /\ now \in Nat BY <1>2, Numbers DEF IInv, TypeOK, Ends
    <3>3. QED BY <2>1, <3>1, <3>2, WaitFits
  <2>2. CASE Verdict # "retry" BY <2>2 DEF IInv, TypeOK, Calls
  <2>3. QED BY <2>1, <2>2
<1>a. call \in Calls /\ row \in Rows /\ now \in 0..MaxTime BY DEF IInv, TypeOK
<1>b. call' \in Calls
  <2>1. 0 \in Nat /\ "deciding" \in PCs /\ "exhausted" \in Nexts BY DEF PCs, Nexts
  <2>2. QED BY <1>a, <1>2, <1>3, <1>4, <2>1 DEF ReadLease, Calls
<1>5. TypeOK' BY <1>1, <1>b DEF IInv, TypeOK
<1>6. (AttemptsLeft /\ LocksLeft /\ WritesAtEnd)'
  BY <1>1, <1>a DEF IInv, Calls, ReadLease, AttemptsLeft, LocksLeft, WritesAtEnd
<1>7. StopSeen'
  <2>1. Verdict = "retry" /\ StopMode => row.canceled = Never BY DEF Verdict
  <2>2. Never >= now /\ now \in 0..MaxTime BY Numbers DEF IInv, TypeOK
  <2>3. CASE /\ call'.pc = "deciding" /\ call'.next = Verdict /\ call'.readAt = now
    BY <1>1, <2>1, <2>2, <2>3 DEF StopSeen, Retrying, StopMode
  <2>4. CASE /\ call'.pc = "deciding" /\ call'.next = "exhausted" /\ call'.readAt = call.readAt
    BY <1>1, <2>4 DEF IInv, StopSeen, Retrying, StopMode
  <2>5. QED BY <1>a, <2>3, <2>4 DEF ReadLease, Calls
<1>8. QED BY <1>5, <1>6, <1>7 DEF IInv

LEMMA CallStep_Decide == ASSUME IInv, Decide PROVE IInv'
<1>1. UNCHANGED <<now, site, row, aborted, applied>> /\ call.pc = "deciding" /\ applied \in {0, 1}
  BY DEF Decide, IInv, WritesAtEnd
<1>2. CASE Done("aborted") BY <1>1, <1>2, DoneInv DEF Outcomes
<1>3. CASE Done(call.next)
  BY <1>1, <1>3, DoneInv DEF IInv, TypeOK, Calls, Outcomes
<1>4. CASE call.next = "retry" /\ call' = [call EXCEPT !.pc = "starting", !.attempt = @ + 1]
  <2>0. call \in Calls /\ call.attempt + 1 \in 1..maxLeaseLockAttempts
    BY <1>1, Numbers DEF IInv, TypeOK, AttemptsLeft, Calls
  <2>a. call' \in Calls BY <2>0, <1>4 DEF Calls, PCs
  <2>1. TypeOK' BY <1>1, <2>a DEF IInv, TypeOK
  <2>2. (AttemptsLeft /\ LocksLeft /\ WritesAtEnd)'
    BY <1>1, <1>4, <2>0 DEF IInv, Calls, AttemptsLeft, LocksLeft, WritesAtEnd
  <2>3. StopSeen' BY <1>1, <1>4, <2>0 DEF IInv, Calls, StopSeen, Retrying, StopMode
  <2>4. QED BY <2>1, <2>2, <2>3 DEF IInv
<1>5. QED BY <1>2, <1>3, <1>4 DEF Decide

\* Other transactions never take a cancel request back, nor date one before now.
LEMMA Environment ==
    ASSUME IInv, RunnerReturns \/ RequestCancel \/ OtherHeartbeat \/ LosesJob
    PROVE  IInv'
<1>1. UNCHANGED <<now, site, call, applied>>
  BY DEF RunnerReturns, RequestCancel, OtherHeartbeat, LosesJob
<1>2. aborted' \in BOOLEAN
  BY DEF IInv, TypeOK, RunnerReturns, RequestCancel, OtherHeartbeat, LosesJob
<1>3. /\ row' \in Rows
      /\ row'.canceled = row.canceled \/ row'.canceled = now
  <2>1. CASE RunnerReturns BY <2>1 DEF IInv, TypeOK, Rows, RunnerReturns
  <2>2. CASE RequestCancel BY <2>2 DEF IInv, TypeOK, Rows, RequestCancel
  <2>3. CASE OtherHeartbeat
    <3>1. now + LeaseLength \in Ends
      BY Numbers DEF IInv, TypeOK, Ends
    <3>2. row.canceled # Never =>
            /\ row.canceled + DrainWindow \in Ends
            /\ Lesser(row.canceled + DrainWindow, now + LeaseLength) \in Ends
      BY <3>1, Numbers DEF IInv, TypeOK, Rows, Ends, Lesser
    <3>3. QED BY <2>3, <3>1, <3>2 DEF IInv, TypeOK, Rows, OtherHeartbeat
  <2>4. CASE LosesJob BY <2>4 DEF IInv, TypeOK, Rows, LosesJob
  <2>5. QED BY <2>1, <2>2, <2>3, <2>4
<1>4. TypeOK' BY <1>1, <1>2, <1>3 DEF IInv, TypeOK
<1>5. (AttemptsLeft /\ LocksLeft /\ WritesAtEnd)'
  BY <1>1 DEF IInv, AttemptsLeft, LocksLeft, WritesAtEnd
<1>6. StopSeen'
  BY <1>1, <1>3, Numbers DEF IInv, TypeOK, Rows, Calls, StopSeen, Retrying, StopMode
<1>7. QED BY <1>4, <1>5, <1>6 DEF IInv

LEMMA TimePasses == ASSUME IInv, Tick PROVE IInv'
<1>1. TypeOK' BY Numbers DEF IInv, TypeOK, Calls, Tick
<1>2. (AttemptsLeft /\ LocksLeft /\ WritesAtEnd)'
  BY DEF IInv, TypeOK, Calls, Tick, AttemptsLeft, LocksLeft, WritesAtEnd
<1>3. StopSeen' BY Numbers DEF IInv, TypeOK, Calls, Tick, StopSeen, Retrying, StopMode
<1>4. QED BY <1>1, <1>2, <1>3 DEF IInv

LEMMA Stutter == ASSUME IInv, UNCHANGED vars PROVE IInv'
  BY DEF vars, IInv, TypeOK, AttemptsLeft, LocksLeft, WritesAtEnd, StopSeen, Retrying, StopMode

LEMMA StepInv == IInv /\ [Next]_vars => IInv'
  BY CallStep_Begin, CallStep_GetLock, CallStep_Ends, CallStep_TimesOut, CallStep_Read,
     CallStep_Decide, Environment, TimePasses, Stutter DEF Next, CallStep

\* The inductive invariant of the retry loop holds in every reachable state.
THEOREM RetryInvariance == Spec => []IInv
  BY InitInv, StepInv, PTL DEF Spec

\* Every reachable state of the retry loop is well typed; in particular no call
\* makes more than maxLeaseLockAttempts attempts, each with a wait of at least one
\* unit and at most leaseLockWait.
THEOREM RetryTypeCorrect == Spec => []TypeOK
  BY RetryInvariance, PTL DEF IInv

\* An event is written at most once, whatever fails.
THEOREM WritesOnce == Spec => []AppliedOnce
<1>1. IInv => AppliedOnce BY DEF IInv, WritesAtEnd, AppliedOnce
<1>2. QED BY <1>1, RetryInvariance, PTL

\* No heartbeat is tried again against a cancel committed before it looked.
THEOREM StopsRetrying == Spec => []StopEndsRetries
<1>1. IInv => StopEndsRetries BY DEF IInv, StopSeen, Retrying, StopEndsRetries
<1>2. QED BY <1>1, RetryInvariance, PTL

\* No heartbeat is tried again after its runner has returned.
THEOREM ReturnsForGood == Spec => NoRetryAfterReturn
<1>1. IInv /\ [Next]_vars => [aborted => call'.attempt = call.attempt]_vars
  <2> SUFFICES ASSUME IInv, Next, aborted PROVE call'.attempt = call.attempt
    BY DEF vars
  <2>1. call \in Calls BY DEF IInv, TypeOK
  <2>2. QED BY <2>1 DEF Next, CallStep, BeginAttempt, GetLock, Commit, Fail, LockTimesOut,
             BackoffEnds, ReadLease, Decide, Tick, RunnerReturns, RequestCancel,
             OtherHeartbeat, LosesJob, Done, Goto, FirstAttempt, Calls
<1>2. QED BY <1>1, RetryInvariance, PTL DEF Spec, NoRetryAfterReturn

-----------------------------------------------------------------------------
(* Retries inside the lease *)

\* What the way to the first lock takes is kept ahead of the lease's end.
ReserveSuffices == MaxDelay < leaseRetryReserve

\* The fields InBudget speaks of, as numbers.
LEMMA Fields ==
    ASSUME IInv
    PROVE  /\ now \in Int /\ call.wait \in Int /\ call.wait >= 1 /\ call.held \in Int
           /\ call.held >= 0 /\ call.held \in Nat /\ call.wait \in Nat /\ site \in Sites /\ call.t \in Int /\ call.t >= 0 /\ call.end \in Int
           /\ call.readAt \in Int /\ call.attempt \in Int /\ call \in Calls
  BY Numbers DEF IInv, TypeOK, Calls, Ends

LEMMA BudgetInit == Init => InBudget
  BY DEF Init, FirstAttempt, InBudget, Retrying

\* A read that allows a retry measured what is left of the lease.
LEMMA BudgetRead == ASSUME IInv, InBudget, ReadLease PROVE InBudget'
<1> DEFINE end == Lesser(row.lease, row.drain)
<1>1. now' = now /\ call'.pc = "deciding" /\ call'.t = 0
  BY Fields DEF ReadLease, Calls
<1>2. CASE call'.next # "retry" BY <1>1, <1>2 DEF InBudget, Retrying
<1>3. CASE call'.next = "retry"
  <2>1. /\ Verdict = "retry" /\ call'.wait = LockWait(end)
        /\ call'.readAt = now /\ call'.end = end
    BY <1>3, Fields DEF ReadLease, Calls
  <2>2. LockWait(end) >= minimumRetryLockWait BY <2>1 DEF Verdict
  <2>3. end \in Nat /\ now \in Nat
    BY Numbers DEF IInv, TypeOK, Rows, Ends, Lesser
  <2>4. 3 * LockWait(end) + leaseRetryReserve <= end - now BY <2>2, <2>3, WaitFits
  <2>5. QED BY <1>1, <2>1, <2>3, <2>4, Numbers DEF InBudget, Retrying
<1>4. QED BY <1>2, <1>3

LEMMA BudgetTick == ASSUME IInv, InBudget, Tick PROVE InBudget'
<1>1. /\ now' = now + 1 /\ call'.t = call.t + 1 /\ call'.pc = call.pc
      /\ call'.next = call.next /\ call'.attempt = call.attempt /\ call'.wait = call.wait
      /\ call'.held = call.held /\ call'.end = call.end /\ call'.readAt = call.readAt
  BY Fields DEF Tick, Calls
<1>2. call.pc = "locking" => call.t + 1 <= call.wait /\ ~NoWait(site, call.held + 1)
  BY Fields DEF Tick, Limit
<1>3. call.pc \in {"starting", "deciding"} => call.t + 1 <= MaxDelay
  BY Fields, Numbers DEF Tick, Limit
<1>4. call.pc = "locking" => Waits(site, call.held) * call.wait \in Int
  BY Fields, WaitsOfSite DEF IInv, LocksLeft
<1>s. site' = site BY DEF Tick
<1>5. QED BY <1>s, <1>1, <1>2, <1>3, <1>4, Fields, Numbers DEF InBudget, Retrying

LEMMA BudgetLock == ASSUME IInv, InBudget, GetLock PROVE InBudget'
<1>0. CASE Done("lease_lost")
  BY <1>0 DEF Done, FirstAttempt, InBudget, Retrying
<1>1. CASE ~Done("lease_lost") /\ call'.pc # "locking"
  <2>1. call'.pc = "working" BY <1>1, Fields DEF GetLock, Calls
  <2>2. QED BY <2>1 DEF InBudget, Retrying
<1>2. CASE call'.pc = "locking"
  <2>1. /\ now' = now /\ call.pc = "locking" /\ call'.t = 0 /\ call'.held = call.held + 1
        /\ call'.attempt = call.attempt /\ call'.wait = call.wait /\ site' = site
        /\ call'.end = call.end /\ call'.readAt = call.readAt
    BY <1>2, Fields DEF GetLock, Done, FirstAttempt, Calls
  <2> DEFINE w == Waits(site, call.held)
  <2>2. /\ w \in Nat
        /\ Waits(site, call.held + 1) = IF NoWait(site, call.held + 1) THEN w ELSE w + 1
    BY <2>1, Fields, WaitsOfSite DEF IInv, LocksLeft
  <2>3. (w + 1) * call.wait = w * call.wait + call.wait /\ w * call.wait \in Int
    BY <2>2, Fields
  <2>4. Retrying => w * call.wait + call.t <= Waits(site, call.held + 1) * call.wait
    <3> HIDE DEF w
    <3>1. CASE NoWait(site, call.held + 1)
      BY <2>1, <2>2, <2>3, <3>1, Fields DEF InBudget, w
    <3>2. CASE ~NoWait(site, call.held + 1)
      BY <2>1, <2>2, <2>3, <3>2, Fields DEF InBudget, w
    <3>3. QED BY <3>1, <3>2
  <2>5. Waits(site, call.held + 1) * call.wait \in Int BY <2>2, <2>3, Fields
  <2>6. QED BY <1>2, <2>1, <2>3, <2>4, <2>5, Fields, Numbers DEF InBudget, Retrying
<1>3. QED BY <1>0, <1>1, <1>2

LEMMA BudgetStep == ASSUME IInv, InBudget, [Next]_vars PROVE InBudget'
<1>1. CASE BeginAttempt
  <2>1. /\ now' = now /\ call.pc = "starting" /\ call'.t = 0 /\ call'.held = 0
        /\ call'.pc = "locking" /\ call'.attempt = call.attempt /\ call'.wait = call.wait
        /\ call'.end = call.end /\ call'.readAt = call.readAt
    BY <1>1, Fields DEF BeginAttempt, Calls
  <2>2. Waits(site, 0) * call.wait = 0 /\ site' = site
    <3>1. FirstLocks(site) \in Nat BY Fields, LocksOfSite
    <3>2. QED BY <1>1, <3>1, Fields DEF Waits, BeginAttempt
  <2>3. QED BY <2>1, <2>2, Fields, Numbers DEF InBudget, Retrying
<1>2. CASE Commit \/ Fail \/ LockTimesOut \/ BackoffEnds
  <2>1. call'.pc \in {"done", "backoff", "reading"}
    BY <1>2, Fields DEF Commit, Fail, LockTimesOut, BackoffEnds, Done, Goto, FirstAttempt, Calls
  <2>2. QED BY <2>1 DEF InBudget, Retrying
<1>3. CASE Decide
  <2>1. CASE call'.pc = "done" BY <2>1 DEF InBudget, Retrying
  <2>2. CASE call.next = "retry" /\ call' = [call EXCEPT !.pc = "starting", !.attempt = @ + 1]
    <3>1. /\ now' = now /\ call.pc = "deciding" /\ call'.t = call.t /\ call'.pc = "starting"
          /\ call'.wait = call.wait /\ call'.end = call.end /\ call'.readAt = call.readAt
      BY <1>3, <2>2, Fields DEF Decide, Calls
    <3>2. QED BY <2>2, <3>1, Fields DEF InBudget, Retrying
  <2>3. QED BY <1>3, <2>1, <2>2, Fields DEF Decide, Done, FirstAttempt
<1>4. CASE RunnerReturns \/ RequestCancel \/ OtherHeartbeat \/ LosesJob \/ UNCHANGED vars
  <2>1. UNCHANGED <<now, site, call>>
    BY <1>4 DEF RunnerReturns, RequestCancel, OtherHeartbeat, LosesJob, vars
  <2>2. QED BY <2>1 DEF InBudget, Retrying
<1>5. QED BY <1>1, <1>2, <1>3, <1>4, BudgetRead, BudgetTick, BudgetLock DEF Next, CallStep

\* The waits an attempt can make, less those in excess, fit into what it measured.
LEMMA BudgetSuffices == ASSUME IInv, InBudget, ReserveSuffices PROVE RetryWaitsBounded
<1> SUFFICES ASSUME call.attempt > 1, call.pc = "locking"
             PROVE  now < call.end + ExcessWaits(site) * call.wait
  BY DEF RetryWaitsBounded
<1> DEFINE w == Waits(site, call.held)
           last == Waits(site, LastLock(site))
<1>1. Retrying BY DEF Retrying
<1>2. /\ w \in Nat /\ last \in Nat /\ Waits(site, call.held + 1) <= last
      /\ Waits(site, call.held + 1) = IF NoWait(site, call.held + 1) THEN w ELSE w + 1
  BY Fields, WaitsOfSite DEF IInv, LocksLeft
<1>e. ExcessWaits(site) = IF last > 3 THEN last - 3 ELSE 0
  BY DEF ExcessWaits, contendedLockWaits
<1> HIDE DEF w, last
<1>3. w * call.wait + call.t <= last * call.wait
  <2>1. call.t <= call.wait /\ (NoWait(site, call.held + 1) => call.t = 0)
    BY <1>1 DEF InBudget
  <2>2. CASE NoWait(site, call.held + 1)
    <3>1. w * call.wait <= last * call.wait BY <1>2, <2>2, Monotone, Fields
    <3>2. QED BY <2>1, <2>2, <3>1, <1>2, Fields
  <2>3. CASE ~NoWait(site, call.held + 1)
    <3>1. (w + 1) * call.wait <= last * call.wait BY <1>2, <2>3, Monotone, Fields
    <3>2. (w + 1) * call.wait = w * call.wait + call.wait BY <1>2, Fields
    <3>3. QED BY <2>1, <3>1, <3>2, <1>2, Fields
  <2>4. QED BY <2>2, <2>3
<1>4. last * call.wait <= 3 * call.wait + ExcessWaits(site) * call.wait
  <2>1. CASE last > 3
    <3>1. (last - 3) * call.wait = last * call.wait - 3 * call.wait BY <1>2, Fields
    <3>2. QED BY <1>e, <2>1, <3>1, <1>2, Fields
  <2>2. CASE last <= 3
    <3>1. last * call.wait <= 3 * call.wait BY <1>2, <2>2, Monotone, Fields
    <3>2. ExcessWaits(site) = 0 BY <1>e, <1>2, <2>2
    <3>3. QED BY <3>1, <3>2, Fields
  <2>3. QED BY <1>2, <2>1, <2>2
<1>5. /\ w * call.wait \in Int /\ last * call.wait \in Int
      /\ ExcessWaits(site) * call.wait \in Int
  BY <1>2, <1>e, Fields
<1>6. /\ 3 * call.wait + leaseRetryReserve <= call.end - call.readAt
      /\ now <= call.readAt + MaxDelay + w * call.wait + call.t
  BY <1>1 DEF InBudget, w
<1>7. QED BY <1>3, <1>4, <1>5, <1>6, Fields, Numbers DEF ReserveSuffices

\* Whatever the lease, the drain window, the number of admission locks and the
\* skew of the hosts, a retried heartbeat or event write of every kind is past its
\* lock waits no later than the uncounted ones take beyond the end of the lease it
\* read (inside the lease, where there are none), provided that the way to its
\* first lock takes less than the reserve.
THEOREM RetriesBounded == ASSUME ReserveSuffices PROVE Spec => []RetryWaitsBounded
<1>1. Init => IInv /\ InBudget BY InitInv, BudgetInit
<1>2. (IInv /\ InBudget) /\ [Next]_vars => (IInv /\ InBudget)' BY StepInv, BudgetStep
<1>3. IInv /\ InBudget => RetryWaitsBounded BY BudgetSuffices
<1>4. QED BY <1>1, <1>2, <1>3, PTL DEF Spec
===============================================================================
