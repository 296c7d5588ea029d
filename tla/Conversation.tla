----------------------------- MODULE Conversation -----------------------------
(***************************************************************************)
(* Runs of one chat session on several workers.  handler[r][a] is the      *)
(* employee-run handler of attempt a of run r inside its job runner; each  *)
(* of its steps is one transaction or one call to the native harness.  The *)
(* harness is external: it takes prompts, adopts steered inputs at most    *)
(* once per thread (its own journal knows the input's id) and may ask the  *)
(* user a question, on which the run can be parked.                        *)
(***************************************************************************)
EXTENDS ConversationStore

CONSTANTS
    Slots,            \* handlers one worker runs at a time
    Stalling,         \* the runs whose handlers may outlive their lease
    CheckedDelivery,  \* runs carry the checked final delivery policy
    Portless,         \* the runs an attempt of which may lack the question-wait port:
                      \* in the timed question mode, which an administrator may switch
    Questions,        \* the harness asks questions
    LongWaits         \* an input may wait its 24 hours

ASSUME ConversationAssumption ==
    /\ Slots \in Nat \ {0}
    /\ Stalling \subseteq Runs /\ Portless \subseteq Runs
    /\ {CheckedDelivery, Questions, LongWaits} \subseteq BOOLEAN

VARIABLES
    db,       \* the session's rows
    handler,  \* handler[r][a]
    native    \* what the harness knows of every input

vars == <<db, handler, native>>

PCs == {"none", "starting", "acquiring", "preparing", "dispatching", "binding", "checking",
        "prompting", "consuming", "continuing", "recording", "announcing", "turn", "draining",
        "parking", "finishing", "completing", "releasing", "failing", "gone"}

NoHandler == [pc |-> "none", worker |-> None, gen |-> 0, steer |-> None,
              reply |-> "none", retry |-> FALSE, resume |-> FALSE,
              port |-> FALSE]

TypeOK ==
    /\ db \in Stores
    /\ handler \in [Runs -> [Attempts ->
           [pc : PCs, worker : Workers \cup {None}, gen : 0..MaxGeneration,
            steer : Runs \cup {None}, reply : {"none", "adopted", "later", "no"},
            retry : BOOLEAN, resume : BOOLEAN, port : BOOLEAN]]]
    /\ native \in [prompts : [Runs -> SUBSET Attempts],
                   adopted : [Runs -> SUBSET (1..MaxGeneration)],
                   asked : [Runs -> {"no", "open", "closed"}]]

Init ==
    /\ db = EmptyStore
    /\ handler = [r \in Runs |-> [a \in Attempts |-> NoHandler]]
    /\ native = [prompts |-> [r \in Runs |-> {}], adopted |-> [r \in Runs |-> {}],
                 asked |-> [r \in Runs |-> "no"]]

-----------------------------------------------------------------------------
(* The user *)

Submit(r) ==
    /\ db.job[r].status = "absent" /\ \A q \in 1..(r - 1) : db.job[q].status # "absent"
    /\ \E mode \in Delivery(db), kind \in {"steer_current", "ask_user"} :
         /\ kind = "ask_user" => mode = "steer_only" /\ native.asked[db.rt.run] # "no"
         /\ db' = Submitted(db, r, mode, kind)
    /\ UNCHANGED <<handler, native>>

UpdateQueuedMessage(r) ==
    /\ QueuedMessage(db, r)
    /\ \/ db' = RemoveQueued(db, r)
       \/ CanSteerQueued(db) /\ db' = SteerQueued(db, r)
    /\ UNCHANGED <<handler, native>>

\* cancelRun only records the request on the job.
CancelRun(r) ==
    /\ Live(db, r) /\ ~db.job[r].cancel
    /\ db' = [db EXCEPT !.job[r].cancel = TRUE]
    /\ UNCHANGED <<handler, native>>

-----------------------------------------------------------------------------
(* A worker's handler, up to its turn *)

Running(w) == {p \in Runs \X Attempts :
                 LET h == handler[p[1]][p[2]] IN h.worker = w /\ h.pc \notin {"none", "gone"}}

Goto(r, a, pc) == handler' = [handler EXCEPT ![r][a].pc = pc]

Gone == [NoHandler EXCEPT !.pc = "gone"]
Returns(r, a) == handler' = [handler EXCEPT ![r][a] = Gone]

\* The handler throws: the runtime is released, then the job failed.
Throw(r, a, retryable) ==
    handler' = [handler EXCEPT ![r][a] =
                  [NoHandler EXCEPT !.pc = "releasing", !.worker = handler[r][a].worker,
                                    !.retry = retryable]]

ClaimNextJob(w, r) ==
    /\ Claimable(db, r) /\ Cardinality(Running(w)) < Slots
    /\ db.job[r].attempt < MaxAttempts
    /\ db' = Claimed(db, r, w)
    /\ handler' = [handler EXCEPT ![r][db.job[r].attempt + 1] =
                     [NoHandler EXCEPT !.pc = "starting", !.worker = w]]
    /\ UNCHANGED native

\* startClaimedJob ends a canceled claim; a handler that lost its claim returns.
StartClaimedJob(r, a) ==
    /\ handler[r][a].pc = "starting"
    /\ \/ ~Holds(db, r, a) /\ Returns(r, a) /\ UNCHANGED db
       \/ /\ Holds(db, r, a) /\ db.job[r].cancel
          /\ db' = TransitionTerminal(db, r, "canceled") /\ Returns(r, a)
       \/ LockOwner(db, r, a) /\ Goto(r, a, "acquiring") /\ UNCHANGED db
    /\ UNCHANGED native

\* A busy conversation fails the attempt before there is anything to release.
Acquire(r, a) ==
    /\ handler[r][a].pc = "acquiring"
    /\ \/ /\ CanAcquire(db, r)
          /\ \E changed \in {FALSE} \cup {db.rt.run # r /\ db.rt.gen < MaxGeneration} :
               db' = Acquired(db, r, handler[r][a].worker, changed)
          /\ handler' = [handler EXCEPT ![r][a] =
                           [@ EXCEPT !.pc = "preparing", !.gen = db.rt.gen]]
       \/ /\ ~CanAcquire(db, r)
          /\ handler' = [handler EXCEPT ![r][a] = [@ EXCEPT !.pc = "failing", !.retry = TRUE]]
          /\ UNCHANGED db
    /\ UNCHANGED native

\* Routing and preparation may fail.  Without the port the next step is the thread.
\* With it, a run whose question was answered takes the answer first, if the turn
\* that was parked is still the open one (readNativeQuestionWait,
\* claimConversationSteer).
Prepare(r, a) ==
    LET h == handler[r][a]
        parkedTurn == db.rt.turn # None /\ db.dispatch[r][db.rt.turn] = "parked"
        take == IF /\ TurnAlive(db, h.worker) /\ ~db.job[db.rt.run].cancel /\ db.rt.run = r
                   /\ parkedTurn
                THEN Takeable(db, h.gen, TRUE) ELSE {}
    IN
    /\ h.pc = "preparing"
    /\ \/ \E retryable \in BOOLEAN : Throw(r, a, retryable) /\ UNCHANGED db
       \/ r \in Portless /\ Goto(r, a, "binding") /\ UNCHANGED db
       \/ ~LockOwner(db, r, a) /\ Throw(r, a, FALSE) /\ UNCHANGED db
       \/ /\ LockOwner(db, r, a) /\ db.wait[r] \in {"none", "continued"}
          /\ handler' = [handler EXCEPT ![r][a] =
                           [@ EXCEPT !.pc = "dispatching", !.port = TRUE]]
          /\ UNCHANGED db
       \/ /\ LockOwner(db, r, a) /\ db.wait[r] = "ready"
          /\ IF take = {} THEN Throw(r, a, FALSE) /\ UNCHANGED db
             ELSE /\ db' = Taken(db, Min(take), h.worker)
                  /\ IF db.cmd[Min(take)].kind # "ask_user" THEN Throw(r, a, FALSE)
                     ELSE handler' = [handler EXCEPT ![r][a] =
                            [@ EXCEPT !.pc = "dispatching", !.port = TRUE,
                                      !.resume = TRUE, !.steer = Min(take)]]
    /\ UNCHANGED native

\* Mutant: an earlier dispatch of the run is no obstacle.
BeginNativeTask_Again(r, a) ==
    /\ handler[r][a].pc = "dispatching" /\ LockOwner(db, r, a)
    /\ db' = [db EXCEPT !.dispatch[r][a] = "started"] /\ Goto(r, a, "binding")
    /\ UNCHANGED native

\* beginNativeTaskWithStopReceipt, of an attempt with the port: a dispatch whose end
\* nobody recorded bars another one.
BeginNativeTask(r, a) ==
    /\ handler[r][a].pc = "dispatching"
    /\ IF LockOwner(db, r, a) /\ \A b \in Attempts : db.dispatch[r][b] # "started"
       THEN db' = [db EXCEPT !.dispatch[r][a] = "started"] /\ Goto(r, a, "binding")
       ELSE Throw(r, a, FALSE) /\ UNCHANGED db
    /\ UNCHANGED native

\* The session's thread is resumed if there is one and it can be.
BindThread(r, a) ==
    LET h == handler[r][a] IN
    /\ h.pc = "binding"
    /\ \/ \E retryable \in BOOLEAN : Throw(r, a, retryable) /\ UNCHANGED db
       \/ ~OwnsRuntime(db, r, h.worker) /\ Throw(r, a, FALSE) /\ UNCHANGED db
       \/ /\ OwnsRuntime(db, r, h.worker)
          /\ \E new \in BOOLEAN :
               /\ new => db.rt.gen < MaxGeneration /\ ~h.resume
               /\ new \/ db.rt.thread # None
               /\ db' = Bound(db, new)
               /\ handler' = [handler EXCEPT ![r][a] =
                     [@ EXCEPT !.pc = "checking", !.gen = db'.rt.gen]]
    /\ UNCHANGED native

\* A checked run that has opened a turn is not prompted again.
ReadOrigin(r, a) ==
    /\ handler[r][a].pc = "checking"
    /\ IF CheckedDelivery /\ ~handler[r][a].resume /\ \E t \in db.turns : t[1] = r
       THEN Throw(r, a, FALSE) ELSE Goto(r, a, "prompting")
    /\ UNCHANGED <<db, native>>

\* bindJobNativeSession checks lease, owner and thread once more, then the prompt
\* (or the answer: answerWait) goes out.
PromptNative(r, a) ==
    LET h == handler[r][a] IN
    /\ h.pc = "prompting"
    /\ IF LockOwner(db, r, a) /\ OwnsRuntime(db, r, h.worker) /\ db.rt.thread = h.gen
       THEN /\ native' = IF h.resume
                         THEN [native EXCEPT !.adopted[h.steer] = @ \cup {h.gen},
                                             !.asked[r] = "closed"]
                         ELSE [native EXCEPT !.prompts[r] = @ \cup {a}]
            /\ Goto(r, a, IF h.resume THEN "consuming" ELSE "recording")
       ELSE Throw(r, a, FALSE) /\ UNCHANGED native
    /\ UNCHANGED db

\* The answer the harness adopted is settled before its segment continues.
ConsumeAnswer(r, a) ==
    LET h == handler[r][a] IN
    /\ h.pc = "consuming"
    /\ db' = Consumed(db, h.steer, h.worker)
    /\ handler' = [handler EXCEPT ![r][a] = [@ EXCEPT !.pc = "continuing", !.steer = None]]
    /\ UNCHANGED native

\* continueNativeQuestion; then the harness continues (continueWait).
ContinueNativeQuestion(r, a) ==
    /\ handler[r][a].pc = "continuing"
    /\ IF LockOwner(db, r, a) /\ db.wait[r] = "ready"
       THEN /\ db' = [db EXCEPT !.wait[r] = "continued"]
            /\ handler' = [handler EXCEPT ![r][a] =
                             [@ EXCEPT !.pc = "recording", !.resume = FALSE]]
       ELSE Throw(r, a, FALSE) /\ UNCHANGED db
    /\ UNCHANGED native

\* recordConversationTurn: the turn the prompt or the answer opened, on the thread
\* it was sent to.
RecordTurn(r, a) ==
    LET h == handler[r][a] IN
    /\ h.pc = "recording"
    /\ IF OwnsRuntime(db, r, h.worker) /\ db.rt.thread = h.gen
       THEN db' = [db EXCEPT !.rt.turn = a] /\ Goto(r, a, "announcing")
       ELSE Throw(r, a, FALSE) /\ UNCHANGED db
    /\ UNCHANGED native

\* turn.started is appended under the lease.
AnnounceTurn(r, a) ==
    /\ handler[r][a].pc = "announcing"
    /\ IF Holds(db, r, a)
       THEN /\ db' = [db EXCEPT !.turns = @ \cup {<<r, a, handler[r][a].gen>>}]
            /\ Goto(r, a, "turn")
       ELSE Throw(r, a, FALSE) /\ UNCHANGED db
    /\ UNCHANGED native

-----------------------------------------------------------------------------
(* The turn: steering, questions *)

InTurn(r, a) == handler[r][a].pc \in {"turn", "draining"}

\* claimConversationSteer: fenced by run, worker and generation.
ClaimSteer(r, a) ==
    LET h == handler[r][a]  take == Takeable(db, h.gen, FALSE) IN
    /\ InTurn(r, a) /\ h.steer = None
    /\ TurnAlive(db, h.worker) /\ db.rt.run = r /\ db.rt.gen = h.gen
    /\ ~db.job[r].cancel /\ take # {}
    /\ db' = Taken(db, Min(take), h.worker)
    /\ handler' = [handler EXCEPT ![r][a].steer = Min(take)]
    /\ UNCHANGED native

\* adapter.steer: the harness adopts the input, or not yet, or refuses it; an
\* answer to a question closes it.  The reply may be lost, and adoption may have
\* happened whatever it says, except that "adopted" is proof.
SteerNative(r, a) ==
    LET h == handler[r][a]  s == h.steer IN
    /\ s # None /\ h.reply = "none" /\ h.pc \in {"turn", "draining", "parking"}
    /\ \E reply \in {"adopted", "later", "no"}, adopts \in BOOLEAN :
         /\ adopts => h.pc # "parking"
         /\ adopts /\ db.cmd[s].kind = "ask_user" => native.asked[r] = "open"
         /\ reply = "adopted" => adopts \/ h.gen \in native.adopted[s]
         /\ native' = IF ~adopts THEN native
                      ELSE [native EXCEPT !.adopted[s] = @ \cup {h.gen},
                              !.asked[r] = IF db.cmd[s].kind = "ask_user" THEN "closed" ELSE @]
         /\ handler' = [handler EXCEPT ![r][a].reply = reply]
    /\ UNCHANGED db

\* Mutant: an input whose adoption is uncertain is given back as adopted.
SettleSteer_Optimistic(r, a) ==
    LET h == handler[r][a] IN
    /\ h.reply # "none"
    /\ db' = Consumed(db, h.steer, h.worker)
    /\ handler' = [handler EXCEPT ![r][a] = [@ EXCEPT !.steer = None, !.reply = "none"]]
    /\ UNCHANGED native

SettleSteer(r, a) ==
    LET h == handler[r][a] IN
    /\ h.reply # "none"
    /\ db' = CASE h.reply = "adopted" -> Consumed(db, h.steer, h.worker)
               [] h.reply = "later"   -> Deferred(db, h.steer, h.worker)
               [] h.reply = "no"      -> Rejected(db, h.steer, h.worker)
    /\ handler' = [handler EXCEPT ![r][a] = [@ EXCEPT !.steer = None, !.reply = "none"]]
    /\ UNCHANGED native

\* The harness asks the user.
AskUser(r, a) ==
    /\ Questions /\ handler[r][a].pc = "turn" /\ native.asked[r] = "no"
    /\ native' = [native EXCEPT !.asked[r] = "open"]
    /\ UNCHANGED <<db, handler>>

\* Mutant: the handler's finally block releases a parked run's runtime, too.
ParkNativeQuestion_Releases(r, a) ==
    LET h == handler[r][a] IN
    /\ h.pc = "turn" /\ h.port /\ native.asked[r] = "open" /\ db.wait[r] = "none"
    /\ LockOwner(db, r, a) /\ OwnsRuntime(db, r, h.worker)
    /\ db' = ReleaseRuntime([db EXCEPT
                !.job[r] = [@ EXCEPT !.status = "parked", !.worker = None, !.lease = FALSE],
                !.wait[r] = "parked", !.dispatch[r][a] = "parked"])
    /\ Goto(r, a, "parking")
    /\ UNCHANGED native

\* parkNativeQuestion: the run waits without a process; the runtime stays its.
ParkNativeQuestion(r, a) ==
    LET h == handler[r][a] IN
    /\ h.pc = "turn" /\ h.port /\ native.asked[r] = "open" /\ db.wait[r] = "none"
    /\ LockOwner(db, r, a) /\ OwnsRuntime(db, r, h.worker)
    /\ db.rt.turn = a /\ db.rt.gen = h.gen
    /\ db' = [db EXCEPT !.job[r] = [@ EXCEPT !.status = "parked", !.worker = None,
                                             !.lease = FALSE],
                        !.wait[r] = "parked", !.dispatch[r][a] = "parked"]
    /\ Goto(r, a, "parking")
    /\ UNCHANGED native

\* The native turn ends, well or not; the steer loop finishes what it has in
\* hand, and the inputs still open get a last chance.  A timed question does not
\* hold the turn up for good.
NativeTurnEnds(r, a) ==
    LET h == handler[r][a] IN
    /\ h.steer = None
    /\ \/ h.pc = "turn" /\ (h.port => native.asked[r] # "open") /\ Goto(r, a, "draining")
       \/ h.pc = "parking" /\ Returns(r, a)
    /\ UNCHANGED <<db, native>>

DrainEnds(r, a) ==
    /\ handler[r][a].pc = "draining" /\ handler[r][a].steer = None
    /\ \/ Goto(r, a, "finishing")
       \/ \E retryable \in BOOLEAN : Throw(r, a, retryable)
    /\ UNCHANGED <<db, native>>

-----------------------------------------------------------------------------
(* The end of a handler *)

\* completeNativeTask, of an attempt with the port, and turn.completed under the
\* lease; then completeJob by the runner.
CompleteNativeTask(r, a) ==
    LET h == handler[r][a] IN
    /\ h.pc = "finishing"
    /\ IF Holds(db, r, a) /\ (h.port => ~db.job[r].cancel)
       THEN /\ db' = [db EXCEPT !.dispatch[r][a] =
                         IF h.port /\ @ = "started" THEN "completed" ELSE @]
            /\ Goto(r, a, "completing")
       ELSE Throw(r, a, FALSE) /\ UNCHANGED db
    /\ UNCHANGED native

CompleteJob(r, a) ==
    /\ handler[r][a].pc = "completing"
    /\ \/ /\ Holds(db, r, a)
          /\ db' = TransitionTerminal(db, r, IF db.job[r].cancel THEN "canceled" ELSE "succeeded")
          /\ Returns(r, a)
       \/ ~Holds(db, r, a) /\ Returns(r, a) /\ UNCHANGED db
       \/ /\ handler' = [handler EXCEPT ![r][a] = [@ EXCEPT !.pc = "failing", !.retry = FALSE]]
          /\ UNCHANGED db
    /\ UNCHANGED native

\* An abort (the lease is lost, a stop is requested) interrupts the handler
\* wherever it is, once its steer loop has settled.
Abort(r, a) ==
    /\ handler[r][a].pc \in {"preparing", "dispatching", "binding", "checking", "prompting",
                             "consuming", "continuing", "recording", "announcing", "turn",
                             "draining", "finishing"}
    /\ handler[r][a].reply = "none" /\ (InTurn(r, a) => handler[r][a].steer = None)
    /\ ~LockOwner(db, r, a)
    /\ Throw(r, a, FALSE)
    /\ UNCHANGED <<db, native>>

\* The finally block: the runtime is released if run and worker still own it.
Release(r, a) ==
    /\ handler[r][a].pc = "releasing"
    /\ db' = IF OwnsRuntime(db, r, handler[r][a].worker) THEN ReleaseRuntime(db) ELSE db
    /\ Goto(r, a, "failing")
    /\ UNCHANGED native

\* failJob, or the drain's end of an aborted handler.
FailJob(r, a) ==
    /\ handler[r][a].pc = "failing"
    /\ db' = IF ~Holds(db, r, a) THEN db
             ELSE IF db.job[r].cancel THEN TransitionTerminal(db, r, "canceled")
             ELSE IF handler[r][a].retry /\ a < MaxAttempts
             THEN [db EXCEPT !.job[r] = [@ EXCEPT !.status = "retry_wait", !.due = FALSE,
                                                  !.worker = None, !.lease = FALSE]]
             ELSE TransitionTerminal(db, r, "failed")
    /\ Returns(r, a)
    /\ UNCHANGED native

\* A worker process dies with all its handlers; one may come back with its id.
Crash(w) ==
    /\ Running(w) # {}
    /\ handler' = [r \in Runs |-> [a \in Attempts |->
                     IF <<r, a>> \in Running(w)
                     THEN Gone ELSE handler[r][a]]]
    /\ UNCHANGED <<db, native>>

-----------------------------------------------------------------------------
(* Time and maintenance *)

\* The lease of a handler that is gone runs out; a stalled one's may, too.
LeaseExpires(r) ==
    /\ db.job[r].status = "held" /\ db.job[r].lease
    /\ r \in Stalling \/ handler[r][db.job[r].attempt].pc = "gone"
    /\ db' = [db EXCEPT !.job[r].lease = FALSE]
    /\ UNCHANGED <<handler, native>>

\* maintainQueue, on the job it locks.
MaintainQueue(r) ==
    /\ db' = CASE db.job[r].cancel /\ db.job[r].status \in {"queued", "retry_wait", "parked"}
                 -> TransitionTerminal(db, r, "canceled")
               [] db.job[r].status = "held" /\ ~db.job[r].lease /\ db.job[r].cancel
                 -> TransitionTerminal(db, r, "canceled")
               [] db.job[r].status = "held" /\ ~db.job[r].lease /\ ~db.job[r].cancel
                 -> IF db.job[r].attempt < MaxAttempts
                    THEN [db EXCEPT !.job[r] = [@ EXCEPT !.status = "queued", !.due = TRUE,
                                                         !.worker = None]]
                    ELSE TransitionTerminal(db, r, "failed")
               [] db.job[r].status = "retry_wait" /\ ~db.job[r].cancel
                 -> [db EXCEPT !.job[r] = [@ EXCEPT !.status = "queued", !.due = TRUE]]
               [] OTHER -> db
    /\ db' # db
    /\ UNCHANGED <<handler, native>>

\* wakeNativeQuestionWaits: the first valid answer wakes the run; the commands
\* before it that are no answer are refused.
WakeNativeQuestionWaits(r) ==
    LET open == {s \in Runs : /\ db.cmd[s].state = "pending" /\ db.cmd[s].gen = db.rt.gen
                              /\ db.cmd[s].run = r /\ db.cmd[s].turn = db.rt.turn}
        answers == {s \in open : db.cmd[s].kind = "ask_user"}
        refused == [db EXCEPT !.cmd = [s \in Runs |->
                      IF s \in open /\ s < Min(answers)
                      THEN [@[s] EXCEPT !.state = "rejected"] ELSE @[s]]]
    IN
    /\ db.wait[r] = "parked" /\ db.job[r].status = "parked"
    /\ db.rt.run = r /\ answers # {}
    /\ db' = [CancelUnadoptedSteers(refused) EXCEPT
                 !.wait[r] = "ready", !.job[r].status = "queued", !.job[r].due = TRUE]
    /\ UNCHANGED <<handler, native>>

\* available_at of a queued input passes after 24 hours.
DayPasses(r) ==
    /\ LongWaits /\ db.job[r].status = "queued" /\ ~db.job[r].due
    /\ db' = [db EXCEPT !.job[r].due = TRUE]
    /\ UNCHANGED <<handler, native>>

-----------------------------------------------------------------------------

UserStep(r) == Submit(r) \/ UpdateQueuedMessage(r) \/ CancelRun(r)

HandlerStep(r, a) ==
    \/ StartClaimedJob(r, a) \/ Acquire(r, a) \/ Prepare(r, a) \/ BeginNativeTask(r, a)
    \/ BindThread(r, a) \/ ReadOrigin(r, a) \/ PromptNative(r, a)
    \/ ConsumeAnswer(r, a) \/ ContinueNativeQuestion(r, a)
    \/ RecordTurn(r, a) \/ AnnounceTurn(r, a)
    \/ ClaimSteer(r, a) \/ SteerNative(r, a) \/ SettleSteer(r, a)
    \/ NativeTurnEnds(r, a) \/ DrainEnds(r, a)
    \/ CompleteNativeTask(r, a) \/ CompleteJob(r, a)
    \/ Abort(r, a) \/ Release(r, a) \/ FailJob(r, a)

QuestionStep(r, a) == AskUser(r, a) \/ ParkNativeQuestion(r, a)

QueueStep(r) == MaintainQueue(r) \/ WakeNativeQuestionWaits(r)

Next ==
    \/ \E r \in Runs : UserStep(r) \/ QueueStep(r) \/ LeaseExpires(r) \/ DayPasses(r)
    \/ \E r \in Runs, w \in Workers : ClaimNextJob(w, r)
    \/ \E r \in Runs, a \in Attempts : HandlerStep(r, a) \/ QuestionStep(r, a)
    \/ \E w \in Workers : Crash(w)

Spec == Init /\ [][Next]_vars

\* Ready jobs are claimed, handlers move, maintenance runs on every poll, the
\* lease of a dead handler runs out.  A native turn ends (its run has a budget),
\* and the last look at steers has a deadline, however many inputs are deferred.
FairSpec ==
    /\ Spec
    /\ WF_vars(\E r \in Runs, w \in Workers : ClaimNextJob(w, r))
    /\ \A r \in Runs : WF_vars(QueueStep(r))
    /\ \A r \in Runs : WF_vars(LeaseExpires(r) /\ handler[r][db.job[r].attempt].pc = "gone")
    /\ \A r \in Runs :
          /\ WF_vars(\E a \in Attempts : HandlerStep(r, a))
          /\ SF_vars(\E a \in Attempts : NativeTurnEnds(r, a) \/ DrainEnds(r, a))

-----------------------------------------------------------------------------
(* Properties *)

\* Whether attempt a of r executes a native turn under a live lease.
ExecutesTurn(r, a) ==
    /\ Holds(db, r, a)
    /\ handler[r][a].pc \in {"consuming", "continuing", "recording", "announcing", "turn",
                             "draining", "finishing"}

\* The runtime is the run's as long as its turn executes: nobody has released it
\* under the handler, so that no other input's turn can start beside it.
TurnOwnsRuntime ==
    \A r \in Runs, a \in Attempts :
        ExecutesTurn(r, a) => OwnsRuntime(db, r, handler[r][a].worker)

\* Two inputs of a conversation never execute at the same time.
OneTurn ==
    \A r, q \in Runs, a, b \in Attempts :
        ExecutesTurn(r, a) /\ ExecutesTurn(q, b) => r = q

\* A run that has ended does not keep the runtime, however it ended and whoever
\* held it: parked, canceled between claims, resumed on another worker.
RuntimeOwnerLives == db.rt.state = "running" => Live(db, db.rt.run)

\* An input adopted by a running turn is never a turn of its own as well, and
\* no two threads adopt it.
AdoptedIsNotRun ==
    \A r \in Runs : native.adopted[r] # {} =>
        native.prompts[r] = {} /\ Cardinality(native.adopted[r]) = 1

\* What the user is told was taken up by the turn, the harness did adopt.
ConsumedWasAdopted ==
    \A r \in Runs : db.fu[r].state = "consumed" => native.adopted[r] # {}

\* A strict steer lives no longer than the conversation's turn: once the runtime
\* is free, none waits to be adopted or run.
SteersEndWithTurn ==
    db.rt.state # "running" =>
        \A r \in Runs : db.fu[r].mode = "steer_only" => Over(db, r)

\* A run that is parked on its question still has the runtime, and the turn an
\* answer must name: it can be answered.
ParkedCanBeAnswered ==
    \A r \in Runs : db.job[r].status = "parked" =>
        /\ db.rt.state = "running" /\ db.rt.run = r
        /\ db.rt.turn # None /\ db.wait[r] = "parked"

\* The original prompt of a checked run goes out again only where nothing is left
\* that tells of the first: the turn it opened was never announced (readOrigin),
\* and one of the two attempts was without the question-wait port, so that no
\* dispatch was recorded or looked for (insertNativeTaskDispatch).  With the port
\* on every attempt it goes out once, whatever crashes.
NoKnownReplay ==
    \A r \in Runs : \A a, b \in native.prompts[r] : a < b =>
        /\ \A t \in db.turns : t[1] = r => t[2] # a
        /\ db.dispatch[r][a] = "none" \/ db.dispatch[r][b] = "none"

\* An input still waiting in the queue is not overtaken by a later one.
QueueOrder ==
    [][\A q, r \in Runs :
         native'.prompts[r] # native.prompts[r] /\ q < r =>
            ~(/\ db.fu[q].mode = "follow_up" /\ db.fu[q].state = "queued"
              /\ Live(db, q) /\ ~db.job[q].cancel)]_vars

\* Every input comes to an end, whatever crashes and whoever ends without ever
\* having had the runtime: of the inputs a user sends, none is left waiting.
InputsEnd == []<>(\A r \in Runs : db.job[r].status = "absent" \/ Over(db, r))
====
