-------------------------- MODULE ConversationStore --------------------------
(***************************************************************************)
(* The rows of one chat session: its runtime, the run, job, follow-up and  *)
(* steer command of every input, the native dispatches and question waits. *)
(* An operator here is what one transaction, or one statement shared by    *)
(* several of them, makes of these rows.  Inputs are numbered in the order *)
(* of their submission; a run's state is its job's.                        *)
(*                                                                         *)
(* The session has one owner, so scope columns are left out.  A thread is  *)
(* the generation that bound it, a turn the attempt of the run that opened *)
(* it: a segment of a run opens one turn.  `lease' is whether the lease    *)
(* of the holding attempt has not expired, `due' whether available_at has  *)
(* passed.                                                                 *)
(***************************************************************************)
EXTENDS Naturals, FiniteSetsExt

CONSTANTS
    Inputs,        \* how many inputs the user sends (a bound)
    Workers,       \* worker ids
    MaxAttempts,   \* max_attempts of a chat run
    MaxGeneration  \* bound on the native threads of the session

ASSUME StoreAssumption ==
    /\ Inputs \in Nat \ {0}
    /\ MaxAttempts \in Nat \ {0}
    /\ MaxGeneration \in Nat \ {0}
    /\ 0 \notin Workers

Runs == 1..Inputs
Attempts == 1..MaxAttempts
None == 0            \* null

EmptyStore == [
    rt |-> [state |-> "idle", run |-> None, turn |-> None, worker |-> None,
            gen |-> 0, thread |-> None],
    job |-> [r \in Runs |-> [status |-> "absent", attempt |-> 0, worker |-> None,
                             lease |-> FALSE, due |-> FALSE, cancel |-> FALSE]],
    fu |-> [r \in Runs |-> [mode |-> "none", state |-> "none"]],
    cmd |-> [r \in Runs |-> [state |-> "none", kind |-> "none", run |-> None,
                             turn |-> None, gen |-> 0, worker |-> None]],
    dispatch |-> [r \in Runs |-> [a \in Attempts |-> "none"]],
    wait |-> [r \in Runs |-> "none"],
    turns |-> {} ]       \* turn.started events: run, turn and generation

Stores == [
    rt : [state : {"idle", "running"}, run : Runs \cup {None},
          turn : Attempts \cup {None}, worker : Workers \cup {None},
          gen : 0..MaxGeneration, thread : 0..MaxGeneration],
    job : [Runs -> [status : {"absent", "queued", "held", "retry_wait", "parked",
                              "succeeded", "failed", "canceled"},
                    attempt : 0..MaxAttempts, worker : Workers \cup {None},
                    lease : BOOLEAN, due : BOOLEAN, cancel : BOOLEAN]],
    fu : [Runs -> [mode : {"none", "follow_up", "steer_only"},
                   state : {"none", "queued", "released", "running", "consumed",
                            "canceled"}]],
    cmd : [Runs -> [state : {"none", "pending", "claimed", "consumed", "rejected"},
                    kind : {"none", "steer_current", "ask_user"},
                    run : Runs \cup {None}, turn : Attempts \cup {None},
                    gen : 0..MaxGeneration, worker : Workers \cup {None}]],
    dispatch : [Runs -> [Attempts -> {"none", "started", "parked", "completed"}]],
    wait : [Runs -> {"none", "parked", "ready", "continued"}],
    turns : SUBSET (Runs \X Attempts \X (1..MaxGeneration)) ]

Over(d, r) == d.job[r].status \in {"succeeded", "failed", "canceled"}
Live(d, r) == d.job[r].status # "absent" /\ ~Over(d, r)

\* The lease token is the attempt that was given it.
Holds(d, r, a) ==
    d.job[r].status = "held" /\ d.job[r].attempt = a /\ d.job[r].lease

\* lockOwner of the native task ledger: the lease, and no cancel request.
LockOwner(d, r, a) == Holds(d, r, a) /\ ~d.job[r].cancel

\* lockedOwnedRuntime: a run and a worker, whichever attempt.
OwnsRuntime(d, r, w) ==
    d.rt.state = "running" /\ d.rt.run = r /\ d.rt.worker = w

-----------------------------------------------------------------------------
(* Releasing the runtime *)

EndJob(d, r, end) ==
    [d EXCEPT !.job[r] = [@ EXCEPT !.status = end, !.worker = None,
                                   !.lease = FALSE]]

\* releaseNextConversationFollowup: the oldest ordinary input still queued.
ReleaseNextFollowup(d) ==
    LET ready == {r \in Runs : /\ d.fu[r].state = "queued"
                               /\ d.fu[r].mode # "steer_only"
                               /\ d.job[r].status = "queued"
                               /\ ~d.job[r].cancel}
    IN IF ready = {} THEN d
       ELSE [d EXCEPT !.fu[Min(ready)].state = "released",
                      !.job[Min(ready)].due = TRUE]

\* Mutant: the run of a steer nobody adopted is left in the queue.
CancelUnadoptedSteers_None(d) == d

\* cancelUnadoptedSteers: a steer that was not adopted is not run later.
CancelUnadoptedSteers(d) ==
    LET lost == {r \in Runs : /\ d.fu[r].mode = "steer_only"
                              /\ d.fu[r].state = "queued"
                              /\ d.cmd[r].state = "rejected"}
    IN [d EXCEPT
          !.fu = [r \in Runs |-> IF r \in lost THEN [@[r] EXCEPT !.state = "canceled"]
                                 ELSE @[r]],
          !.job = [r \in Runs |-> IF r \in lost /\ @[r].status = "queued"
                                  THEN [@[r] EXCEPT !.status = "canceled"] ELSE @[r]]]

RejectOpenCommands(d) ==
    [d EXCEPT !.cmd = [r \in Runs |->
        IF @[r].state \in {"pending", "claimed"}
        THEN [@[r] EXCEPT !.state = "rejected"] ELSE @[r]]]

\* releaseConversationRuntimeTransaction, once ownership is settled.  The three
\* outcomes (idle, interrupted, error) only say why the runtime is not running.
ReleaseRuntime(d) ==
    ReleaseNextFollowup(CancelUnadoptedSteers(RejectOpenCommands(
        [d EXCEPT !.rt = [@ EXCEPT !.state = "idle", !.run = None, !.turn = None,
                                   !.worker = None]])))

\* Mutant: only the worker that holds the job may release its runtime.
TransitionTerminal_SameWorker(d, r, end) ==
    IF OwnsRuntime(d, r, d.job[r].worker) THEN ReleaseRuntime(EndJob(d, r, end))
    ELSE EndJob(d, r, end)

\* transitionTerminal releases the run's runtime whoever it says the owner is.
TransitionTerminal(d, r, end) ==
    IF d.rt.state = "running" /\ d.rt.run = r
    THEN ReleaseRuntime(EndJob(d, r, end)) ELSE EndJob(d, r, end)

-----------------------------------------------------------------------------
(* Inputs of the user *)

\* enqueueRunInTransaction's delivery decision.  A turn named by the request is
\* compared with the runtime's under its lock: it is the open one, or the input
\* is refused (steer) or queued (auto).
Delivery(d) ==
    IF d.rt.state = "running"
    THEN {"follow_up"} \cup (IF d.rt.turn # None THEN {"steer_only"} ELSE {})
    ELSE IF \E q \in Runs : Live(d, q) THEN {"follow_up"} ELSE {"none"}

\* The command that steers the open turn.
SteerCommand(d, kind) ==
    [state |-> "pending", kind |-> kind, run |-> d.rt.run, turn |-> d.rt.turn,
     gen |-> d.rt.gen, worker |-> None]

\* An input that does not start at once is available in 24 hours.
Submitted(d, r, mode, kind) ==
    LET e == [d EXCEPT !.job[r].status = "queued", !.job[r].due = (mode = "none"),
                       !.fu[r] = [mode |-> mode, state |-> IF mode = "none" THEN "none"
                                                           ELSE "queued"]]
    IN IF mode = "steer_only" THEN [e EXCEPT !.cmd[r] = SteerCommand(d, kind)] ELSE e

\* updateQueuedMessage touches an ordinary input that no worker has claimed.
QueuedMessage(d, r) ==
    /\ d.fu[r].mode = "follow_up" /\ d.fu[r].state \in {"queued", "released"}
    /\ d.job[r].status = "queued" /\ ~d.job[r].cancel

\* edit, remove.
RemoveQueued(d, r) ==
    LET e == [EndJob(d, r, "canceled") EXCEPT !.fu[r].state = "canceled"]
    IN IF d.fu[r].state = "released" /\ d.rt.state # "running"
       THEN ReleaseNextFollowup(e) ELSE e

\* steer: the turn it names must be open and its job alive.
CanSteerQueued(d) ==
    /\ d.rt.state = "running" /\ d.rt.run # None /\ d.rt.turn # None
    /\ d.job[d.rt.run].status = "held" /\ d.job[d.rt.run].worker = d.rt.worker
    /\ d.job[d.rt.run].lease /\ ~d.job[d.rt.run].cancel

\* Mutant: the input keeps its place in the queue.
SteerQueued_KeepsPlace(d, r) ==
    [d EXCEPT !.cmd[r] = SteerCommand(d, "steer_current")]

SteerQueued(d, r) ==
    [d EXCEPT !.fu[r] = [mode |-> "steer_only", state |-> "queued"],
              !.cmd[r] = SteerCommand(d, "steer_current")]

-----------------------------------------------------------------------------
(* Claiming *)

RuntimeFree(d) == d.rt.state = "running" => Over(d, d.rt.run)

\* Mutant: only a release makes a queued input available.
OrphanedHead_Never(d, r) == FALSE

\* Mutant: any queued input will do once the runtime is free.
OrphanedHead_Any(d, r) ==
    d.fu[r].mode = "follow_up" /\ d.fu[r].state = "queued" /\ RuntimeFree(d)

\* The queue head that no release has made available: claimNextJob's clause for
\* runs that ended without a runtime to release.
OrphanedHead(d, r) ==
    /\ d.fu[r].mode = "follow_up" /\ d.fu[r].state = "queued"
    /\ RuntimeFree(d)
    /\ ~\E q \in Runs \ {r} :
          /\ Live(d, q)
          /\ \/ d.fu[q].mode = "none" \/ d.fu[q].state \in {"released", "running"}
             \/ d.fu[q].mode = "follow_up" /\ d.fu[q].state = "queued" /\ q < r

Claimable(d, r) ==
    /\ d.job[r].status = "queued" /\ ~d.job[r].cancel
    /\ d.job[r].due \/ OrphanedHead(d, r)
    /\ d.fu[r].mode # "steer_only"

Claimed(d, r, w) ==
    [d EXCEPT !.job[r] = [@ EXCEPT !.status = "held", !.attempt = d.job[r].attempt + 1,
                                   !.worker = w, !.lease = TRUE],
              !.fu[r].state = IF d.fu[r].mode = "follow_up" /\ @ = "queued"
                              THEN "released" ELSE @]

-----------------------------------------------------------------------------
(* The runtime's owner *)

\* Mutant: whoever comes takes the runtime over.
CanAcquire_Always(d, r) == TRUE

\* conversationRuntimeCanAcquire: the lease of the caller is not looked at.
CanAcquire(d, r) ==
    d.rt.state = "running" /\ d.rt.run # r => Over(d, d.rt.run)

\* acquireConversationRuntime.  The configuration is frozen in the run, so a
\* changed one is another run's, and drops the thread.
Acquired(d, r, w, changed) ==
    [d EXCEPT !.rt = [@ EXCEPT !.state = "running", !.run = r, !.worker = w,
                               !.turn = IF d.rt.run = r THEN d.rt.turn ELSE None,
                               !.thread = IF changed THEN None ELSE d.rt.thread],
              !.fu[r].state = IF @ = "released" THEN "running" ELSE @]

\* Mutant: binding the same thread again counts as a new generation.
Bound_Counts(d, new) ==
    [d EXCEPT !.rt = [@ EXCEPT !.gen = d.rt.gen + 1, !.thread = d.rt.gen + 1, !.turn = None]]

\* bindConversationThread: the bound thread again, or a new generation.
Bound(d, new) ==
    IF new THEN [d EXCEPT !.rt = [@ EXCEPT !.gen = d.rt.gen + 1, !.thread = d.rt.gen + 1,
                                           !.turn = None]]
    ELSE d

-----------------------------------------------------------------------------
(* Steer commands *)

\* The command's turn is the open one, or one this run has opened before.
AtTurn(d, s) ==
    \/ d.cmd[s].run = d.rt.run /\ d.cmd[s].turn = d.rt.turn
    \/ d.cmd[s].run = d.rt.run /\ <<d.cmd[s].run, d.cmd[s].turn, d.cmd[s].gen>> \in d.turns

\* The runtime's run has a job its worker holds.
TurnAlive(d, w) ==
    /\ d.rt.state = "running" /\ d.rt.worker = w
    /\ d.job[d.rt.run].status = "held" /\ d.job[d.rt.run].worker = w
    /\ d.job[d.rt.run].lease

\* The commands claimConversationSteer may take for generation g: a claim that
\* is not settled in 30 seconds may be taken over.  A resumed question takes the
\* exact turn only (exact).
Takeable(d, g, exact) ==
    {s \in Runs : /\ d.cmd[s].state \in {"pending", "claimed"} /\ d.cmd[s].gen = g
                  /\ \/ d.cmd[s].run = d.rt.run /\ d.cmd[s].turn = d.rt.turn
                     \/ ~exact /\ d.cmd[s].kind = "steer_current" /\ AtTurn(d, s)}

Taken(d, s, w) ==
    [d EXCEPT !.cmd[s] = [@ EXCEPT !.state = "claimed", !.worker = w]]

MineClaimed(d, s, w) == d.cmd[s].state = "claimed" /\ d.cmd[s].worker = w

\* consumeConversationSteer: the input ends with the turn that adopted it.
Consumed(d, s, w) ==
    IF ~(TurnAlive(d, w) /\ d.rt.gen = d.cmd[s].gen /\ AtTurn(d, s) /\ MineClaimed(d, s, w))
    THEN d
    ELSE [d EXCEPT !.cmd[s].state = "consumed", !.fu[s].state = "consumed",
                   !.job[s].status = IF @ = "queued" THEN "canceled" ELSE @]

\* rejectConversationSteer, deferConversationSteer.
Rejected(d, s, w) ==
    IF MineClaimed(d, s, w) THEN [d EXCEPT !.cmd[s].state = "rejected"] ELSE d

Deferred(d, s, w) ==
    IF MineClaimed(d, s, w)
    THEN [d EXCEPT !.cmd[s] = [@ EXCEPT !.state = "pending", !.worker = None]] ELSE d
=============================================================================
