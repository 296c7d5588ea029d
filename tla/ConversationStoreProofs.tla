----------------------- MODULE ConversationStoreProofs -----------------------
(***************************************************************************)
(* What the transactions of ConversationStore keep true of the rows of a   *)
(* chat session, for every number of inputs, workers, attempts and         *)
(* generations.  StoreOK is the part of the conversation's inductive       *)
(* invariant that the rows alone must satisfy: every operator that stands  *)
(* for a transaction keeps it, whoever runs the transaction.               *)
(***************************************************************************)
EXTENDS ConversationStore, FiniteSetTheorems, WellFoundedInduction, TLAPS

\* The rows of the store, by table.
RuntimeRows ==
    [state : {"idle", "running"}, run : Runs \cup {None},
     turn : Attempts \cup {None}, worker : Workers \cup {None},
     gen : 0..MaxGeneration, thread : 0..MaxGeneration]
JobRows ==
    [status : {"absent", "queued", "held", "retry_wait", "parked",
               "succeeded", "failed", "canceled"},
     attempt : 0..MaxAttempts, worker : Workers \cup {None},
     lease : BOOLEAN, due : BOOLEAN, cancel : BOOLEAN]
FollowupRows ==
    [mode : {"none", "follow_up", "steer_only"},
     state : {"none", "queued", "released", "running", "consumed", "canceled"}]
CommandRows ==
    [state : {"none", "pending", "claimed", "consumed", "rejected"},
     kind : {"none", "steer_current", "ask_user"},
     run : Runs \cup {None}, turn : Attempts \cup {None},
     gen : 0..MaxGeneration, worker : Workers \cup {None}]

JobTables == [Runs -> JobRows]
FollowupTables == [Runs -> FollowupRows]
CommandTables == [Runs -> CommandRows]
DispatchTables == [Runs -> [Attempts -> {"none", "started", "parked", "completed"}]]
WaitTables == [Runs -> {"none", "parked", "ready", "continued"}]
TurnSets == SUBSET (Runs \X Attempts \X (1..MaxGeneration))

\* The runtime row: it has a run exactly while it runs; a run that has it has
\* left the queue of inputs.
RuntimeOK(d) ==
    /\ d.rt.state = "running" =>
         /\ d.rt.run \in Runs
         /\ d.job[d.rt.run].status # "absent"
         /\ d.fu[d.rt.run].state # "released"
         /\ d.fu[d.rt.run].mode = "follow_up" => d.fu[d.rt.run].state # "queued"
    /\ d.rt.state = "idle" => d.rt.run = None /\ d.rt.turn = None
    /\ d.rt.thread <= d.rt.gen

\* The rows of one input.
InputOK(j, f, c) ==
    /\ j.status = "absent" => f.mode = "none" /\ j.attempt = 0 /\ ~j.due
    /\ j.status = "held" => j.attempt # 0
    /\ f.mode = "none" <=> f.state = "none"
    /\ f.mode = "steer_only" <=> c.state # "none"
    /\ f.mode = "steer_only" =>
         /\ j.status \in {"queued", "canceled"}
         /\ f.state \in {"queued", "canceled", "consumed"}
         /\ j.status = "queued" => c.state # "consumed"
    /\ f.state \in {"canceled", "consumed"} => j.status \in {"succeeded", "failed", "canceled"}
    /\ j.status \in {"held", "retry_wait", "parked"} => f.state # "queued"

\* Inputs come in the order of their numbers.
InOrder(d) ==
    \A q, r \in Runs : q < r /\ d.job[q].status = "absent" => d.job[r].status = "absent"

\* A steer nobody adopted ends with the turn it was for.
SteersOver(d) ==
    d.rt.state # "running" =>
        \A r \in Runs : d.fu[r].mode = "steer_only" => Over(d, r)

\* The rows agree with each other; with SteersOver, between transactions.
RowsOK(d) ==
    /\ d \in Stores
    /\ RuntimeOK(d)
    /\ \A r \in Runs : InputOK(d.job[r], d.fu[r], d.cmd[r])
    /\ InOrder(d)

StoreOK(d) == RowsOK(d) /\ SteersOver(d)

\* An input in the queue that nothing bars from running.
WaitsInQueue(d, q) ==
    /\ d.fu[q].mode = "follow_up" /\ d.fu[q].state = "queued"
    /\ Live(d, q) /\ ~d.job[q].cancel

\* An input that has left the queue, or may leave it.
MayRun(d, r) ==
    /\ d.fu[r].mode # "steer_only"
    /\ d.job[r].due \/ d.job[r].status \in {"held", "retry_wait", "parked"}

\* An input that may run has none before it in the queue.
HeadsFirst(d) ==
    \A q, r \in Runs : q < r /\ MayRun(d, r) => ~WaitsInQueue(d, q)

-----------------------------------------------------------------------------
(* Stores *)

\* A store is one row, or one table, of every kind.
LEMMA StoresAre ==
    Stores = [rt : RuntimeRows, job : JobTables, fu : FollowupTables, cmd : CommandTables,
              dispatch : DispatchTables, wait : WaitTables, turns : TurnSets]
BY DEF Stores, RuntimeRows, JobRows, FollowupRows, CommandRows, JobTables, FollowupTables,
   CommandTables, DispatchTables, WaitTables, TurnSets

\* The rows of an input.
LEMMA RowsTyped ==
    ASSUME NEW d \in Stores
    PROVE  /\ d.rt \in RuntimeRows
           /\ \A r \in Runs : /\ d.job[r] \in JobRows /\ d.fu[r] \in FollowupRows
                                /\ d.cmd[r] \in CommandRows
BY StoresAre DEF JobTables, FollowupTables, CommandTables

\* The smallest member of a set of inputs.
LEMMA MinIsSmallest ==
    ASSUME NEW S \in SUBSET Runs, S # {}
    PROVE  Min(S) \in S /\ \A q \in S : Min(S) <= q
<1> DEFINE UpTo(n) == S \cap (1..n)
           B == {UpTo(n) : n \in S}
<1>1. IsFiniteSet(S) /\ S \subseteq Nat \ {0}
  <2>1. IsFiniteSet(Runs) /\ Runs \subseteq Nat \ {0}
    BY StoreAssumption, FS_Interval DEF Runs
  <2>2. QED
    BY <2>1, FS_Subset
<1>2. IsWellFoundedOn(StrictSubsetOrdering(S), FiniteSubsetsOf(S))
  BY <1>1, FS_StrictSubsetOrderingWellFounded
<1>3. B \subseteq FiniteSubsetsOf(S) /\ B # {}
  <2>1. ASSUME NEW U \in B PROVE U \subseteq S /\ IsFiniteSet(U)
    BY <1>1, FS_Subset
  <2>2. B # {}
    OBVIOUS
  <2> HIDE DEF B
  <2>3. QED
    BY <2>1, <2>2 DEF FiniteSubsetsOf
<1>4. PICK T \in B : \A U \in B : ~(<<U, T>> \in StrictSubsetOrdering(S))
  <2> HIDE DEF B
  <2> QED
    BY <1>2, <1>3, WFMin
<1>5. PICK m \in S : T = UpTo(m)
  BY <1>4
<1>6. ASSUME NEW q \in S, q < m PROVE FALSE
  <2>1. UpTo(q) \in B /\ UpTo(q) \subseteq UpTo(m) /\ m \in UpTo(m) /\ m \notin UpTo(q)
    BY <1>1, <1>6
  <2>2. <<UpTo(q), UpTo(m)>> \in StrictSubsetOrdering(S)
    BY <2>1 DEF StrictSubsetOrdering
  <2>3. QED
    BY <1>4, <1>5, <2>1, <2>2
<1>7. \A q \in S : m <= q
  BY <1>1, <1>6
<1> QED
  BY <1>7 DEF Min

\* The empty session.
LEMMA EmptyIsOK == StoreOK(EmptyStore) /\ HeadsFirst(EmptyStore)
<1>1. EmptyStore \in Stores
  BY StoreAssumption DEF Stores, EmptyStore, None, Attempts
<1>2. RuntimeOK(EmptyStore)
  BY StoreAssumption DEF RuntimeOK, EmptyStore, None
<1>3. SteersOver(EmptyStore) /\ InOrder(EmptyStore)
  BY DEF EmptyStore, SteersOver, InOrder
<1>4. ASSUME NEW r \in Runs
      PROVE  InputOK(EmptyStore.job[r], EmptyStore.fu[r], EmptyStore.cmd[r])
  BY <1>4 DEF InputOK, EmptyStore
<1> QED
  BY <1>1, <1>2, <1>3, <1>4 DEF StoreOK, RowsOK, HeadsFirst, EmptyStore, WaitsInQueue

\* Whether d and e differ, in what is told of inputs, in the rows of r only.
OnlyInput(d, e, r) ==
    \A q \in Runs \ {r} : e.job[q] = d.job[q] /\ e.fu[q] = d.fu[q] /\ e.cmd[q] = d.cmd[q]

\* A step on the rows of one input, and perhaps on tables the rows do not depend on.
LEMMA OneInput ==
    ASSUME NEW d, StoreOK(d), NEW e \in Stores, NEW r \in Runs, OnlyInput(d, e, r),
           e.rt = d.rt, InputOK(e.job[r], e.fu[r], e.cmd[r]),
           d.job[r].status # "absent", e.job[r].status # "absent",
           d.rt.state = "running" /\ d.rt.run = r =>
             /\ e.fu[r].state # "released"
             /\ e.fu[r].mode = "follow_up" => e.fu[r].state # "queued",
           d.rt.state # "running" /\ e.fu[r].mode = "steer_only" => Over(e, r)
    PROVE  StoreOK(e)
<1>1. RuntimeOK(e)
  BY DEF StoreOK, RowsOK, RuntimeOK, OnlyInput
<1>2. InOrder(e)
  BY DEF StoreOK, RowsOK, InOrder, OnlyInput
<1>3. SteersOver(e)
  BY DEF StoreOK, SteersOver, OnlyInput, Over
<1>4. \A q \in Runs : InputOK(e.job[q], e.fu[q], e.cmd[q])
  BY DEF StoreOK, RowsOK, OnlyInput
<1> QED
  BY <1>1, <1>2, <1>3, <1>4 DEF StoreOK, RowsOK

\* The same for the order of the queue.
LEMMA OneHead ==
    ASSUME NEW d, HeadsFirst(d), NEW e, NEW r \in Runs, OnlyInput(d, e, r),
           WaitsInQueue(e, r) => WaitsInQueue(d, r),
           MayRun(e, r) => MayRun(d, r) \/ \A q \in Runs : q < r => ~WaitsInQueue(d, q)
    PROVE  HeadsFirst(e)
<1>1. \A q \in Runs : WaitsInQueue(e, q) => WaitsInQueue(d, q)
  BY DEF OnlyInput, WaitsInQueue, Live, Over
<1>2. \A q \in Runs \ {r} : MayRun(e, q) => MayRun(d, q)
  BY DEF OnlyInput, MayRun
<1> HIDE DEF MayRun
<1> QED
  BY <1>1, <1>2 DEF HeadsFirst

\* The store with another job row for r.
WithJob(d, r, j) == [d EXCEPT !.job = [d.job EXCEPT ![r] = j]]

\* Nothing else moves.
LEMMA PutJob ==
    ASSUME NEW d, StoreOK(d), NEW r \in Runs, NEW j \in JobRows
    PROVE  LET e == WithJob(d, r, j) IN
           /\ e \in Stores /\ e.job[r] = j /\ OnlyInput(d, e, r)
           /\ e.rt = d.rt /\ e.fu = d.fu /\ e.cmd = d.cmd /\ e.dispatch = d.dispatch
           /\ e.wait = d.wait /\ e.turns = d.turns
<1> DEFINE e == WithJob(d, r, j)
<1>1. d \in Stores
  BY DEF StoreOK, RowsOK
<1>2. d.job \in JobTables
  BY <1>1, StoresAre
<1>3. [d.job EXCEPT ![r] = j] \in JobTables
  BY <1>2 DEF JobTables
<1>4. /\ e \in Stores /\ e.job = [d.job EXCEPT ![r] = j]
      /\ e.rt = d.rt /\ e.fu = d.fu /\ e.cmd = d.cmd /\ e.dispatch = d.dispatch
      /\ e.wait = d.wait /\ e.turns = d.turns
  BY <1>1, <1>3, StoresAre DEF WithJob
<1> HIDE DEF e
<1>5. e.job[r] = j /\ OnlyInput(d, e, r)
  BY <1>2, <1>4 DEF OnlyInput, JobTables
<1> QED
  BY <1>4, <1>5 DEF e

\* A step on one job row keeps the rows in order if it never brings an ended job
\* back and the row agrees with the input's others.
LEMMA JobInput ==
    ASSUME NEW d, StoreOK(d), NEW e \in Stores, NEW r \in Runs, OnlyInput(d, e, r),
           e.rt = d.rt, e.fu[r] = d.fu[r], e.cmd[r] = d.cmd[r],
           InputOK(e.job[r], d.fu[r], d.cmd[r]),
           d.job[r].status # "absent", e.job[r].status # "absent", Over(d, r) => Over(e, r)
    PROVE  StoreOK(e)
<1>1. RuntimeOK(d) /\ SteersOver(d)
  BY DEF StoreOK, RowsOK
<1>2. d.rt.state = "running" /\ d.rt.run = r =>
             /\ e.fu[r].state # "released"
             /\ e.fu[r].mode = "follow_up" => e.fu[r].state # "queued"
  BY <1>1 DEF RuntimeOK
<1>3. d.rt.state # "running" /\ e.fu[r].mode = "steer_only" => Over(e, r)
  BY <1>1 DEF SteersOver
<1> QED
  BY <1>2, <1>3, OneInput

-----------------------------------------------------------------------------
(* One input at a time *)

\* The store with other rows for r.
WithInput(d, r, j, f, c) ==
    [d EXCEPT !.job = [d.job EXCEPT ![r] = j], !.fu = [d.fu EXCEPT ![r] = f],
              !.cmd = [d.cmd EXCEPT ![r] = c]]

\* Nothing else moves.
LEMMA PutInput ==
    ASSUME NEW d, StoreOK(d), NEW r \in Runs, NEW j \in JobRows, NEW f \in FollowupRows,
           NEW c \in CommandRows
    PROVE  LET e == WithInput(d, r, j, f, c) IN
           /\ e \in Stores /\ e.job[r] = j /\ e.fu[r] = f /\ e.cmd[r] = c /\ OnlyInput(d, e, r)
           /\ e.rt = d.rt /\ e.dispatch = d.dispatch /\ e.wait = d.wait /\ e.turns = d.turns
<1> DEFINE e == WithInput(d, r, j, f, c)
<1>1. d \in Stores
  BY DEF StoreOK, RowsOK
<1>2. d.job \in JobTables /\ d.fu \in FollowupTables /\ d.cmd \in CommandTables
  BY <1>1, StoresAre
<1>3. /\ [d.job EXCEPT ![r] = j] \in JobTables /\ [d.fu EXCEPT ![r] = f] \in FollowupTables
      /\ [d.cmd EXCEPT ![r] = c] \in CommandTables
  BY <1>2 DEF JobTables, FollowupTables, CommandTables
<1>4. /\ e \in Stores
      /\ e.job = [d.job EXCEPT ![r] = j] /\ e.fu = [d.fu EXCEPT ![r] = f]
      /\ e.cmd = [d.cmd EXCEPT ![r] = c]
      /\ e.rt = d.rt /\ e.dispatch = d.dispatch /\ e.wait = d.wait /\ e.turns = d.turns
  BY <1>1, <1>3, StoresAre DEF WithInput
<1> HIDE DEF e
<1>5. e.job[r] = j /\ e.fu[r] = f /\ e.cmd[r] = c /\ OnlyInput(d, e, r)
  BY <1>2, <1>4 DEF OnlyInput, JobTables, FollowupTables, CommandTables
<1> QED
  BY <1>4, <1>5 DEF e

\* A table that gets its own row back is the same table.
LEMMA SameRow ==
    ASSUME NEW d \in Stores, NEW r \in Runs
    PROVE  /\ [d.job EXCEPT ![r] = d.job[r]] = d.job
           /\ [d.fu EXCEPT ![r] = d.fu[r]] = d.fu
           /\ [d.cmd EXCEPT ![r] = d.cmd[r]] = d.cmd
BY StoresAre DEF JobTables, FollowupTables, CommandTables

\* What no transaction takes back from an input that was sent: its attempts are
\* counted by the claim alone, it does not return to the queue, a command stays with
\* its thread, and only an adoption consumes it.
KeepsRow(d, e, r) ==
    /\ e.job[r].attempt = d.job[r].attempt
    /\ d.job[r].status # "absent" =>
         /\ d.fu[r].mode = "steer_only" \/ d.fu[r].state # "queued" =>
              e.fu[r].mode = "steer_only" \/ e.fu[r].state # "queued"
         /\ d.fu[r].state \in {"none", "running"} => e.fu[r].state = d.fu[r].state
    /\ d.cmd[r].state # "none" => e.cmd[r].state # "none" /\ e.cmd[r].gen = d.cmd[r].gen

KeepsInput(d, e, r) ==
    KeepsRow(d, e, r) /\ (e.fu[r].state = "consumed" => d.fu[r].state = "consumed")

KeepsInputs(d, e) == \A r \in Runs : KeepsInput(d, e, r)

\* The tables only handlers of native tasks write.
SameTasks(d, e) == e.dispatch = d.dispatch /\ e.wait = d.wait /\ e.turns = d.turns

\* A step on one input keeps the others.
LEMMA OneKeeps ==
    ASSUME NEW d, NEW e, NEW r \in Runs, OnlyInput(d, e, r), KeepsInput(d, e, r)
    PROVE  KeepsInputs(d, e)
BY DEF OnlyInput, KeepsInput, KeepsRow, KeepsInputs

\* What a step on the job row of r leaves and keeps.
JobStep(d, e, r, j) ==
    /\ StoreOK(e) /\ e.job[r] = j /\ OnlyInput(d, e, r) /\ KeepsInputs(d, e)
    /\ e.rt = d.rt /\ e.fu = d.fu /\ e.cmd = d.cmd /\ SameTasks(d, e)

\* A job row may be written if the job exists, an ended one stays ended, the attempts
\* are not counted, and it agrees with the input's other rows.
LEMMA JobSteps ==
    ASSUME NEW d, StoreOK(d), NEW r \in Runs, NEW j \in JobRows,
           InputOK(j, d.fu[r], d.cmd[r]), j.attempt = d.job[r].attempt,
           d.job[r].status # "absent", j.status # "absent",
           Over(d, r) => j.status \in {"succeeded", "failed", "canceled"}
    PROVE  LET e == WithJob(d, r, j) IN
           /\ JobStep(d, e, r, j)
           /\ (WaitsInQueue(e, r) => WaitsInQueue(d, r)) /\ (MayRun(e, r) => MayRun(d, r)) =>
                (HeadsFirst(d) => HeadsFirst(e))
<1> DEFINE e == WithJob(d, r, j)
<1>1. /\ e \in Stores /\ e.job[r] = j /\ OnlyInput(d, e, r)
      /\ e.rt = d.rt /\ e.fu = d.fu /\ e.cmd = d.cmd /\ SameTasks(d, e)
  BY PutJob DEF SameTasks
<1> HIDE DEF e
<1>2. StoreOK(e)
  BY <1>1, JobInput DEF Over
<1>3. KeepsInputs(d, e)
  BY <1>1, OneKeeps DEF KeepsInput, KeepsRow
<1>4. ASSUME WaitsInQueue(e, r) => WaitsInQueue(d, r), MayRun(e, r) => MayRun(d, r), HeadsFirst(d)
      PROVE  HeadsFirst(e)
  BY <1>1, <1>4, OneHead
<1> QED
  BY <1>1, <1>2, <1>3, <1>4 DEF e, JobStep

\* A request to cancel only marks the job.
LEMMA CancelKeeps ==
    ASSUME NEW d, StoreOK(d), NEW r \in Runs, d.job[r].status # "absent"
    PROVE  LET e == [d EXCEPT !.job[r].cancel = TRUE] IN
           /\ JobStep(d, e, r, [d.job[r] EXCEPT !.cancel = TRUE])
           /\ HeadsFirst(d) => HeadsFirst(e)
<1> DEFINE j == [d.job[r] EXCEPT !.cancel = TRUE]
           e == WithJob(d, r, j)
<1>1. d \in Stores /\ InputOK(d.job[r], d.fu[r], d.cmd[r]) /\ d.job[r] \in JobRows
  BY RowsTyped DEF StoreOK, RowsOK
<1>2. /\ j \in JobRows /\ j.cancel
      /\ j.status = d.job[r].status /\ j.attempt = d.job[r].attempt /\ j.due = d.job[r].due
  BY <1>1 DEF JobRows
<1>3. e = [d EXCEPT !.job[r].cancel = TRUE]
  BY <1>1, StoresAre DEF WithJob
<1> HIDE DEF j
<1>4. InputOK(j, d.fu[r], d.cmd[r]) /\ (Over(d, r) => j.status \in {"succeeded", "failed", "canceled"})
  BY <1>1, <1>2 DEF InputOK, Over
<1>5. JobStep(d, e, r, j) /\ ((WaitsInQueue(e, r) => WaitsInQueue(d, r)) /\ (MayRun(e, r) => MayRun(d, r)) =>
                (HeadsFirst(d) => HeadsFirst(e)))
  BY <1>2, <1>4, JobSteps
<1> HIDE DEF e
<1>6. (WaitsInQueue(e, r) => WaitsInQueue(d, r)) /\ (MayRun(e, r) => MayRun(d, r))
  BY <1>2, <1>5 DEF JobStep, MayRun, WaitsInQueue, Live, Over
<1> QED
  BY <1>3, <1>5, <1>6 DEF j

\* The end of a job; a steer can only be canceled.
LEMMA EndKeeps ==
    ASSUME NEW d, StoreOK(d), NEW r \in Runs, d.job[r].status # "absent",
           NEW end \in {"succeeded", "failed", "canceled"},
           d.fu[r].mode = "steer_only" => end = "canceled"
    PROVE  LET e == EndJob(d, r, end) IN
           /\ JobStep(d, e, r, [d.job[r] EXCEPT !.status = end, !.worker = None, !.lease = FALSE])
           /\ HeadsFirst(d) => HeadsFirst(e)
<1> DEFINE j == [d.job[r] EXCEPT !.status = end, !.worker = None, !.lease = FALSE]
           e == WithJob(d, r, j)
<1>1. d \in Stores /\ InputOK(d.job[r], d.fu[r], d.cmd[r]) /\ d.job[r] \in JobRows
  BY RowsTyped DEF StoreOK, RowsOK
<1>2. /\ j \in JobRows /\ j.attempt = d.job[r].attempt /\ j.cancel = d.job[r].cancel
      /\ j.due = d.job[r].due /\ j.status = end
  BY <1>1 DEF JobRows, None
<1>3. e = EndJob(d, r, end)
  BY <1>1, StoresAre DEF WithJob, EndJob
<1> HIDE DEF j
<1>4. InputOK(j, d.fu[r], d.cmd[r]) /\ (Over(d, r) => j.status \in {"succeeded", "failed", "canceled"})
  BY <1>1, <1>2 DEF InputOK, Over
<1>5. JobStep(d, e, r, j) /\ ((WaitsInQueue(e, r) => WaitsInQueue(d, r)) /\ (MayRun(e, r) => MayRun(d, r)) =>
                (HeadsFirst(d) => HeadsFirst(e)))
  BY <1>1, <1>2, <1>4, JobSteps
<1> HIDE DEF e
<1>6. (WaitsInQueue(e, r) => WaitsInQueue(d, r)) /\ (MayRun(e, r) => MayRun(d, r))
  BY <1>1, <1>2, <1>5 DEF JobStep, MayRun, WaitsInQueue, Live, Over, InputOK
<1> QED
  BY <1>3, <1>5, <1>6 DEF j

\* The lease of a held job runs out.
LEMMA LeaseKeeps ==
    ASSUME NEW d, StoreOK(d), NEW r \in Runs, d.job[r].status = "held"
    PROVE  LET e == [d EXCEPT !.job[r].lease = FALSE] IN
           /\ JobStep(d, e, r, [d.job[r] EXCEPT !.lease = FALSE])
           /\ HeadsFirst(d) => HeadsFirst(e)
<1> DEFINE j == [d.job[r] EXCEPT !.lease = FALSE]
           e == WithJob(d, r, j)
<1>1. d \in Stores /\ InputOK(d.job[r], d.fu[r], d.cmd[r]) /\ d.job[r] \in JobRows
  BY RowsTyped DEF StoreOK, RowsOK
<1>2. /\ j \in JobRows /\ j.attempt = d.job[r].attempt /\ j.cancel = d.job[r].cancel
      /\ j.due = d.job[r].due /\ j.status = d.job[r].status
  BY <1>1 DEF JobRows, None
<1>3. e = [d EXCEPT !.job[r].lease = FALSE]
  BY <1>1, StoresAre DEF WithJob
<1> HIDE DEF j
<1>4. InputOK(j, d.fu[r], d.cmd[r]) /\ (Over(d, r) => j.status \in {"succeeded", "failed", "canceled"})
  BY <1>1, <1>2 DEF InputOK, Over
<1>5. JobStep(d, e, r, j) /\ ((WaitsInQueue(e, r) => WaitsInQueue(d, r)) /\ (MayRun(e, r) => MayRun(d, r)) =>
                (HeadsFirst(d) => HeadsFirst(e)))
  BY <1>1, <1>2, <1>4, JobSteps
<1> HIDE DEF e
<1>6. (WaitsInQueue(e, r) => WaitsInQueue(d, r)) /\ (MayRun(e, r) => MayRun(d, r))
  BY <1>1, <1>2, <1>5 DEF JobStep, MayRun, WaitsInQueue, Live, Over, InputOK
<1> QED
  BY <1>3, <1>5, <1>6 DEF j

\* A failed attempt that may be retried.
LEMMA RetryKeeps ==
    ASSUME NEW d, StoreOK(d), NEW r \in Runs, d.job[r].status = "held"
    PROVE  LET e == [d EXCEPT !.job[r] = [@ EXCEPT !.status = "retry_wait", !.due = FALSE,
                                            !.worker = None, !.lease = FALSE]] IN
           /\ JobStep(d, e, r, [d.job[r] EXCEPT !.status = "retry_wait", !.due = FALSE, !.worker = None, !.lease = FALSE])
           /\ HeadsFirst(d) => HeadsFirst(e)
<1> DEFINE j == [d.job[r] EXCEPT !.status = "retry_wait", !.due = FALSE, !.worker = None, !.lease = FALSE]
           e == WithJob(d, r, j)
<1>1. d \in Stores /\ InputOK(d.job[r], d.fu[r], d.cmd[r]) /\ d.job[r] \in JobRows
  BY RowsTyped DEF StoreOK, RowsOK
<1>2. /\ j \in JobRows /\ j.attempt = d.job[r].attempt /\ j.cancel = d.job[r].cancel
      /\ j.status = "retry_wait"
  BY <1>1 DEF JobRows, None
<1>3. e = [d EXCEPT !.job[r] = [@ EXCEPT !.status = "retry_wait", !.due = FALSE,
                                            !.worker = None, !.lease = FALSE]]
  BY <1>1, StoresAre DEF WithJob
<1> HIDE DEF j
<1>4. InputOK(j, d.fu[r], d.cmd[r]) /\ (Over(d, r) => j.status \in {"succeeded", "failed", "canceled"})
  BY <1>1, <1>2 DEF InputOK, Over
<1>5. JobStep(d, e, r, j) /\ ((WaitsInQueue(e, r) => WaitsInQueue(d, r)) /\ (MayRun(e, r) => MayRun(d, r)) =>
                (HeadsFirst(d) => HeadsFirst(e)))
  BY <1>1, <1>2, <1>4, JobSteps
<1> HIDE DEF e
<1>6. (WaitsInQueue(e, r) => WaitsInQueue(d, r)) /\ (MayRun(e, r) => MayRun(d, r))
  BY <1>1, <1>2, <1>5 DEF JobStep, MayRun, WaitsInQueue, Live, Over, InputOK
<1> QED
  BY <1>3, <1>5, <1>6 DEF j

\* The queue takes back a job whose lease ran out.
LEMMA RecoverKeeps ==
    ASSUME NEW d, StoreOK(d), NEW r \in Runs, d.job[r].status = "held"
    PROVE  LET e == [d EXCEPT !.job[r] = [@ EXCEPT !.status = "queued", !.due = TRUE, !.worker = None]] IN
           /\ JobStep(d, e, r, [d.job[r] EXCEPT !.status = "queued", !.due = TRUE, !.worker = None])
           /\ HeadsFirst(d) => HeadsFirst(e)
<1> DEFINE j == [d.job[r] EXCEPT !.status = "queued", !.due = TRUE, !.worker = None]
           e == WithJob(d, r, j)
<1>1. d \in Stores /\ InputOK(d.job[r], d.fu[r], d.cmd[r]) /\ d.job[r] \in JobRows
  BY RowsTyped DEF StoreOK, RowsOK
<1>2. /\ j \in JobRows /\ j.attempt = d.job[r].attempt /\ j.cancel = d.job[r].cancel
      /\ j.status = "queued"
  BY <1>1 DEF JobRows, None
<1>3. e = [d EXCEPT !.job[r] = [@ EXCEPT !.status = "queued", !.due = TRUE, !.worker = None]]
  BY <1>1, StoresAre DEF WithJob
<1> HIDE DEF j
<1>4. InputOK(j, d.fu[r], d.cmd[r]) /\ (Over(d, r) => j.status \in {"succeeded", "failed", "canceled"})
  BY <1>1, <1>2 DEF InputOK, Over
<1>5. JobStep(d, e, r, j) /\ ((WaitsInQueue(e, r) => WaitsInQueue(d, r)) /\ (MayRun(e, r) => MayRun(d, r)) =>
                (HeadsFirst(d) => HeadsFirst(e)))
  BY <1>1, <1>2, <1>4, JobSteps
<1> HIDE DEF e
<1>6. (WaitsInQueue(e, r) => WaitsInQueue(d, r)) /\ (MayRun(e, r) => MayRun(d, r))
  BY <1>1, <1>2, <1>5 DEF JobStep, MayRun, WaitsInQueue, Live, Over, InputOK
<1> QED
  BY <1>3, <1>5, <1>6 DEF j

\* The delay of a retry passes.
LEMMA RetryDueKeeps ==
    ASSUME NEW d, StoreOK(d), NEW r \in Runs, d.job[r].status = "retry_wait"
    PROVE  LET e == [d EXCEPT !.job[r] = [@ EXCEPT !.status = "queued", !.due = TRUE]] IN
           /\ JobStep(d, e, r, [d.job[r] EXCEPT !.status = "queued", !.due = TRUE])
           /\ HeadsFirst(d) => HeadsFirst(e)
<1> DEFINE j == [d.job[r] EXCEPT !.status = "queued", !.due = TRUE]
           e == WithJob(d, r, j)
<1>1. d \in Stores /\ InputOK(d.job[r], d.fu[r], d.cmd[r]) /\ d.job[r] \in JobRows
  BY RowsTyped DEF StoreOK, RowsOK
<1>2. /\ j \in JobRows /\ j.attempt = d.job[r].attempt /\ j.cancel = d.job[r].cancel
      /\ j.status = "queued"
  BY <1>1 DEF JobRows, None
<1>3. e = [d EXCEPT !.job[r] = [@ EXCEPT !.status = "queued", !.due = TRUE]]
  BY <1>1, StoresAre DEF WithJob
<1> HIDE DEF j
<1>4. InputOK(j, d.fu[r], d.cmd[r]) /\ (Over(d, r) => j.status \in {"succeeded", "failed", "canceled"})
  BY <1>1, <1>2 DEF InputOK, Over
<1>5. JobStep(d, e, r, j) /\ ((WaitsInQueue(e, r) => WaitsInQueue(d, r)) /\ (MayRun(e, r) => MayRun(d, r)) =>
                (HeadsFirst(d) => HeadsFirst(e)))
  BY <1>1, <1>2, <1>4, JobSteps
<1> HIDE DEF e
<1>6. (WaitsInQueue(e, r) => WaitsInQueue(d, r)) /\ (MayRun(e, r) => MayRun(d, r))
  BY <1>1, <1>2, <1>5 DEF JobStep, MayRun, WaitsInQueue, Live, Over, InputOK
<1> QED
  BY <1>3, <1>5, <1>6 DEF j

\* The user submits an input: whatever the delivery decision is, it becomes the last
\* of the queue, or the only one, or a steer of the running turn.
LEMMA SubmitKeeps ==
    ASSUME NEW d, StoreOK(d), NEW r \in Runs, d.job[r].status = "absent",
           \A q \in 1..(r - 1) : d.job[q].status # "absent",
           NEW mode \in Delivery(d), NEW kind \in {"steer_current", "ask_user"}
    PROVE  LET e == Submitted(d, r, mode, kind) IN
           /\ StoreOK(e) /\ (HeadsFirst(d) => HeadsFirst(e))
           /\ OnlyInput(d, e, r) /\ KeepsInputs(d, e) /\ e.rt = d.rt /\ SameTasks(d, e)
           /\ e.job[r].status = "queued"
<1> DEFINE b == (mode = "none")
           j == [d.job[r] EXCEPT !.status = "queued", !.due = b]
           f == [mode |-> mode, state |-> IF mode = "none" THEN "none" ELSE "queued"]
           c == IF mode = "steer_only" THEN SteerCommand(d, kind) ELSE d.cmd[r]
           e == WithInput(d, r, j, f, c)
<1>1. /\ d \in Stores /\ d.job[r] \in JobRows /\ d.cmd[r] \in CommandRows /\ d.rt \in RuntimeRows
      /\ InputOK(d.job[r], d.fu[r], d.cmd[r]) /\ RuntimeOK(d)
  BY RowsTyped DEF StoreOK, RowsOK
<1>2. mode \in {"none", "follow_up", "steer_only"} /\ (mode = "steer_only" => d.rt.state = "running")
  BY DEF Delivery
<1>3. /\ j \in JobRows /\ j.status = "queued" /\ j.attempt = d.job[r].attempt
      /\ j.due <=> mode = "none"
  BY <1>1 DEF JobRows
<1>4. /\ f \in FollowupRows /\ f.mode = mode
      /\ f.state = IF mode = "none" THEN "none" ELSE "queued"
  BY <1>2 DEF FollowupRows
<1>5. c \in CommandRows
  BY <1>1 DEF CommandRows, SteerCommand, RuntimeRows, None
<1>6. mode = "steer_only" => c.state = "pending"
  BY DEF SteerCommand
<1>7. mode # "steer_only" => c = d.cmd[r]
  OBVIOUS
<1>8. Submitted(d, r, mode, kind) = e
  <2> DEFINE g == [d EXCEPT !.job[r].status = "queued", !.job[r].due = b, !.fu[r] = f]
  <2>1. Submitted(d, r, mode, kind) =
          IF mode = "steer_only" THEN [g EXCEPT !.cmd[r] = SteerCommand(d, kind)] ELSE g
    BY DEF Submitted
  <2> HIDE DEF b, f
  <2>2. g = [d EXCEPT !.job = [d.job EXCEPT ![r] = j], !.fu = [d.fu EXCEPT ![r] = f]]
    <3> DEFINE k == [d EXCEPT !.job[r].status = "queued", !.job[r].due = b]
    <3>1. k = [d EXCEPT !.job = [d.job EXCEPT ![r] = j]]
      BY <1>1, StoresAre
    <3>2. g = [k EXCEPT !.fu = [d.fu EXCEPT ![r] = f]]
      BY <1>1, StoresAre
    <3> HIDE DEF k, g, j
    <3>3. QED
      BY <1>1, <3>1, <3>2, StoresAre
  <2> HIDE DEF g, j
  <2>3. CASE mode = "steer_only"
    <3>1. c = SteerCommand(d, kind)
      BY <2>3
    <3> HIDE DEF c
    <3>2. Submitted(d, r, mode, kind) = [g EXCEPT !.cmd[r] = c]
      BY <2>1, <2>3, <3>1
    <3>3. QED
      BY <1>1, <2>2, <3>2, StoresAre DEF WithInput
  <2>4. CASE mode # "steer_only"
    <3>1. [d.cmd EXCEPT ![r] = c] = d.cmd
      BY <1>1, <1>7, <2>4, SameRow
    <3>2. Submitted(d, r, mode, kind) = g
      BY <2>1, <2>4
    <3> HIDE DEF c
    <3>3. QED
      BY <1>1, <2>2, <3>1, <3>2, StoresAre DEF WithInput
  <2>5. QED
    BY <2>3, <2>4
<1> HIDE DEF b, j, f, c
<1>9. /\ e \in Stores /\ e.job[r] = j /\ e.fu[r] = f /\ e.cmd[r] = c /\ OnlyInput(d, e, r)
      /\ e.rt = d.rt /\ SameTasks(d, e)
  BY <1>3, <1>4, <1>5, PutInput DEF SameTasks
<1> HIDE DEF e
<1>10. InputOK(e.job[r], e.fu[r], e.cmd[r])
  BY <1>1, <1>2, <1>3, <1>4, <1>6, <1>7, <1>9 DEF InputOK
<1>11. KeepsInputs(d, e)
  <2>1. KeepsInput(d, e, r)
    BY <1>1, <1>2, <1>3, <1>4, <1>6, <1>7, <1>9 DEF InputOK, KeepsInput, KeepsRow
  <2>2. QED
    BY <1>9, <2>1, OneKeeps
<1>12. RuntimeOK(e)
  BY <1>1, <1>9 DEF RuntimeOK, OnlyInput
<1>13. r \in Nat /\ \A q \in Runs : q \in Nat /\ (q < r => d.job[q].status # "absent")
  BY StoreAssumption DEF Runs
<1>14. InOrder(d) /\ SteersOver(d)
  BY DEF StoreOK, RowsOK
<1>15. InOrder(e)
  BY <1>3, <1>9, <1>13, <1>14 DEF InOrder, OnlyInput
<1>16. SteersOver(e)
  BY <1>2, <1>4, <1>9, <1>14 DEF SteersOver, OnlyInput, Over
<1>17. StoreOK(e)
  BY <1>9, <1>10, <1>12, <1>15, <1>16 DEF StoreOK, RowsOK, OnlyInput
<1>18. ASSUME HeadsFirst(d) PROVE HeadsFirst(e)
  <2>1. ASSUME NEW q \in Runs, NEW p \in Runs, q < p, MayRun(e, p), WaitsInQueue(e, q) PROVE FALSE
    <3>1. CASE p = r
      <4>1. mode = "none"
        BY <2>1, <3>1, <1>3, <1>4, <1>9 DEF MayRun
      <4>2. q # r /\ q \in Runs
        BY <2>1, <3>1, <1>13
      <4>3. Live(d, q)
        BY <2>1, <4>2, <1>9 DEF WaitsInQueue, OnlyInput, Live, Over
      <4>4. QED
        BY <4>1, <4>3 DEF Delivery
    <3>2. CASE p # r /\ q = r
      <4>1. d.job[p].status = "absent" /\ InputOK(d.job[p], d.fu[p], d.cmd[p])
        BY <2>1, <3>2, <1>14 DEF InOrder, StoreOK, RowsOK
      <4>2. QED
        BY <2>1, <3>2, <4>1, <1>9 DEF MayRun, InputOK, OnlyInput
    <3>3. CASE p # r /\ q # r
      BY <2>1, <3>3, <1>9, <1>18 DEF HeadsFirst, OnlyInput, MayRun, WaitsInQueue, Live, Over
    <3>4. QED
      BY <3>1, <3>2, <3>3
  <2>2. QED
    BY <2>1 DEF HeadsFirst
<1> QED
  BY <1>3, <1>8, <1>9, <1>11, <1>17, <1>18

-----------------------------------------------------------------------------
(* Sweeps: the release of a runtime *)

\* A sweep over the queue touches no job that is not queued, cancels steers only,
\* and keeps every input.
Sweep(d, e) ==
    /\ SameTasks(d, e)
    /\ \A r \in Runs :
         /\ d.job[r].status # "queued" => e.job[r] = d.job[r]
         /\ e.job[r].status # d.job[r].status =>
              e.job[r].status = "canceled" /\ d.fu[r].mode = "steer_only"
         /\ e.fu[r].mode = d.fu[r].mode
         /\ KeepsInput(d, e, r)

\* One sweep after another is a sweep.
LEMMA SweepTwice ==
    ASSUME NEW d, NEW e, NEW g, Sweep(d, e), Sweep(e, g)
    PROVE  Sweep(d, g)
BY DEF Sweep, SameTasks, KeepsInput, KeepsRow

\* A store with other inputs.
WithInputs(d, J, F, C) == [d EXCEPT !.job = J, !.fu = F, !.cmd = C]

\* Nothing else moves.
LEMMA PutInputs ==
    ASSUME NEW d \in Stores, NEW J \in JobTables, NEW F \in FollowupTables, NEW C \in CommandTables
    PROVE  LET e == WithInputs(d, J, F, C) IN
           /\ e \in Stores /\ e.job = J /\ e.fu = F /\ e.cmd = C
           /\ e.rt = d.rt /\ SameTasks(d, e)
BY StoresAre DEF WithInputs, SameTasks

\* An input neither appears nor vanishes, and only moves on from the queue.
StaysPut(d, e, r) ==
    /\ e.job[r].status = "absent" <=> d.job[r].status = "absent"
    /\ e.fu[r].mode = d.fu[r].mode
    /\ e.fu[r].state # d.fu[r].state =>
         /\ d.fu[r].state = "queued" /\ e.fu[r].state # "queued"
         /\ e.fu[r].state = "released" => d.fu[r].mode = "follow_up"

\* The rows stay in order when those of every input do.
LEMMA ManyInputs ==
    ASSUME NEW d, RowsOK(d), NEW e \in Stores, e.rt = d.rt,
           \A r \in Runs : InputOK(e.job[r], e.fu[r], e.cmd[r]),
           \A r \in Runs : StaysPut(d, e, r)
    PROVE  RowsOK(e)
<1>1. RuntimeOK(d) /\ InOrder(d)
  BY DEF RowsOK
<1>2. RuntimeOK(e)
  BY <1>1 DEF RuntimeOK, StaysPut
<1>3. InOrder(e)
  BY <1>1 DEF InOrder, StaysPut
<1> QED
  BY <1>2, <1>3 DEF RowsOK

\* rejectOpenCommands: no command is left open.
LEMMA RejectSweeps ==
    ASSUME NEW d, RowsOK(d)
    PROVE  LET e == RejectOpenCommands(d) IN
           /\ RowsOK(e) /\ Sweep(d, e) /\ e.rt = d.rt /\ e.job = d.job /\ e.fu = d.fu
           /\ \A r \in Runs : e.cmd[r].state \notin {"pending", "claimed"}
           /\ HeadsFirst(d) => HeadsFirst(e)
<1> DEFINE c(r) == IF d.cmd[r].state \in {"pending", "claimed"}
                   THEN [d.cmd[r] EXCEPT !.state = "rejected"] ELSE d.cmd[r]
           C == [r \in Runs |-> c(r)]
           e == RejectOpenCommands(d)
<1>1. d \in Stores /\ \A r \in Runs : d.cmd[r] \in CommandRows
  BY RowsTyped DEF RowsOK
<1>2. ASSUME NEW r \in Runs
      PROVE  /\ c(r) \in CommandRows /\ c(r).state \notin {"pending", "claimed"}
             /\ c(r).gen = d.cmd[r].gen
             /\ c(r).state = "none" <=> d.cmd[r].state = "none"
             /\ c(r).state = "consumed" <=> d.cmd[r].state = "consumed"
  BY <1>1 DEF CommandRows
<1>3. C \in CommandTables
  BY <1>2 DEF CommandTables
<1>4. e = [d EXCEPT !.cmd = C]
  BY DEF RejectOpenCommands
<1>5. \A r \in Runs : C[r] = c(r)
  OBVIOUS
<1> HIDE DEF C, e, c
<1>6. /\ e \in Stores /\ e.rt = d.rt /\ e.job = d.job /\ e.fu = d.fu /\ SameTasks(d, e)
      /\ e.cmd = C
  BY <1>1, <1>3, <1>4, StoresAre DEF SameTasks
<1>7. \A r \in Runs : InputOK(e.job[r], e.fu[r], e.cmd[r])
  BY <1>2, <1>5, <1>6 DEF RowsOK, InputOK
<1>8. RowsOK(e)
  <2>1. \A r \in Runs : StaysPut(d, e, r)
    BY <1>6 DEF StaysPut
  <2>2. QED
    BY <1>6, <1>7, <2>1, ManyInputs
<1>9. Sweep(d, e)
  BY <1>2, <1>5, <1>6 DEF Sweep, KeepsInput, KeepsRow
<1>10. HeadsFirst(d) => HeadsFirst(e)
  BY <1>6 DEF HeadsFirst, MayRun, WaitsInQueue, Live, Over
<1> QED
  BY <1>2, <1>5, <1>6, <1>8, <1>9, <1>10 DEF e

\* cancelUnadoptedSteers ends every refused steer.
LEMMA CancelSweeps ==
    ASSUME NEW d, RowsOK(d)
    PROVE  LET e == CancelUnadoptedSteers(d) IN
           /\ RowsOK(e) /\ Sweep(d, e) /\ e.rt = d.rt /\ e.cmd = d.cmd
           /\ \A r \in Runs : d.fu[r].mode = "steer_only" /\ d.cmd[r].state \notin {"pending", "claimed"}
                => Over(e, r)
           /\ HeadsFirst(d) => HeadsFirst(e)
           /\ SteersOver(d) => SteersOver(e)
<1> DEFINE lost == {r \in Runs : /\ d.fu[r].mode = "steer_only"
                                 /\ d.fu[r].state = "queued"
                                 /\ d.cmd[r].state = "rejected"}
           f(r) == IF r \in lost THEN [d.fu[r] EXCEPT !.state = "canceled"] ELSE d.fu[r]
           j(r) == IF r \in lost /\ d.job[r].status = "queued"
                   THEN [d.job[r] EXCEPT !.status = "canceled"] ELSE d.job[r]
           F == [r \in Runs |-> f(r)]
           J == [r \in Runs |-> j(r)]
           e == CancelUnadoptedSteers(d)
<1>1. d \in Stores /\ \A r \in Runs : d.fu[r] \in FollowupRows /\ d.job[r] \in JobRows
  BY RowsTyped DEF RowsOK
<1>2. e = [d EXCEPT !.fu = F, !.job = J]
  BY DEF CancelUnadoptedSteers
<1>3. \A r \in Runs : F[r] = f(r) /\ J[r] = j(r)
  OBVIOUS
<1>4. ASSUME NEW r \in Runs
      PROVE  /\ f(r) \in FollowupRows /\ f(r).mode = d.fu[r].mode
             /\ f(r).state = IF r \in lost THEN "canceled" ELSE d.fu[r].state
             /\ j(r) \in JobRows
             /\ d.job[r].status # "queued" => j(r) = d.job[r]
             /\ j(r).status = IF r \in lost /\ d.job[r].status = "queued" THEN "canceled"
                              ELSE d.job[r].status
             /\ j(r).attempt = d.job[r].attempt /\ j(r).due = d.job[r].due
             /\ j(r).cancel = d.job[r].cancel
  BY <1>1 DEF JobRows, FollowupRows
<1>5. F \in FollowupTables /\ J \in JobTables
  BY <1>4 DEF FollowupTables, JobTables
<1>6. \A r \in Runs : r \in lost <=> /\ d.fu[r].mode = "steer_only"
                                     /\ d.fu[r].state = "queued"
                                     /\ d.cmd[r].state = "rejected"
  OBVIOUS
<1> HIDE DEF F, J, e, f, j, lost
<1>7. /\ e \in Stores /\ e.rt = d.rt /\ e.cmd = d.cmd /\ SameTasks(d, e)
      /\ e.fu = F /\ e.job = J
  BY <1>1, <1>2, <1>5, StoresAre DEF SameTasks
<1>8. \A r \in Runs : InputOK(e.job[r], e.fu[r], e.cmd[r])
  BY <1>3, <1>4, <1>6, <1>7 DEF RowsOK, InputOK
<1>9. RowsOK(e)
  <2>1. \A r \in Runs : StaysPut(d, e, r)
    BY <1>3, <1>4, <1>6, <1>7 DEF StaysPut
  <2>2. QED
    BY <1>7, <1>8, <2>1, ManyInputs
<1>10. Sweep(d, e)
  BY <1>3, <1>4, <1>6, <1>7 DEF Sweep, KeepsInput, KeepsRow
<1>11. \A r \in Runs : d.fu[r].mode = "steer_only" /\ d.cmd[r].state \notin {"pending", "claimed"}
                => Over(e, r)
  <2>1. ASSUME NEW r \in Runs, d.fu[r].mode = "steer_only", d.cmd[r].state \notin {"pending", "claimed"}
        PROVE  Over(e, r)
    <3>1. InputOK(d.job[r], d.fu[r], d.cmd[r]) /\ d.cmd[r] \in CommandRows
      BY <1>1, RowsTyped DEF RowsOK
    <3>2. CASE d.job[r].status = "queued"
      <4>1. d.fu[r].state = "queued" /\ d.cmd[r].state = "rejected"
        BY <2>1, <3>1, <3>2 DEF InputOK, CommandRows
      <4>2. QED
        BY <2>1, <3>2, <4>1, <1>3, <1>4, <1>6, <1>7 DEF Over
    <3>3. CASE d.job[r].status # "queued"
      BY <2>1, <3>1, <3>3, <1>3, <1>4, <1>7 DEF InputOK, Over
    <3>4. QED
      BY <3>2, <3>3
  <2>2. QED
    BY <2>1
<1>12. HeadsFirst(d) => HeadsFirst(e)
  <2>1. \A r \in Runs : (MayRun(e, r) => MayRun(d, r)) /\ (WaitsInQueue(e, r) => WaitsInQueue(d, r))
    BY <1>3, <1>4, <1>6, <1>7 DEF MayRun, WaitsInQueue, Live, Over
  <2>2. QED
    BY <2>1 DEF HeadsFirst
<1>13. SteersOver(d) => SteersOver(e)
  BY <1>3, <1>4, <1>7 DEF SteersOver, Over
<1> QED
  BY <1>7, <1>9, <1>10, <1>11, <1>12, <1>13 DEF e

\* releaseNextConversationFollowup lets the oldest input of the queue go.
LEMMA NextSweeps ==
    ASSUME NEW d, RowsOK(d)
    PROVE  LET e == ReleaseNextFollowup(d) IN
           /\ RowsOK(e) /\ Sweep(d, e) /\ e.rt = d.rt
           /\ SteersOver(d) => SteersOver(e)
           /\ HeadsFirst(d) => HeadsFirst(e)
<1> DEFINE ready == {r \in Runs : /\ d.fu[r].state = "queued"
                                  /\ d.fu[r].mode # "steer_only"
                                  /\ d.job[r].status = "queued"
                                  /\ ~d.job[r].cancel}
           m == Min(ready)
           f == [d.fu[m] EXCEPT !.state = "released"]
           j == [d.job[m] EXCEPT !.due = TRUE]
           e == WithInputs(d, [d.job EXCEPT ![m] = j], [d.fu EXCEPT ![m] = f], d.cmd)
<1>1. d \in Stores /\ \A r \in Runs : d.fu[r] \in FollowupRows /\ d.job[r] \in JobRows
  BY RowsTyped DEF RowsOK
<1>2. CASE ready = {}
  <2>1. ReleaseNextFollowup(d) = d
    BY <1>2 DEF ReleaseNextFollowup
  <2>2. Sweep(d, d)
    BY DEF Sweep, SameTasks, KeepsInput, KeepsRow
  <2>3. QED
    BY <2>1, <2>2
<1>3. CASE ready # {}
  <2>1. ready \in SUBSET Runs
    OBVIOUS
  <2>2. ReleaseNextFollowup(d) = [d EXCEPT !.fu[m].state = "released", !.job[m].due = TRUE]
    BY <1>3 DEF ReleaseNextFollowup
  <2>3. \A r \in Runs : r \in ready <=> /\ d.fu[r].state = "queued" /\ d.fu[r].mode # "steer_only"
                                        /\ d.job[r].status = "queued" /\ ~d.job[r].cancel
    OBVIOUS
  <2> HIDE DEF ready
  <2>4. m \in ready /\ \A q \in ready : m <= q
    BY <1>3, <2>1, MinIsSmallest
  <2>5. m \in Runs
    BY <2>1, <2>4
  <2> HIDE DEF m
  <2>6. ReleaseNextFollowup(d) = e
    <3>1. [d EXCEPT !.fu[m].state = "released", !.job[m].due = TRUE] =
            [d EXCEPT !.fu = [d.fu EXCEPT ![m] = f], !.job = [d.job EXCEPT ![m] = j]]
      BY <1>1, <2>5, StoresAre
    <3> HIDE DEF f, j
    <3>2. QED
      BY <1>1, <2>2, <3>1, StoresAre DEF WithInputs
  <2>7. /\ f \in FollowupRows /\ f.mode = d.fu[m].mode /\ f.state = "released"
        /\ j \in JobRows /\ j.status = d.job[m].status /\ j.attempt = d.job[m].attempt
        /\ j.cancel = d.job[m].cancel
    BY <1>1, <2>5 DEF JobRows, FollowupRows
  <2> HIDE DEF f, j
  <2>8. /\ d.job \in JobTables /\ d.fu \in FollowupTables /\ d.cmd \in CommandTables
        /\ [d.job EXCEPT ![m] = j] \in JobTables /\ [d.fu EXCEPT ![m] = f] \in FollowupTables
    BY <1>1, <2>7, StoresAre DEF JobTables, FollowupTables
  <2>9. /\ e \in Stores /\ e.job = [d.job EXCEPT ![m] = j] /\ e.fu = [d.fu EXCEPT ![m] = f]
        /\ e.cmd = d.cmd /\ e.rt = d.rt /\ SameTasks(d, e)
    BY <1>1, <2>8, PutInputs
  <2> HIDE DEF e
  <2>10. /\ e.job[m] = j /\ e.fu[m] = f
         /\ \A q \in Runs \ {m} : e.job[q] = d.job[q] /\ e.fu[q] = d.fu[q]
    BY <2>5, <2>8, <2>9 DEF JobTables, FollowupTables
  <2>11. d.fu[m].mode = "follow_up" /\ d.fu[m].state = "queued"
    BY <1>1, <2>3, <2>4, <2>5 DEF RowsOK, InputOK, FollowupRows
  <2>12. \A r \in Runs : InputOK(e.job[r], e.fu[r], e.cmd[r])
    <3>1. InputOK(e.job[m], e.fu[m], e.cmd[m])
      BY <2>3, <2>4, <2>5, <2>7, <2>9, <2>10, <2>11 DEF RowsOK, InputOK
    <3>2. \A r \in Runs \ {m} : InputOK(e.job[r], e.fu[r], e.cmd[r])
      BY <2>9, <2>10 DEF RowsOK
    <3>3. QED
      BY <3>1, <3>2
  <2>13. RowsOK(e)
    <3>1. \A r \in Runs : StaysPut(d, e, r)
      BY <2>5, <2>7, <2>9, <2>10, <2>11 DEF StaysPut
    <3>2. QED
      BY <2>9, <2>12, <3>1, ManyInputs
  <2>14. Sweep(d, e)
    BY <2>3, <2>4, <2>5, <2>7, <2>9, <2>10, <2>11 DEF Sweep, KeepsInput, KeepsRow
  <2>15. SteersOver(d) => SteersOver(e)
    BY <2>7, <2>9, <2>10 DEF SteersOver, Over
  <2>16. ASSUME HeadsFirst(d) PROVE HeadsFirst(e)
    <3>1. \A q \in Runs : WaitsInQueue(e, q) => q # m /\ WaitsInQueue(d, q)
      BY <2>7, <2>10 DEF WaitsInQueue, Live, Over
    <3>2. \A q \in Runs \ {m} : MayRun(e, q) => MayRun(d, q)
      BY <2>10 DEF MayRun
    <3>3. ASSUME NEW q \in Runs, q < m, WaitsInQueue(d, q) PROVE FALSE
      <4>1. d.job[q].status = "queued"
        BY <1>1, <3>3 DEF WaitsInQueue, Live, Over, RowsOK, InputOK, JobRows
      <4>2. q \in ready
        BY <2>3, <3>3, <4>1 DEF WaitsInQueue
      <4>3. q \in Nat /\ m \in Nat
        BY <2>5, StoreAssumption DEF Runs
      <4>4. QED
        BY <2>4, <3>3, <4>2, <4>3
    <3> HIDE DEF WaitsInQueue, MayRun
    <3>4. QED
      BY <2>16, <3>1, <3>2, <3>3 DEF HeadsFirst
  <2>17. QED
    BY <2>6, <2>9, <2>13, <2>14, <2>15, <2>16
<1> QED
  BY <1>2, <1>3

\* The runtime row after a release.
Freed(t) == [t EXCEPT !.state = "idle", !.run = None, !.turn = None, !.worker = None]

\* It is idle.
LEMMA FreedIs ==
    ASSUME NEW t \in RuntimeRows
    PROVE  Freed(t).state = "idle"
BY DEF Freed, RuntimeRows

\* releaseConversationRuntimeTransaction: the runtime is free, no steer is left,
\* and the next input may go.
LEMMA ReleaseKeeps ==
    ASSUME NEW d, RowsOK(d)
    PROVE  LET e == ReleaseRuntime(d) IN
           /\ StoreOK(e) /\ Sweep(d, e)
           /\ e.rt = Freed(d.rt)
           /\ HeadsFirst(d) => HeadsFirst(e)
<1> DEFINE t == [d.rt EXCEPT !.state = "idle", !.run = None, !.turn = None, !.worker = None]
           d1 == [d EXCEPT !.rt = t]
           d2 == RejectOpenCommands(d1)
           d3 == CancelUnadoptedSteers(d2)
           e == ReleaseNextFollowup(d3)
<1>1. d \in Stores /\ d.rt \in RuntimeRows /\ RuntimeOK(d)
  BY RowsTyped DEF RowsOK
<1>2. /\ t \in RuntimeRows /\ t.state = "idle" /\ t.run = None /\ t.turn = None
      /\ t.thread = d.rt.thread /\ t.gen = d.rt.gen
  BY <1>1 DEF RuntimeRows, None
<1>3. ReleaseRuntime(d) = e
  BY DEF ReleaseRuntime
<1> HIDE DEF t
<1>4. /\ d1 \in Stores /\ d1.rt = t /\ d1.job = d.job /\ d1.fu = d.fu /\ d1.cmd = d.cmd
      /\ SameTasks(d, d1)
  BY <1>1, <1>2, StoresAre DEF SameTasks
<1> HIDE DEF d1
<1>5. RowsOK(d1)
  BY <1>1, <1>2, <1>4 DEF RowsOK, RuntimeOK, InOrder
<1>6. Sweep(d, d1) /\ (HeadsFirst(d) => HeadsFirst(d1))
  BY <1>4 DEF Sweep, KeepsInput, KeepsRow, HeadsFirst, MayRun, WaitsInQueue, Live, Over
<1>7. /\ RowsOK(d2) /\ Sweep(d1, d2) /\ d2.rt = t
      /\ \A r \in Runs : d2.cmd[r].state \notin {"pending", "claimed"}
      /\ HeadsFirst(d1) => HeadsFirst(d2)
  BY <1>4, <1>5, RejectSweeps
<1> HIDE DEF d2
<1>8. /\ RowsOK(d3) /\ Sweep(d2, d3) /\ d3.rt = t
      /\ \A r \in Runs : d2.fu[r].mode = "steer_only" => Over(d3, r)
      /\ HeadsFirst(d2) => HeadsFirst(d3)
  BY <1>7, CancelSweeps
<1> HIDE DEF d3
<1>9. SteersOver(d3)
  BY <1>8 DEF SteersOver, Sweep
<1>10. RowsOK(e) /\ Sweep(d3, e) /\ e.rt = t /\ SteersOver(e) /\ (HeadsFirst(d3) => HeadsFirst(e))
  BY <1>8, <1>9, NextSweeps
<1> HIDE DEF e
<1>11. Sweep(d, e)
  BY <1>6, <1>7, <1>8, <1>10, SweepTwice
<1> QED
  BY <1>3, <1>6, <1>7, <1>8, <1>10, <1>11 DEF StoreOK, t, Freed

-----------------------------------------------------------------------------
(* Transactions about one run *)

\* The jobs of the others: one that is not queued stays as it is, and only a steer
\* is ended.
Others(d, e, r) ==
    \A q \in Runs \ {r} :
        /\ d.job[q].status # "queued" => e.job[q] = d.job[q]
        /\ e.job[q].status # d.job[q].status =>
             e.job[q].status = "canceled" /\ d.fu[q].mode = "steer_only"
        /\ e.fu[q].mode = d.fu[q].mode

\* A step on the rows of r leaves the jobs of the others.
LEMMA OnlyIsOthers ==
    ASSUME NEW d, NEW e, NEW r, OnlyInput(d, e, r)
    PROVE  Others(d, e, r)
BY DEF OnlyInput, Others

\* So it does when a sweep follows.
LEMMA SweepIsOthers ==
    ASSUME NEW d, NEW e, NEW g, NEW r, Others(d, e, r), Sweep(e, g)
    PROVE  Others(d, g, r)
BY DEF Sweep, Others

\* The keeping of inputs, twice.
LEMMA KeepTwice ==
    ASSUME NEW d, NEW e, NEW g, KeepsInputs(d, e), KeepsInputs(e, g),
           \A r \in Runs : d.job[r].status # "absent" => e.job[r].status # "absent"
    PROVE  KeepsInputs(d, g)
BY DEF KeepsInputs, KeepsInput, KeepsRow

\* transitionTerminal ends a job and frees the runtime it has.
LEMMA TerminalKeeps ==
    ASSUME NEW d, StoreOK(d), NEW r \in Runs, d.job[r].status # "absent",
           NEW end \in {"succeeded", "failed", "canceled"},
           d.fu[r].mode = "steer_only" => end = "canceled"
    PROVE  LET e == TransitionTerminal(d, r, end) IN
           /\ StoreOK(e) /\ (HeadsFirst(d) => HeadsFirst(e))
           /\ KeepsInputs(d, e) /\ SameTasks(d, e) /\ Others(d, e, r)
           /\ e.job[r].status = end
           /\ e.rt = (IF d.rt.state = "running" /\ d.rt.run = r THEN Freed(d.rt) ELSE d.rt)
<1> DEFINE g == EndJob(d, r, end)
           j == [d.job[r] EXCEPT !.status = end, !.worker = None, !.lease = FALSE]
           e == TransitionTerminal(d, r, end)
<1>1. JobStep(d, g, r, j) /\ (HeadsFirst(d) => HeadsFirst(g))
  BY EndKeeps
<1>2. j.status = end
  <2>1. d.job[r] \in JobRows
    BY RowsTyped DEF StoreOK, RowsOK
  <2>2. QED
    BY <2>1 DEF JobRows
<1> HIDE DEF g, j
<1>3. /\ StoreOK(g) /\ g.job[r] = j /\ OnlyInput(d, g, r) /\ KeepsInputs(d, g)
      /\ g.rt = d.rt /\ SameTasks(d, g) /\ Others(d, g, r)
  BY <1>1, OnlyIsOthers DEF JobStep
<1>4. CASE d.rt.state = "running" /\ d.rt.run = r
  <2>1. e = ReleaseRuntime(g)
    BY <1>4 DEF TransitionTerminal, g
  <2>2. /\ StoreOK(e) /\ Sweep(g, e) /\ (HeadsFirst(g) => HeadsFirst(e))
        /\ e.rt = Freed(g.rt)
    BY <1>3, <2>1, ReleaseKeeps DEF StoreOK
  <2> HIDE DEF e
  <2>3. e.job[r].status = end
    BY <1>2, <1>3, <2>2 DEF Sweep
  <2>4. Others(d, e, r)
    BY <1>3, <2>2, SweepIsOthers
  <2>5. KeepsInputs(g, e) /\ SameTasks(g, e)
    BY <2>2 DEF Sweep, KeepsInputs
  <2>6. \A q \in Runs : d.job[q].status # "absent" => g.job[q].status # "absent"
    BY <1>2, <1>3 DEF OnlyInput
  <2>7. KeepsInputs(d, e) /\ SameTasks(d, e)
    BY <1>3, <2>5, <2>6, KeepTwice DEF SameTasks
  <2>8. QED
    BY <1>1, <1>3, <1>4, <2>2, <2>3, <2>4, <2>7 DEF e
<1>5. CASE ~(d.rt.state = "running" /\ d.rt.run = r)
  <2>1. e = g
    BY <1>5 DEF TransitionTerminal, g
  <2>2. QED
    BY <1>1, <1>2, <1>3, <1>5, <2>1
<1> QED
  BY <1>4, <1>5

\* updateQueuedMessage: edit and remove.
LEMMA RemoveKeeps ==
    ASSUME NEW d, StoreOK(d), NEW r \in Runs, QueuedMessage(d, r)
    PROVE  LET e == RemoveQueued(d, r) IN
           /\ StoreOK(e) /\ (HeadsFirst(d) => HeadsFirst(e))
           /\ KeepsInputs(d, e) /\ SameTasks(d, e) /\ Others(d, e, r) /\ e.rt = d.rt
           /\ e.job[r].status = "canceled"
<1> DEFINE j == [d.job[r] EXCEPT !.status = "canceled", !.worker = None, !.lease = FALSE]
           f == [d.fu[r] EXCEPT !.state = "canceled"]
           g == WithInput(d, r, j, f, d.cmd[r])
           e == RemoveQueued(d, r)
<1>1. /\ d \in Stores /\ InputOK(d.job[r], d.fu[r], d.cmd[r]) /\ RuntimeOK(d) /\ SteersOver(d)
      /\ d.job[r] \in JobRows /\ d.fu[r] \in FollowupRows /\ d.cmd[r] \in CommandRows
  BY RowsTyped DEF StoreOK, RowsOK
<1>2. /\ j \in JobRows /\ j.status = "canceled" /\ j.attempt = d.job[r].attempt
      /\ j.due = d.job[r].due
      /\ f \in FollowupRows /\ f.mode = d.fu[r].mode /\ f.state = "canceled"
  BY <1>1 DEF JobRows, FollowupRows, None
<1>3. [EndJob(d, r, "canceled") EXCEPT !.fu[r].state = "canceled"] = g
  <2>1. EndJob(d, r, "canceled") = [d EXCEPT !.job = [d.job EXCEPT ![r] = j]]
    BY <1>1, StoresAre DEF EndJob
  <2>2. [d.cmd EXCEPT ![r] = d.cmd[r]] = d.cmd
    BY <1>1, SameRow
  <2> HIDE DEF j
  <2>3. [[d EXCEPT !.job = [d.job EXCEPT ![r] = j]] EXCEPT !.fu[r].state = "canceled"]
          = [d EXCEPT !.job = [d.job EXCEPT ![r] = j], !.fu = [d.fu EXCEPT ![r] = f]]
    BY <1>1, StoresAre
  <2> HIDE DEF f
  <2>4. g = [d EXCEPT !.job = [d.job EXCEPT ![r] = j], !.fu = [d.fu EXCEPT ![r] = f]]
    BY <1>1, <2>2, StoresAre DEF WithInput
  <2>5. QED
    BY <2>1, <2>3, <2>4
<1> HIDE DEF j, f
<1>4. /\ g \in Stores /\ g.job[r] = j /\ g.fu[r] = f /\ g.cmd[r] = d.cmd[r]
      /\ OnlyInput(d, g, r) /\ g.rt = d.rt /\ SameTasks(d, g)
  BY <1>1, <1>2, PutInput DEF SameTasks
<1>5. e = IF d.fu[r].state = "released" /\ d.rt.state # "running" THEN ReleaseNextFollowup(g) ELSE g
  BY <1>3 DEF RemoveQueued
<1> HIDE DEF g, e
<1>6. d.fu[r].mode = "follow_up" /\ d.fu[r].state \in {"queued", "released"} /\ d.job[r].status = "queued"
  BY DEF QueuedMessage
<1>7. InputOK(g.job[r], g.fu[r], g.cmd[r])
  BY <1>1, <1>2, <1>4, <1>6 DEF InputOK
<1>8. StoreOK(g)
  <2>1. g.fu[r].state # "released" /\ g.fu[r].state # "queued" /\ g.fu[r].mode # "steer_only"
        /\ g.job[r].status # "absent" /\ d.job[r].status # "absent"
    BY <1>2, <1>4, <1>6
  <2>2. QED
    BY <1>4, <1>7, <2>1, OneInput
<1>9. KeepsInputs(d, g)
  <2>1. KeepsInput(d, g, r)
    BY <1>2, <1>4, <1>6 DEF KeepsInput, KeepsRow
  <2>2. QED
    BY <1>4, <2>1, OneKeeps
<1>10. HeadsFirst(d) => HeadsFirst(g)
  <2>1. (WaitsInQueue(g, r) => WaitsInQueue(d, r)) /\ (MayRun(g, r) => MayRun(d, r))
    BY <1>2, <1>4 DEF WaitsInQueue, MayRun
  <2>2. QED
    BY <1>4, <2>1, OneHead
<1>11. Others(d, g, r)
  BY <1>4, OnlyIsOthers
<1>12. CASE e = ReleaseNextFollowup(g)
  <2>1. /\ RowsOK(e) /\ Sweep(g, e) /\ e.rt = g.rt /\ (SteersOver(g) => SteersOver(e))
        /\ HeadsFirst(g) => HeadsFirst(e)
    BY <1>8, <1>12, NextSweeps DEF StoreOK
  <2>2. KeepsInputs(g, e) /\ SameTasks(g, e)
    BY <2>1 DEF Sweep, KeepsInputs
  <2>3. \A q \in Runs : d.job[q].status # "absent" => g.job[q].status # "absent"
    BY <1>2, <1>4 DEF OnlyInput
  <2>4. KeepsInputs(d, e) /\ SameTasks(d, e) /\ Others(d, e, r)
    BY <1>4, <1>9, <1>11, <2>1, <2>2, <2>3, KeepTwice, SweepIsOthers DEF SameTasks
  <2>5. e.job[r].status = "canceled"
    BY <1>2, <1>4, <2>1 DEF Sweep
  <2>6. QED
    BY <1>4, <1>8, <1>10, <2>1, <2>4, <2>5 DEF StoreOK, e
<1>13. CASE e = g
  BY <1>2, <1>4, <1>8, <1>9, <1>10, <1>11, <1>13 DEF e
<1> QED
  BY <1>5, <1>12, <1>13

\* updateQueuedMessage: steer.
LEMMA SteerKeeps ==
    ASSUME NEW d, StoreOK(d), NEW r \in Runs, QueuedMessage(d, r), CanSteerQueued(d)
    PROVE  LET e == SteerQueued(d, r) IN
           /\ StoreOK(e) /\ (HeadsFirst(d) => HeadsFirst(e))
           /\ KeepsInputs(d, e) /\ SameTasks(d, e) /\ OnlyInput(d, e, r) /\ e.rt = d.rt
           /\ e.job = d.job
<1> DEFINE f == [mode |-> "steer_only", state |-> "queued"]
           c == SteerCommand(d, "steer_current")
           e == WithInput(d, r, d.job[r], f, c)
<1>1. /\ d \in Stores /\ InputOK(d.job[r], d.fu[r], d.cmd[r]) /\ RuntimeOK(d) /\ SteersOver(d)
      /\ d.job[r] \in JobRows /\ d.rt \in RuntimeRows
  BY RowsTyped DEF StoreOK, RowsOK
<1>2. /\ f \in FollowupRows /\ f.mode = "steer_only" /\ f.state = "queued"
      /\ c \in CommandRows /\ c.state = "pending"
  BY <1>1 DEF FollowupRows, CommandRows, SteerCommand, RuntimeRows, None
<1>3. SteerQueued(d, r) = [d EXCEPT !.fu[r] = f, !.cmd[r] = c]
  BY DEF SteerQueued
<1> HIDE DEF f, c
<1>4. SteerQueued(d, r) = e
  <2>1. [d.job EXCEPT ![r] = d.job[r]] = d.job
    BY <1>1, SameRow
  <2>2. QED
    BY <1>1, <1>3, <2>1, StoresAre DEF WithInput
<1>5. /\ e \in Stores /\ e.job[r] = d.job[r] /\ e.fu[r] = f /\ e.cmd[r] = c
      /\ OnlyInput(d, e, r) /\ e.rt = d.rt /\ SameTasks(d, e)
  BY <1>1, <1>2, PutInput DEF SameTasks
<1>6. e.job = d.job
  <2>1. [d.job EXCEPT ![r] = d.job[r]] = d.job
    BY <1>1, SameRow
  <2>2. QED
    BY <1>1, <2>1, StoresAre DEF WithInput
<1> HIDE DEF e
<1>7. /\ d.fu[r].mode = "follow_up" /\ d.fu[r].state \in {"queued", "released"}
      /\ d.job[r].status = "queued" /\ d.rt.state = "running"
  BY DEF QueuedMessage, CanSteerQueued
<1>8. InputOK(e.job[r], e.fu[r], e.cmd[r])
  BY <1>1, <1>2, <1>5, <1>7 DEF InputOK
<1>9. StoreOK(e)
  <2>1. e.fu[r].state # "released" /\ e.fu[r].mode # "follow_up"
        /\ e.job[r].status # "absent" /\ d.job[r].status # "absent"
    BY <1>2, <1>5, <1>7
  <2>2. QED
    BY <1>5, <1>7, <1>8, <2>1, OneInput
<1>10. KeepsInputs(d, e)
  <2>1. KeepsInput(d, e, r)
    BY <1>1, <1>2, <1>5, <1>7 DEF KeepsInput, KeepsRow, InputOK
  <2>2. QED
    BY <1>5, <2>1, OneKeeps
<1>11. HeadsFirst(d) => HeadsFirst(e)
  <2>1. (WaitsInQueue(e, r) => WaitsInQueue(d, r)) /\ (MayRun(e, r) => MayRun(d, r))
    BY <1>2, <1>5 DEF WaitsInQueue, MayRun
  <2>2. QED
    BY <1>5, <2>1, OneHead
<1> QED
  BY <1>4, <1>5, <1>6, <1>9, <1>10, <1>11

\* claimNextJob: the claim counts an attempt and takes the input out of the queue.
LEMMA ClaimKeeps ==
    ASSUME NEW d, StoreOK(d), NEW r \in Runs, NEW w \in Workers, Claimable(d, r),
           d.job[r].attempt < MaxAttempts
    PROVE  LET e == Claimed(d, r, w) IN
           /\ StoreOK(e) /\ (HeadsFirst(d) => HeadsFirst(e))
           /\ OnlyInput(d, e, r) /\ SameTasks(d, e) /\ e.rt = d.rt /\ e.cmd = d.cmd
           /\ e.job[r].status = "held" /\ e.job[r].attempt = d.job[r].attempt + 1
           /\ e.job[r].worker = w /\ e.job[r].lease
           /\ e.fu[r].mode = d.fu[r].mode /\ e.fu[r].state # "queued"
           /\ e.fu[r].state # d.fu[r].state => d.fu[r].state = "queued" /\ e.fu[r].state = "released"
<1> DEFINE j == [d.job[r] EXCEPT !.status = "held", !.attempt = d.job[r].attempt + 1, !.worker = w,
                                 !.lease = TRUE]
           x == IF d.fu[r].mode = "follow_up" /\ d.fu[r].state = "queued"
                THEN "released" ELSE d.fu[r].state
           f == [d.fu[r] EXCEPT !.state = x]
           e == WithInput(d, r, j, f, d.cmd[r])
<1>1. /\ d \in Stores /\ InputOK(d.job[r], d.fu[r], d.cmd[r]) /\ RuntimeOK(d) /\ SteersOver(d)
      /\ d.job[r] \in JobRows /\ d.fu[r] \in FollowupRows /\ d.cmd[r] \in CommandRows
  BY RowsTyped DEF StoreOK, RowsOK
<1>2. d.job[r].attempt \in 0..MaxAttempts /\ d.job[r].attempt + 1 \in 0..MaxAttempts
      /\ d.job[r].attempt + 1 # 0
  BY <1>1, StoreAssumption DEF JobRows
<1>3. /\ j \in JobRows /\ j.status = "held" /\ j.attempt = d.job[r].attempt + 1
      /\ j.worker = w /\ j.lease /\ j.due = d.job[r].due /\ j.cancel = d.job[r].cancel
  BY <1>1, <1>2 DEF JobRows
<1>4. /\ f \in FollowupRows /\ f.mode = d.fu[r].mode
      /\ f.state = IF d.fu[r].mode = "follow_up" /\ d.fu[r].state = "queued"
                   THEN "released" ELSE d.fu[r].state
  BY <1>1 DEF FollowupRows
<1>5. Claimed(d, r, w) = e
  <2>0. Claimed(d, r, w) = [d EXCEPT !.job[r] = j, !.fu[r].state = x]
    BY <1>1, StoresAre DEF Claimed
  <2> HIDE DEF j, x
  <2>1. Claimed(d, r, w) = [d EXCEPT !.job = [d.job EXCEPT ![r] = j], !.fu = [d.fu EXCEPT ![r] = f]]
    BY <1>1, <2>0, StoresAre
  <2>2. [d.cmd EXCEPT ![r] = d.cmd[r]] = d.cmd
    BY <1>1, SameRow
  <2> HIDE DEF f
  <2>3. QED
    BY <1>1, <2>1, <2>2, StoresAre DEF WithInput
<1> HIDE DEF j, f, x
<1>6. /\ e \in Stores /\ e.job[r] = j /\ e.fu[r] = f /\ e.cmd[r] = d.cmd[r]
      /\ OnlyInput(d, e, r) /\ e.rt = d.rt /\ SameTasks(d, e)
  BY <1>1, <1>3, <1>4, PutInput DEF SameTasks
<1>7. e.cmd = d.cmd
  <2>1. [d.cmd EXCEPT ![r] = d.cmd[r]] = d.cmd
    BY <1>1, SameRow
  <2>2. QED
    BY <1>1, <2>1, StoresAre DEF WithInput
<1> HIDE DEF e
<1>8. /\ d.job[r].status = "queued" /\ d.fu[r].mode # "steer_only"
      /\ d.job[r].due \/ OrphanedHead(d, r)
  BY DEF Claimable
<1>9. d.fu[r].state = "queued" => d.fu[r].mode = "follow_up"
  BY <1>1, <1>8 DEF InputOK, FollowupRows
<1>10. InputOK(e.job[r], e.fu[r], e.cmd[r])
  BY <1>1, <1>2, <1>3, <1>4, <1>6, <1>8, <1>9 DEF InputOK
<1>11. StoreOK(e)
  <2>1. /\ e.job[r].status # "absent" /\ d.job[r].status # "absent" /\ e.fu[r].mode # "steer_only"
    BY <1>3, <1>4, <1>6, <1>8
  <2>2. d.rt.state = "running" /\ d.rt.run = r =>
             /\ e.fu[r].state # "released"
             /\ e.fu[r].mode = "follow_up" => e.fu[r].state # "queued"
    BY <1>1, <1>4, <1>6 DEF RuntimeOK
  <2>3. QED
    BY <1>6, <1>10, <2>1, <2>2, OneInput
<1>12. ASSUME HeadsFirst(d) PROVE HeadsFirst(e)
  <2>1. ~WaitsInQueue(e, r)
    BY <1>4, <1>6, <1>9 DEF WaitsInQueue
  <2>2. MayRun(d, r) \/ \A q \in Runs : q < r => ~WaitsInQueue(d, q)
    <3>1. CASE d.job[r].due
      BY <1>8, <3>1 DEF MayRun
    <3>2. CASE OrphanedHead(d, r)
      <4>1. r \in Nat /\ \A q \in Runs : q < r => q # r
        BY StoreAssumption DEF Runs
      <4>2. QED
        BY <3>2, <4>1 DEF OrphanedHead, WaitsInQueue
    <3>3. QED
      BY <1>8, <3>1, <3>2
  <2>3. QED
    BY <1>6, <1>12, <2>1, <2>2, OneHead
<1>13. e.fu[r].state # "queued"
  BY <1>4, <1>6, <1>9
<1> QED
  BY <1>3, <1>4, <1>5, <1>6, <1>7, <1>11, <1>12, <1>13

\* acquireConversationRuntime: the input that has the runtime is running.
LEMMA AcquireKeeps ==
    ASSUME NEW d, StoreOK(d), NEW r \in Runs, NEW w \in Workers \cup {None},
           NEW changed \in BOOLEAN, d.job[r].status # "absent",
           d.fu[r].mode = "steer_only" \/ d.fu[r].state # "queued"
    PROVE  LET e == Acquired(d, r, w, changed) IN
           /\ StoreOK(e) /\ (HeadsFirst(d) => HeadsFirst(e))
           /\ KeepsInputs(d, e) /\ SameTasks(d, e) /\ OnlyInput(d, e, r)
           /\ e.job = d.job /\ e.fu[r].mode = d.fu[r].mode
           /\ e.rt.state = "running" /\ e.rt.run = r /\ e.rt.worker = w /\ e.rt.gen = d.rt.gen
           /\ d.rt.run = r => e.rt.turn = d.rt.turn
<1> DEFINE n == IF d.rt.run = r THEN d.rt.turn ELSE None
           b == IF changed THEN None ELSE d.rt.thread
           x == IF d.fu[r].state = "released" THEN "running" ELSE d.fu[r].state
           t == [d.rt EXCEPT !.state = "running", !.run = r, !.worker = w, !.turn = n, !.thread = b]
           f == [d.fu[r] EXCEPT !.state = x]
           e == [d EXCEPT !.rt = t, !.fu = [d.fu EXCEPT ![r] = f]]
<1>1. /\ d \in Stores /\ InputOK(d.job[r], d.fu[r], d.cmd[r]) /\ RuntimeOK(d) /\ InOrder(d)
      /\ d.fu[r] \in FollowupRows /\ d.rt \in RuntimeRows
  BY RowsTyped DEF StoreOK, RowsOK
<1>2. /\ t \in RuntimeRows /\ t.state = "running" /\ t.run = r /\ t.worker = w /\ t.gen = d.rt.gen
      /\ t.turn = (IF d.rt.run = r THEN d.rt.turn ELSE None)
      /\ t.thread = (IF changed THEN None ELSE d.rt.thread)
  <2>1. n \in Attempts \cup {None} /\ b \in 0..MaxGeneration
    BY <1>1, StoreAssumption DEF RuntimeRows, None
  <2> HIDE DEF n, b
  <2>2. /\ t \in RuntimeRows /\ t.state = "running" /\ t.run = r /\ t.worker = w
        /\ t.gen = d.rt.gen /\ t.turn = n /\ t.thread = b
    BY <1>1, <2>1 DEF RuntimeRows
  <2>3. QED
    BY <2>2 DEF n, b
<1>3. /\ f \in FollowupRows /\ f.mode = d.fu[r].mode
      /\ f.state = IF d.fu[r].state = "released" THEN "running" ELSE d.fu[r].state
  BY <1>1 DEF FollowupRows
<1>4. Acquired(d, r, w, changed) = e
  <2>1. Acquired(d, r, w, changed) = [d EXCEPT !.rt = t, !.fu[r].state = x]
    BY <1>1, StoresAre DEF Acquired
  <2> HIDE DEF t, x
  <2>2. QED
    BY <1>1, <2>1, StoresAre
<1> HIDE DEF t, f, x, n, b
<1>5. d.fu \in FollowupTables /\ [d.fu EXCEPT ![r] = f] \in FollowupTables
  BY <1>1, <1>3, StoresAre DEF FollowupTables
<1>6. /\ e \in Stores /\ e.rt = t /\ e.fu = [d.fu EXCEPT ![r] = f] /\ e.job = d.job
      /\ e.cmd = d.cmd /\ SameTasks(d, e)
  BY <1>1, <1>2, <1>5, StoresAre DEF SameTasks
<1> HIDE DEF e
<1>7. e.fu[r] = f /\ OnlyInput(d, e, r)
  BY <1>5, <1>6 DEF OnlyInput, FollowupTables
<1>8. InputOK(e.job[r], e.fu[r], e.cmd[r])
  BY <1>1, <1>3, <1>6, <1>7 DEF InputOK
<1>9. RuntimeOK(e)
  <2>1. e.rt.thread <= e.rt.gen
    BY <1>1, <1>2, <1>6, StoreAssumption DEF RuntimeOK, RuntimeRows, None
  <2>2. QED
    BY <1>2, <1>3, <1>6, <1>7, <2>1 DEF RuntimeOK
<1>10. InOrder(e) /\ SteersOver(e)
  BY <1>1, <1>2, <1>6 DEF InOrder, SteersOver
<1>11. StoreOK(e)
  BY <1>6, <1>7, <1>8, <1>9, <1>10 DEF StoreOK, RowsOK, OnlyInput
<1>12. KeepsInputs(d, e)
  <2>1. KeepsInput(d, e, r)
    BY <1>3, <1>6, <1>7 DEF KeepsInput, KeepsRow
  <2>2. QED
    BY <1>7, <2>1, OneKeeps
<1>13. HeadsFirst(d) => HeadsFirst(e)
  <2>1. (WaitsInQueue(e, r) => WaitsInQueue(d, r)) /\ (MayRun(e, r) => MayRun(d, r))
    BY <1>3, <1>6, <1>7 DEF WaitsInQueue, MayRun, Live, Over
  <2>2. QED
    BY <1>7, <2>1, OneHead
<1> QED
  BY <1>2, <1>3, <1>4, <1>6, <1>7, <1>11, <1>12, <1>13

\* What a step of the runtime's owner keeps that writes the runtime row alone.
RuntimeStep(d, e, t) ==
    /\ StoreOK(e) /\ (HeadsFirst(d) => HeadsFirst(e)) /\ KeepsInputs(d, e) /\ SameTasks(d, e)
    /\ e.rt = t /\ e.job = d.job /\ e.fu = d.fu /\ e.cmd = d.cmd

\* The runtime row may be written while the same run keeps it.
LEMMA RuntimeSteps ==
    ASSUME NEW d, StoreOK(d), NEW t \in RuntimeRows, d.rt.state = "running",
           t.state = "running", t.run = d.rt.run, t.thread <= t.gen
    PROVE  RuntimeStep(d, [d EXCEPT !.rt = t], t)
<1> DEFINE e == [d EXCEPT !.rt = t]
<1>1. d \in Stores /\ RuntimeOK(d) /\ InOrder(d)
  BY DEF StoreOK, RowsOK
<1>2. /\ e \in Stores /\ e.rt = t /\ e.job = d.job /\ e.fu = d.fu /\ e.cmd = d.cmd
      /\ SameTasks(d, e)
  BY <1>1, StoresAre DEF SameTasks
<1> HIDE DEF e
<1>3. RuntimeOK(e) /\ InOrder(e) /\ SteersOver(e)
  BY <1>1, <1>2 DEF RuntimeOK, InOrder, SteersOver
<1>4. StoreOK(e)
  BY <1>2, <1>3 DEF StoreOK, RowsOK
<1>5. KeepsInputs(d, e) /\ (HeadsFirst(d) => HeadsFirst(e))
  BY <1>2 DEF KeepsInputs, KeepsInput, KeepsRow, HeadsFirst, MayRun, WaitsInQueue, Live, Over
<1> QED
  BY <1>2, <1>4, <1>5 DEF RuntimeStep, e

\* bindConversationThread.
LEMMA BindKeeps ==
    ASSUME NEW d, StoreOK(d), NEW new \in BOOLEAN, d.rt.state = "running",
           new => d.rt.gen < MaxGeneration, new \/ d.rt.thread # None
    PROVE  LET e == Bound(d, new) IN
           /\ RuntimeStep(d, e, e.rt)
           /\ e.rt.state = "running" /\ e.rt.run = d.rt.run /\ e.rt.worker = d.rt.worker
           /\ e.rt.gen \in 1..MaxGeneration /\ (~new => e.rt = d.rt)
<1> DEFINE n == d.rt.gen + 1
           t == [d.rt EXCEPT !.gen = n, !.thread = n, !.turn = None]
<1>1. d \in Stores /\ RuntimeOK(d) /\ d.rt \in RuntimeRows
  BY RowsTyped DEF StoreOK, RowsOK
<1>2. d.rt.gen \in 0..MaxGeneration /\ d.rt.thread \in 0..MaxGeneration /\ MaxGeneration \in Nat
  BY <1>1, StoreAssumption DEF RuntimeRows
<1>3. CASE new
  <2>1. d.rt.gen + 1 \in 1..MaxGeneration
    BY <1>2, <1>3
  <2>2. /\ t \in RuntimeRows /\ t.state = d.rt.state /\ t.run = d.rt.run /\ t.worker = d.rt.worker
        /\ t.gen = d.rt.gen + 1 /\ t.thread = d.rt.gen + 1
    <3>1. n \in 0..MaxGeneration
      BY <1>2, <2>1
    <3> HIDE DEF n
    <3>2. /\ t \in RuntimeRows /\ t.state = d.rt.state /\ t.run = d.rt.run /\ t.worker = d.rt.worker
          /\ t.gen = n /\ t.thread = n
      BY <1>1, <3>1 DEF RuntimeRows
    <3>3. QED
      BY <3>2 DEF n
  <2>3. Bound(d, new) = [d EXCEPT !.rt = t]
    BY <1>3, Zenon DEF Bound
  <2> HIDE DEF t
  <2>4. RuntimeStep(d, [d EXCEPT !.rt = t], t)
    BY <1>2, <2>1, <2>2, RuntimeSteps
  <2>5. Bound(d, new).rt = t
    BY <2>3, <2>4 DEF RuntimeStep
  <2>6. QED
    BY <1>3, <2>1, <2>2, <2>3, <2>4, <2>5
<1>4. CASE ~new
  <2>1. Bound(d, new) = d
    BY <1>4 DEF Bound
  <2>2. RuntimeStep(d, d, d.rt)
    BY DEF RuntimeStep, KeepsInputs, KeepsInput, KeepsRow, SameTasks
  <2>3. d.rt.gen \in 1..MaxGeneration
    BY <1>1, <1>2, <1>4 DEF RuntimeOK, None
  <2>4. QED
    BY <1>4, <2>1, <2>2, <2>3
<1> QED
  BY <1>3, <1>4

\* recordConversationTurn.
LEMMA TurnKeeps ==
    ASSUME NEW d, StoreOK(d), NEW a \in Attempts, d.rt.state = "running"
    PROVE  LET e == [d EXCEPT !.rt.turn = a] IN
           /\ RuntimeStep(d, e, e.rt)
           /\ e.rt.state = "running" /\ e.rt.run = d.rt.run /\ e.rt.worker = d.rt.worker
           /\ e.rt.gen = d.rt.gen /\ e.rt.turn = a
<1> DEFINE t == [d.rt EXCEPT !.turn = a]
<1>1. d \in Stores /\ RuntimeOK(d) /\ d.rt \in RuntimeRows
  BY RowsTyped DEF StoreOK, RowsOK
<1>2. /\ t \in RuntimeRows /\ t.state = d.rt.state /\ t.run = d.rt.run /\ t.worker = d.rt.worker
      /\ t.gen = d.rt.gen /\ t.thread = d.rt.thread /\ t.turn = a
  BY <1>1 DEF RuntimeRows
<1>3. [d EXCEPT !.rt.turn = a] = [d EXCEPT !.rt = t]
  BY <1>1, StoresAre
<1> HIDE DEF t
<1>4. RuntimeStep(d, [d EXCEPT !.rt = t], t)
  BY <1>1, <1>2, RuntimeSteps DEF RuntimeOK
<1>5. [d EXCEPT !.rt.turn = a].rt = t
  BY <1>3, <1>4 DEF RuntimeStep
<1> QED
  BY <1>2, <1>3, <1>4, <1>5

-----------------------------------------------------------------------------
(* Steer commands *)

\* What a step on an open command keeps.
CommandStep(d, e, s) ==
    /\ StoreOK(e) /\ (HeadsFirst(d) => HeadsFirst(e)) /\ KeepsInputs(d, e) /\ SameTasks(d, e)
    /\ e.rt = d.rt /\ e.job = d.job /\ e.fu = d.fu

\* A command that was sent may be written if it stays with its thread and is not
\* consumed.
LEMMA CommandSteps ==
    ASSUME NEW d, StoreOK(d), NEW s \in Runs, NEW c \in CommandRows,
           d.cmd[s].state # "none", c.state \notin {"none", "consumed"}, c.gen = d.cmd[s].gen
    PROVE  CommandStep(d, [d EXCEPT !.cmd = [d.cmd EXCEPT ![s] = c]], s)
<1> DEFINE e == [d EXCEPT !.cmd = [d.cmd EXCEPT ![s] = c]]
<1>1. d \in Stores /\ InputOK(d.job[s], d.fu[s], d.cmd[s]) /\ RuntimeOK(d) /\ InOrder(d) /\ SteersOver(d)
  BY DEF StoreOK, RowsOK
<1>2. d.cmd \in CommandTables /\ [d.cmd EXCEPT ![s] = c] \in CommandTables
  BY <1>1, StoresAre DEF CommandTables
<1>3. /\ e \in Stores /\ e.rt = d.rt /\ e.job = d.job /\ e.fu = d.fu /\ SameTasks(d, e)
      /\ e.cmd = [d.cmd EXCEPT ![s] = c]
  BY <1>1, <1>2, StoresAre DEF SameTasks
<1> HIDE DEF e
<1>4. e.cmd[s] = c /\ OnlyInput(d, e, s)
  BY <1>2, <1>3 DEF CommandTables, OnlyInput
<1>5. InputOK(e.job[s], e.fu[s], e.cmd[s])
  BY <1>1, <1>3, <1>4 DEF InputOK
<1>6. RuntimeOK(e) /\ InOrder(e) /\ SteersOver(e)
  BY <1>1, <1>3 DEF RuntimeOK, InOrder, SteersOver, Over
<1>7. StoreOK(e)
  BY <1>3, <1>4, <1>5, <1>6 DEF StoreOK, RowsOK, OnlyInput
<1>8. KeepsInputs(d, e)
  BY <1>3, <1>4, OneKeeps DEF KeepsInput, KeepsRow
<1>9. HeadsFirst(d) => HeadsFirst(e)
  BY <1>3 DEF HeadsFirst, MayRun, WaitsInQueue, Live, Over
<1> QED
  BY <1>3, <1>7, <1>8, <1>9 DEF CommandStep, e

\* Nothing changes.
LEMMA NoStep ==
    ASSUME NEW d, StoreOK(d), NEW s
    PROVE  CommandStep(d, d, s)
BY DEF CommandStep, KeepsInputs, KeepsInput, KeepsRow, SameTasks

\* claimConversationSteer.
LEMMA TakeKeeps ==
    ASSUME NEW d, StoreOK(d), NEW s \in Runs, NEW w \in Workers \cup {None},
           d.cmd[s].state # "none"
    PROVE  CommandStep(d, Taken(d, s, w), s)
<1> DEFINE c == [d.cmd[s] EXCEPT !.state = "claimed", !.worker = w]
<1>1. d \in Stores /\ d.cmd[s] \in CommandRows
  BY RowsTyped DEF StoreOK, RowsOK
<1>2. c \in CommandRows /\ c.state = "claimed" /\ c.gen = d.cmd[s].gen
  BY <1>1 DEF CommandRows
<1>3. Taken(d, s, w) = [d EXCEPT !.cmd = [d.cmd EXCEPT ![s] = c]]
  BY <1>1, StoresAre DEF Taken
<1> HIDE DEF c
<1> QED
  BY <1>2, <1>3, CommandSteps

\* rejectConversationSteer.
LEMMA RejectKeeps ==
    ASSUME NEW d, StoreOK(d), NEW s \in Runs, NEW w
    PROVE  CommandStep(d, Rejected(d, s, w), s)
<1> DEFINE c == [d.cmd[s] EXCEPT !.state = "rejected"]
<1>1. d \in Stores /\ d.cmd[s] \in CommandRows
  BY RowsTyped DEF StoreOK, RowsOK
<1>2. c \in CommandRows /\ c.state = "rejected" /\ c.gen = d.cmd[s].gen
  BY <1>1 DEF CommandRows
<1>3. CASE MineClaimed(d, s, w)
  <2>1. Rejected(d, s, w) = [d EXCEPT !.cmd = [d.cmd EXCEPT ![s] = c]]
    BY <1>1, <1>3, StoresAre DEF Rejected
  <2>2. d.cmd[s].state # "none"
    BY <1>3 DEF MineClaimed
  <2> HIDE DEF c
  <2>3. QED
    BY <1>2, <2>1, <2>2, CommandSteps
<1>4. CASE ~MineClaimed(d, s, w)
  BY <1>4, NoStep DEF Rejected
<1> QED
  BY <1>3, <1>4

\* deferConversationSteer.
LEMMA DeferKeeps ==
    ASSUME NEW d, StoreOK(d), NEW s \in Runs, NEW w
    PROVE  CommandStep(d, Deferred(d, s, w), s)
<1> DEFINE c == [d.cmd[s] EXCEPT !.state = "pending", !.worker = None]
<1>1. d \in Stores /\ d.cmd[s] \in CommandRows
  BY RowsTyped DEF StoreOK, RowsOK
<1>2. c \in CommandRows /\ c.state = "pending" /\ c.gen = d.cmd[s].gen
  BY <1>1 DEF CommandRows
<1>3. CASE MineClaimed(d, s, w)
  <2>1. Deferred(d, s, w) = [d EXCEPT !.cmd = [d.cmd EXCEPT ![s] = c]]
    BY <1>1, <1>3, StoresAre DEF Deferred
  <2>2. d.cmd[s].state # "none"
    BY <1>3 DEF MineClaimed
  <2> HIDE DEF c
  <2>3. QED
    BY <1>2, <2>1, <2>2, CommandSteps
<1>4. CASE ~MineClaimed(d, s, w)
  BY <1>4, NoStep DEF Deferred
<1> QED
  BY <1>3, <1>4

\* What the settlement of a steer keeps: of the jobs, it ends the steer's alone, and
\* only the steer can become consumed.
Settles(d, e, s) ==
    /\ StoreOK(e) /\ (HeadsFirst(d) => HeadsFirst(e)) /\ SameTasks(d, e) /\ e.rt = d.rt
    /\ OnlyInput(d, e, s) \/ (e.job = d.job /\ e.fu = d.fu)
    /\ d.fu[s].mode = "steer_only" \/ (e.job = d.job /\ e.fu = d.fu)
    /\ e.job[s].status = d.job[s].status \/ e.job[s].status = "canceled"
    /\ d.job[s].status # "queued" => e.job[s] = d.job[s]
    /\ e.fu[s].mode = d.fu[s].mode
    /\ \A r \in Runs : KeepsRow(d, e, r)

\* A step on a command settles its steer without the input.
LEMMA CommandSettles ==
    ASSUME NEW d, NEW e, NEW s \in Runs, CommandStep(d, e, s)
    PROVE  Settles(d, e, s)
BY DEF CommandStep, Settles, KeepsInputs, KeepsInput

\* consumeConversationSteer.
LEMMA ConsumeKeeps ==
    ASSUME NEW d, StoreOK(d), NEW s \in Runs, NEW w
    PROVE  Settles(d, Consumed(d, s, w), s)
<1> DEFINE x == IF d.job[s].status = "queued" THEN "canceled" ELSE d.job[s].status
           j == [d.job[s] EXCEPT !.status = x]
           f == [d.fu[s] EXCEPT !.state = "consumed"]
           c == [d.cmd[s] EXCEPT !.state = "consumed"]
           e == WithInput(d, s, j, f, c)
           ok == TurnAlive(d, w) /\ d.rt.gen = d.cmd[s].gen /\ AtTurn(d, s) /\ MineClaimed(d, s, w)
<1>1. CASE ~ok
  BY <1>1, NoStep, CommandSettles DEF Consumed
<1>2. CASE ok
  <2>1. /\ d \in Stores /\ InputOK(d.job[s], d.fu[s], d.cmd[s]) /\ RuntimeOK(d) /\ SteersOver(d)
        /\ d.job[s] \in JobRows /\ d.fu[s] \in FollowupRows /\ d.cmd[s] \in CommandRows
    BY RowsTyped DEF StoreOK, RowsOK
  <2>2. d.cmd[s].state = "claimed" /\ d.fu[s].mode = "steer_only" /\ d.job[s].status \in {"queued", "canceled"}
        /\ x = "canceled"
    BY <1>2, <2>1 DEF MineClaimed, InputOK
  <2>3. /\ j \in JobRows /\ j.status = x /\ j.attempt = d.job[s].attempt /\ j.due = d.job[s].due
        /\ f \in FollowupRows /\ f.mode = d.fu[s].mode /\ f.state = "consumed"
        /\ c \in CommandRows /\ c.state = "consumed" /\ c.gen = d.cmd[s].gen
        /\ d.job[s].status # "queued" => j = d.job[s]
    BY <2>1, <2>2 DEF JobRows, FollowupRows, CommandRows
  <2>4. Consumed(d, s, w) = e
    <3>1. Consumed(d, s, w) =
            [d EXCEPT !.cmd = [d.cmd EXCEPT ![s] = c], !.fu = [d.fu EXCEPT ![s] = f],
                      !.job = [d.job EXCEPT ![s] = j]]
      BY <1>2, <2>1, StoresAre DEF Consumed
    <3> HIDE DEF c, f, j
    <3>2. QED
      BY <2>1, <3>1, StoresAre DEF WithInput
  <2> HIDE DEF x, j, f, c, ok
  <2>5. /\ e \in Stores /\ e.job[s] = j /\ e.fu[s] = f /\ e.cmd[s] = c
        /\ OnlyInput(d, e, s) /\ e.rt = d.rt /\ SameTasks(d, e)
    BY <2>3, PutInput DEF SameTasks
  <2> HIDE DEF e
  <2>6. InputOK(e.job[s], e.fu[s], e.cmd[s])
    BY <2>1, <2>2, <2>3, <2>5 DEF InputOK
  <2>7. StoreOK(e)
    <3>1. /\ e.fu[s].state # "released" /\ e.fu[s].state # "queued" /\ Over(e, s)
          /\ e.job[s].status # "absent" /\ d.job[s].status # "absent"
      BY <2>2, <2>3, <2>5 DEF Over
    <3>2. QED
      BY <2>5, <2>6, <3>1, OneInput
  <2>8. ASSUME HeadsFirst(d) PROVE HeadsFirst(e)
    <3>1. ~WaitsInQueue(e, s) /\ ~MayRun(e, s)
      BY <2>2, <2>3, <2>5 DEF WaitsInQueue, MayRun
    <3>2. QED
      BY <2>5, <2>8, <3>1, OneHead
  <2>9. \A r \in Runs : KeepsRow(d, e, r)
    <3>1. KeepsRow(d, e, s)
      BY <2>1, <2>2, <2>3, <2>5 DEF KeepsRow, InputOK
    <3>2. QED
      BY <2>5, <3>1 DEF OnlyInput, KeepsRow
  <2>10. QED
    BY <2>2, <2>3, <2>4, <2>5, <2>7, <2>8, <2>9 DEF Settles
<1> QED
  BY <1>1, <1>2


-----------------------------------------------------------------------------
(* Native tasks, questions and time *)

\* What a step on the tables of native tasks keeps.
TaskStep(d, e) ==
    /\ StoreOK(e) /\ (HeadsFirst(d) => HeadsFirst(e)) /\ KeepsInputs(d, e)
    /\ e.rt = d.rt /\ e.job = d.job /\ e.fu = d.fu /\ e.cmd = d.cmd

\* The rows of inputs do not depend on those tables.
LEMMA TaskSteps ==
    ASSUME NEW d, StoreOK(d), NEW e \in Stores,
           e.rt = d.rt, e.job = d.job, e.fu = d.fu, e.cmd = d.cmd
    PROVE  TaskStep(d, e)
<1>1. RowsOK(e) /\ SteersOver(e)
  BY DEF StoreOK, RowsOK, RuntimeOK, InOrder, SteersOver, Over
<1>2. HeadsFirst(d) => HeadsFirst(e)
  BY DEF HeadsFirst, MayRun, WaitsInQueue, Live, Over
<1>3. KeepsInputs(d, e)
  BY DEF KeepsInputs, KeepsInput, KeepsRow
<1> QED
  BY <1>1, <1>2, <1>3 DEF TaskStep, StoreOK

\* The store with another dispatch of an attempt, another turn, another wait.
WithDispatch(d, r, a, x) == [d EXCEPT !.dispatch[r][a] = x]
WithTurn(d, r, a, g) == [d EXCEPT !.turns = @ \cup {<<r, a, g>>}]
WithWait(d, r, x) == [d EXCEPT !.wait[r] = x]

\* beginNativeTaskWithStopReceipt, completeNativeTask: the dispatch of an attempt.
LEMMA DispatchKeeps ==
    ASSUME NEW d, StoreOK(d), NEW r \in Runs, NEW a \in Attempts,
           NEW x \in {"none", "started", "parked", "completed"}
    PROVE  LET e == WithDispatch(d, r, a, x) IN
           /\ TaskStep(d, e) /\ e.wait = d.wait /\ e.turns = d.turns
           /\ e.dispatch[r][a] = x
           /\ \A q \in Runs, b \in Attempts : q # r \/ b # a => e.dispatch[q][b] = d.dispatch[q][b]
<1> DEFINE D == [d.dispatch EXCEPT ![r] = [d.dispatch[r] EXCEPT ![a] = x]]
           e == [d EXCEPT !.dispatch = D]
<1>1. d \in Stores /\ d.dispatch \in DispatchTables
  BY StoresAre DEF StoreOK, RowsOK
<1>2. D \in DispatchTables /\ D[r][a] = x
      /\ \A q \in Runs, b \in Attempts : q # r \/ b # a => D[q][b] = d.dispatch[q][b]
  BY <1>1 DEF DispatchTables
<1>3. e = WithDispatch(d, r, a, x)
  BY <1>1, StoresAre DEF WithDispatch
<1> HIDE DEF D
<1>4. /\ e \in Stores /\ e.rt = d.rt /\ e.job = d.job /\ e.fu = d.fu /\ e.cmd = d.cmd
      /\ e.dispatch = D /\ e.wait = d.wait /\ e.turns = d.turns
  BY <1>1, <1>2, StoresAre
<1> HIDE DEF e
<1>5. TaskStep(d, e)
  BY <1>4, TaskSteps
<1> QED
  BY <1>2, <1>3, <1>4, <1>5

\* turn.started.
LEMMA AnnounceKeeps ==
    ASSUME NEW d, StoreOK(d), NEW r \in Runs, NEW a \in Attempts, NEW g \in 1..MaxGeneration
    PROVE  LET e == WithTurn(d, r, a, g) IN
           /\ TaskStep(d, e) /\ e.wait = d.wait /\ e.dispatch = d.dispatch
           /\ e.turns = d.turns \cup {<<r, a, g>>}
<1> DEFINE T == d.turns \cup {<<r, a, g>>}
           e == [d EXCEPT !.turns = T]
<1>1. d \in Stores /\ d.turns \in TurnSets
  BY StoresAre DEF StoreOK, RowsOK
<1>2. T \in TurnSets
  BY <1>1 DEF TurnSets
<1> HIDE DEF T
<1>4. /\ e \in Stores /\ e.rt = d.rt /\ e.job = d.job /\ e.fu = d.fu /\ e.cmd = d.cmd
      /\ e.dispatch = d.dispatch /\ e.wait = d.wait /\ e.turns = T
  BY <1>1, <1>2, StoresAre
<1>5. e = WithTurn(d, r, a, g)
  BY DEF T, WithTurn
<1> HIDE DEF e
<1>6. TaskStep(d, e)
  BY <1>4, TaskSteps
<1> QED
  BY <1>4, <1>5, <1>6 DEF T

\* continueNativeQuestion: the wait of a run.
LEMMA WaitKeeps ==
    ASSUME NEW d, StoreOK(d), NEW r \in Runs, NEW x \in {"none", "parked", "ready", "continued"}
    PROVE  LET e == WithWait(d, r, x) IN
           /\ TaskStep(d, e) /\ e.turns = d.turns /\ e.dispatch = d.dispatch
           /\ e.wait[r] = x /\ \A q \in Runs \ {r} : e.wait[q] = d.wait[q]
<1> DEFINE W == [d.wait EXCEPT ![r] = x]
           e == [d EXCEPT !.wait = W]
<1>1. d \in Stores /\ d.wait \in WaitTables
  BY StoresAre DEF StoreOK, RowsOK
<1>2. W \in WaitTables /\ W[r] = x /\ \A q \in Runs \ {r} : W[q] = d.wait[q]
  BY <1>1 DEF WaitTables
<1>3. e = WithWait(d, r, x)
  BY <1>1, StoresAre DEF WithWait
<1> HIDE DEF W
<1>4. /\ e \in Stores /\ e.rt = d.rt /\ e.job = d.job /\ e.fu = d.fu /\ e.cmd = d.cmd
      /\ e.dispatch = d.dispatch /\ e.wait = W /\ e.turns = d.turns
  BY <1>1, <1>2, StoresAre
<1> HIDE DEF e
<1>5. TaskStep(d, e)
  BY <1>4, TaskSteps
<1> QED
  BY <1>2, <1>3, <1>4, <1>5

\* available_at passes: the input may run, out of its turn.
LEMMA DayKeeps ==
    ASSUME NEW d, StoreOK(d), NEW r \in Runs, d.job[r].status = "queued"
    PROVE  LET e == [d EXCEPT !.job[r].due = TRUE] IN
           JobStep(d, e, r, [d.job[r] EXCEPT !.due = TRUE])
<1> DEFINE j == [d.job[r] EXCEPT !.due = TRUE]
           e == WithJob(d, r, j)
<1>1. d \in Stores /\ InputOK(d.job[r], d.fu[r], d.cmd[r]) /\ d.job[r] \in JobRows
  BY RowsTyped DEF StoreOK, RowsOK
<1>2. /\ j \in JobRows /\ j.attempt = d.job[r].attempt /\ j.cancel = d.job[r].cancel
      /\ j.status = d.job[r].status
  BY <1>1 DEF JobRows
<1>3. e = [d EXCEPT !.job[r].due = TRUE]
  BY <1>1, StoresAre DEF WithJob
<1> HIDE DEF j
<1>4. InputOK(j, d.fu[r], d.cmd[r]) /\ (Over(d, r) => j.status \in {"succeeded", "failed", "canceled"})
  BY <1>1, <1>2 DEF InputOK, Over
<1>5. JobStep(d, e, r, j)
  BY <1>2, <1>4, JobSteps
<1> QED
  BY <1>3, <1>5 DEF j

\* The store in which attempt a of run r has parked.
Parked(d, r, a) ==
    [d EXCEPT !.job[r] = [@ EXCEPT !.status = "parked", !.worker = None, !.lease = FALSE],
              !.wait[r] = "parked", !.dispatch[r][a] = "parked"]

\* What that keeps.
ParkMove(d, e, r, a) ==
    /\ StoreOK(e) /\ (HeadsFirst(d) => HeadsFirst(e)) /\ KeepsInputs(d, e)
    /\ OnlyInput(d, e, r) /\ e.rt = d.rt /\ e.turns = d.turns
    /\ e.job[r].status = "parked" /\ e.fu = d.fu /\ e.cmd = d.cmd
    /\ e.wait[r] = "parked" /\ (\A q \in Runs \ {r} : e.wait[q] = d.wait[q])
    /\ e.dispatch[r][a] = "parked"
    /\ \A q \in Runs, b \in Attempts : q # r \/ b # a => e.dispatch[q][b] = d.dispatch[q][b]

\* parkNativeQuestion: the job waits without a worker, its dispatch and wait say so.
LEMMA ParkKeeps ==
    ASSUME NEW d, StoreOK(d), NEW r \in Runs, NEW a \in Attempts, d.job[r].status = "held"
    PROVE  ParkMove(d, Parked(d, r, a), r, a)
<1> DEFINE j == [d.job[r] EXCEPT !.status = "parked", !.worker = None, !.lease = FALSE]
           d1 == WithJob(d, r, j)
           d2 == WithWait(d1, r, "parked")
           e == WithDispatch(d2, r, a, "parked")
<1>1. d \in Stores /\ InputOK(d.job[r], d.fu[r], d.cmd[r]) /\ d.job[r] \in JobRows
  BY RowsTyped DEF StoreOK, RowsOK
<1>2. /\ j \in JobRows /\ j.attempt = d.job[r].attempt /\ j.cancel = d.job[r].cancel
      /\ j.due = d.job[r].due /\ j.status = "parked"
  BY <1>1 DEF JobRows, None
<1>3. e = Parked(d, r, a)
  <2> HIDE DEF j
  <2>1. [d EXCEPT !.job[r] = j, !.wait[r] = "parked", !.dispatch[r][a] = "parked"] = e
    BY <1>1, StoresAre DEF WithJob, WithWait, WithDispatch
  <2>2. QED
    BY <2>1 DEF j, Parked
<1> HIDE DEF j
<1>4. InputOK(j, d.fu[r], d.cmd[r]) /\ (Over(d, r) => j.status \in {"succeeded", "failed", "canceled"})
  BY <1>1, <1>2 DEF InputOK, Over
<1>5. JobStep(d, d1, r, j) /\ ((WaitsInQueue(d1, r) => WaitsInQueue(d, r)) /\ (MayRun(d1, r) => MayRun(d, r)) =>
                (HeadsFirst(d) => HeadsFirst(d1)))
  BY <1>2, <1>4, JobSteps
<1> HIDE DEF d1
<1>6. (WaitsInQueue(d1, r) => WaitsInQueue(d, r)) /\ (MayRun(d1, r) => MayRun(d, r))
  BY <1>1, <1>2, <1>5 DEF JobStep, MayRun, WaitsInQueue, Live, Over, InputOK
<1>7. StoreOK(d1)
  BY <1>5 DEF JobStep
<1>8. /\ TaskStep(d1, d2) /\ d2.turns = d1.turns /\ d2.dispatch = d1.dispatch
      /\ d2.wait[r] = "parked" /\ \A q \in Runs \ {r} : d2.wait[q] = d1.wait[q]
  BY <1>7, WaitKeeps
<1> HIDE DEF d2
<1>9. StoreOK(d2)
  BY <1>8 DEF TaskStep
<1>10. /\ TaskStep(d2, e) /\ e.wait = d2.wait /\ e.turns = d2.turns
       /\ e.dispatch[r][a] = "parked"
       /\ \A q \in Runs, b \in Attempts : q # r \/ b # a => e.dispatch[q][b] = d2.dispatch[q][b]
  BY <1>9, DispatchKeeps
<1> HIDE DEF e
<1>11. StoreOK(e) /\ (HeadsFirst(d) => HeadsFirst(e))
  BY <1>5, <1>6, <1>8, <1>10 DEF TaskStep
<1>12. /\ e.rt = d.rt /\ e.job[r] = j /\ e.fu = d.fu /\ e.cmd = d.cmd /\ OnlyInput(d, e, r)
       /\ e.turns = d.turns
  BY <1>5, <1>8, <1>10 DEF TaskStep, JobStep, SameTasks, OnlyInput
<1>13. KeepsInputs(d, e)
  BY <1>12, <1>2, OneKeeps DEF KeepsInput, KeepsRow
<1>14. /\ e.wait[r] = "parked" /\ (\A q \in Runs \ {r} : e.wait[q] = d.wait[q])
       /\ \A q \in Runs, b \in Attempts : q # r \/ b # a => e.dispatch[q][b] = d.dispatch[q][b]
  BY <1>5, <1>8, <1>10 DEF JobStep, SameTasks
<1>15. ParkMove(d, e, r, a)
  BY <1>2, <1>10, <1>11, <1>12, <1>13, <1>14 DEF ParkMove
<1> QED
  BY <1>3, <1>15

\* The store in which the open commands of a set are refused.
Refused(d, S) ==
    [d EXCEPT !.cmd = [s \in Runs |-> IF s \in S THEN [d.cmd[s] EXCEPT !.state = "rejected"]
                                      ELSE d.cmd[s]]]

\* Refusing commands moves no input.
LEMMA RefuseSweeps ==
    ASSUME NEW d, RowsOK(d), NEW S, \A s \in S : s \in Runs /\ d.cmd[s].state = "pending"
    PROVE  LET e == Refused(d, S) IN
           /\ RowsOK(e) /\ Sweep(d, e) /\ e.rt = d.rt /\ e.job = d.job /\ e.fu = d.fu
           /\ HeadsFirst(d) => HeadsFirst(e)
<1> DEFINE c(r) == IF r \in S THEN [d.cmd[r] EXCEPT !.state = "rejected"] ELSE d.cmd[r]
           C == [r \in Runs |-> c(r)]
           e == Refused(d, S)
<1>1. d \in Stores /\ \A r \in Runs : d.cmd[r] \in CommandRows
  BY RowsTyped DEF RowsOK
<1>2. ASSUME NEW r \in Runs
      PROVE  /\ c(r) \in CommandRows /\ c(r).gen = d.cmd[r].gen
             /\ c(r).state = "none" <=> d.cmd[r].state = "none"
             /\ c(r).state = "consumed" <=> d.cmd[r].state = "consumed"
  BY <1>1 DEF CommandRows
<1>3. C \in CommandTables
  BY <1>2 DEF CommandTables
<1>4. e = [d EXCEPT !.cmd = C]
  BY DEF Refused
<1>5. \A r \in Runs : C[r] = c(r)
  OBVIOUS
<1> HIDE DEF C, e, c
<1>6. /\ e \in Stores /\ e.rt = d.rt /\ e.job = d.job /\ e.fu = d.fu /\ SameTasks(d, e)
      /\ e.cmd = C
  BY <1>1, <1>3, <1>4, StoresAre DEF SameTasks
<1>7. \A r \in Runs : InputOK(e.job[r], e.fu[r], e.cmd[r])
  BY <1>2, <1>5, <1>6 DEF RowsOK, InputOK
<1>8. RowsOK(e)
  <2>1. \A r \in Runs : StaysPut(d, e, r)
    BY <1>6 DEF StaysPut
  <2>2. QED
    BY <1>6, <1>7, <2>1, ManyInputs
<1>9. Sweep(d, e)
  BY <1>2, <1>5, <1>6 DEF Sweep, KeepsInput, KeepsRow
<1>10. HeadsFirst(d) => HeadsFirst(e)
  BY <1>6 DEF HeadsFirst, MayRun, WaitsInQueue, Live, Over
<1> QED
  BY <1>6, <1>8, <1>9, <1>10 DEF e

\* The store in which run r has woken.
Woken(d, r, S) ==
    [CancelUnadoptedSteers(Refused(d, S)) EXCEPT
        !.wait[r] = "ready", !.job[r].status = "queued", !.job[r].due = TRUE]

\* What that keeps.
WakeMove(d, e, r) ==
    /\ StoreOK(e) /\ (HeadsFirst(d) => HeadsFirst(e)) /\ KeepsInputs(d, e)
    /\ Others(d, e, r) /\ e.rt = d.rt /\ e.turns = d.turns /\ e.dispatch = d.dispatch
    /\ e.job[r].status = "queued" /\ e.fu[r].mode = d.fu[r].mode
    /\ \A q \in Runs \ {r} : e.wait[q] = d.wait[q]

\* wakeNativeQuestionWaits: the commands before the answer are refused, the job of
\* the parked run is queued again.
LEMMA WakeKeeps ==
    ASSUME NEW d, StoreOK(d), NEW r \in Runs, d.rt.run = r, d.job[r].status = "parked",
           NEW S, \A s \in S : s \in Runs /\ d.cmd[s].state = "pending"
    PROVE  WakeMove(d, Woken(d, r, S), r)
<1> DEFINE d1 == Refused(d, S)
           d2 == CancelUnadoptedSteers(d1)
           d3 == WithWait(d2, r, "ready")
           j == [d3.job[r] EXCEPT !.status = "queued", !.due = TRUE]
           e == WithJob(d3, r, j)
<1>1. /\ RowsOK(d1) /\ Sweep(d, d1) /\ d1.rt = d.rt /\ d1.job = d.job /\ d1.fu = d.fu
      /\ HeadsFirst(d) => HeadsFirst(d1)
  BY RefuseSweeps DEF StoreOK
<1> HIDE DEF d1
<1>2. /\ RowsOK(d2) /\ Sweep(d1, d2) /\ d2.rt = d1.rt /\ d2.cmd = d1.cmd
      /\ HeadsFirst(d1) => HeadsFirst(d2)
  BY <1>1, CancelSweeps
<1> HIDE DEF d2
<1>3. d.rt.state = "running"
  <2>1. d \in Stores /\ d.rt \in RuntimeRows /\ RuntimeOK(d)
    BY RowsTyped DEF StoreOK, RowsOK
  <2>2. QED
    BY <2>1, StoreAssumption DEF RuntimeRows, RuntimeOK, Runs, None
<1>4. StoreOK(d2) /\ Sweep(d, d2) /\ d2.rt = d.rt
  BY <1>1, <1>2, <1>3, SweepTwice DEF StoreOK, SteersOver
<1>5. d2.job[r] = d.job[r] /\ d2.fu[r].mode = d.fu[r].mode /\ KeepsInputs(d, d2) /\ Others(d, d2, r)
      /\ SameTasks(d, d2)
  BY <1>4 DEF Sweep, KeepsInputs, Others
<1>6. /\ TaskStep(d2, d3) /\ d3.turns = d2.turns /\ d3.dispatch = d2.dispatch
      /\ \A q \in Runs \ {r} : d3.wait[q] = d2.wait[q]
  BY <1>4, WaitKeeps
<1>7. d2 \in Stores
  BY <1>4 DEF StoreOK, RowsOK
<1>8. e = [d2 EXCEPT !.wait[r] = "ready", !.job[r].status = "queued", !.job[r].due = TRUE]
  BY <1>7, StoresAre DEF WithJob, WithWait, JobTables, WaitTables
<1> HIDE DEF d3
<1>9. StoreOK(d3) /\ d3.rt = d2.rt /\ d3.job = d2.job /\ d3.fu = d2.fu /\ d3.cmd = d2.cmd
  BY <1>6 DEF TaskStep
<1>10. d3 \in Stores /\ InputOK(d3.job[r], d3.fu[r], d3.cmd[r]) /\ d3.job[r] \in JobRows
  BY <1>9, RowsTyped DEF StoreOK, RowsOK
<1>11. /\ j \in JobRows /\ j.attempt = d3.job[r].attempt /\ j.cancel = d3.job[r].cancel
       /\ j.status = "queued"
  BY <1>10 DEF JobRows
<1>12. d3.job[r].status = "parked"
  BY <1>5, <1>9
<1> HIDE DEF j
<1>13. InputOK(j, d3.fu[r], d3.cmd[r]) /\ (Over(d3, r) => j.status \in {"succeeded", "failed", "canceled"})
  BY <1>10, <1>11, <1>12 DEF InputOK, Over
<1>14. JobStep(d3, e, r, j) /\ ((WaitsInQueue(e, r) => WaitsInQueue(d3, r)) /\ (MayRun(e, r) => MayRun(d3, r)) =>
                (HeadsFirst(d3) => HeadsFirst(e)))
  BY <1>9, <1>11, <1>12, <1>13, JobSteps
<1> HIDE DEF e
<1>15. (WaitsInQueue(e, r) => WaitsInQueue(d3, r)) /\ (MayRun(e, r) => MayRun(d3, r))
  BY <1>10, <1>11, <1>12, <1>14 DEF JobStep, MayRun, WaitsInQueue, Live, Over, InputOK
<1>16. StoreOK(e) /\ (HeadsFirst(d) => HeadsFirst(e))
  BY <1>1, <1>2, <1>6, <1>14, <1>15 DEF JobStep, TaskStep
<1>17. KeepsInputs(d, e)
  <2>1. KeepsInputs(d, d3)
    BY <1>5, <1>9 DEF KeepsInputs, KeepsInput, KeepsRow
  <2>2. \A q \in Runs : d.job[q].status # "absent" => d3.job[q].status # "absent"
    BY <1>4, <1>9 DEF Sweep
  <2>3. QED
    BY <1>14, <2>1, <2>2, KeepTwice DEF JobStep
<1>18. Others(d, e, r) /\ e.rt = d.rt /\ e.turns = d.turns /\ e.dispatch = d.dispatch
  BY <1>4, <1>5, <1>6, <1>9, <1>14 DEF JobStep, SameTasks, Others, OnlyInput
<1>19. /\ e.job[r].status = "queued" /\ e.fu[r].mode = d.fu[r].mode
       /\ \A q \in Runs \ {r} : e.wait[q] = d.wait[q]
  BY <1>5, <1>6, <1>9, <1>11, <1>14 DEF JobStep, SameTasks
<1>20. WakeMove(d, e, r)
  BY <1>16, <1>17, <1>18, <1>19 DEF WakeMove
<1>21. e = Woken(d, r, S)
  BY <1>8 DEF d1, d2, Woken
<1> QED
  BY <1>20, <1>21
=============================================================================
