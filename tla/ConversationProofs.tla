-------------------------- MODULE ConversationProofs --------------------------
(***************************************************************************)
(* The properties of the Conversation runs for every number of inputs,     *)
(* workers, slots, attempts and generations.                               *)
(*                                                                         *)
(* The inductive invariant has three parts: the rows of the session agree  *)
(* (StoreOK, kept by every transaction, ConversationStoreProofs), they     *)
(* agree with what the harness was told (HarnessOK), and every handler's   *)
(* place agrees with both (HandlerOK).  When no handler outlives its lease *)
(* a handler also has the lease and, from its acquisition on, the runtime  *)
(* (Punctual).                                                             *)
(***************************************************************************)
EXTENDS Conversation, ConversationStoreProofs

HandlerRows ==
    [pc : PCs, worker : Workers \cup {None}, gen : 0..MaxGeneration,
     steer : Runs \cup {None}, reply : {"none", "adopted", "later", "no"},
     retry : BOOLEAN, resume : BOOLEAN, port : BOOLEAN]
HandlerTables == [Runs -> [Attempts -> HandlerRows]]
NativeStates ==
    [prompts : [Runs -> SUBSET Attempts], adopted : [Runs -> SUBSET (1..MaxGeneration)],
     asked : [Runs -> {"no", "open", "closed"}]]

\* The places of a handler that has not prompted, that has its segment in hand, that
\* steers, that has begun a native task and that has opened a turn.
Early == {"starting", "acquiring", "preparing", "dispatching", "binding", "checking",
          "prompting"}
Segment == {"dispatching", "binding", "checking", "prompting", "consuming"}
Steering == {"turn", "draining", "parking"}
Dispatched == {"binding", "checking", "prompting", "consuming", "continuing", "recording",
               "announcing", "turn", "draining", "finishing"}
Opening == {"turn", "draining", "parking", "finishing", "completing"}

\* Attempt a of run r has a turn whose turn.started is recorded.
OpenedBy(d, r, a) == \E t \in d.turns : t[1] = r /\ t[2] = a

\* What a handler has in hand, by its place.
ShapeOK(h) ==
    /\ h.steer # None => h.pc \in Segment \cup Steering
    /\ h.pc \in Segment => (h.resume <=> h.steer # None)
    /\ h.pc = "consuming" => h.steer # None
    /\ h.pc \in {"starting", "acquiring", "preparing"} => ~h.resume /\ ~h.port
    /\ h.reply # "none" => h.steer # None /\ h.pc \in Steering
    /\ h.pc \in {"checking", "prompting", "consuming", "continuing", "recording",
                 "announcing"} \cup Steering => h.gen # 0

\* A handler h of attempt a of run r, among the rows d and the harness's knowledge n.
HandlerOK(d, n, r, a, h) ==
    /\ ShapeOK(h)
    /\ h.pc # "none" => /\ a <= d.job[r].attempt
                        /\ d.fu[r].mode = "steer_only" \/ d.fu[r].state # "queued"
    /\ h.pc \in Early => a \notin n.prompts[r]
    /\ h.steer # None =>
         /\ d.cmd[h.steer].state # "none"
         /\ h.reply = "adopted" \/ h.pc = "consuming" => n.adopted[h.steer] # {}
    /\ h.port /\ h.pc \in Dispatched => d.dispatch[r][a] = "started"
    /\ h.pc \in Opening => OpenedBy(d, r, a)
    /\ CheckedDelivery /\ h.pc = "prompting" /\ ~h.resume =>
         \A b \in Attempts : OpenedBy(d, r, b) => b > a

\* Of two attempts of run r that prompted, the first opened no turn and one of them
\* recorded no dispatch.
Untold(d, n, r) ==
    \A a, b \in n.prompts[r] : a < b =>
        /\ ~OpenedBy(d, r, a)
        /\ d.dispatch[r][a] = "none" \/ d.dispatch[r][b] = "none"

\* What the harness was told of run r.
ToldOK(d, n, r) ==
    /\ \A a \in n.prompts[r] : a <= d.job[r].attempt
    /\ n.prompts[r] # {} => d.fu[r].state \in {"none", "running"}
    /\ d.fu[r].state = "consumed" => n.adopted[r] # {}
    /\ n.adopted[r] # {} => d.cmd[r].state # "none"
    /\ CheckedDelivery => Untold(d, n, r)

\* The dispatches of run r: one at most has no end, and one that has ended had a turn.
DispatchOK(d, r) ==
    /\ \A a, b \in Attempts :
         d.dispatch[r][a] = "started" /\ d.dispatch[r][b] = "started" => a = b
    /\ \A a \in Attempts : d.dispatch[r][a] \in {"parked", "completed"} => OpenedBy(d, r, a)

HarnessOK(d, n) == \A r \in Runs : ToldOK(d, n, r) /\ DispatchOK(d, r)

General(d, H, n) ==
    /\ StoreOK(d) /\ H \in HandlerTables /\ n \in NativeStates
    /\ HarnessOK(d, n)
    /\ \A r \in Runs, a \in Attempts : HandlerOK(d, n, r, a, H[r][a])

\* The places of a handler that works under its lease, and of one that has the runtime.
Active == PCs \ {"none", "gone", "parking"}
Owning == {"preparing", "dispatching", "binding", "checking", "prompting", "consuming",
           "continuing", "recording", "announcing", "turn", "draining", "finishing",
           "completing"}

HolderOK(d, r, a, h) ==
    /\ h.pc \in Active => Holds(d, r, a) /\ d.job[r].worker = h.worker
    /\ h.pc \in Owning => OwnsRuntime(d, r, h.worker) /\ d.rt.gen = h.gen
    /\ h.steer # None => d.cmd[h.steer].gen = h.gen

\* The runtime's run lives and is no steer; a parked run has the runtime.
OwnerOK(d) ==
    d.rt.state = "running" => Live(d, d.rt.run) /\ d.fu[d.rt.run].mode # "steer_only"
ParkedOK(d, r) ==
    d.job[r].status = "parked" =>
        /\ d.rt.state = "running" /\ d.rt.run = r
        /\ d.rt.turn # None /\ d.wait[r] = "parked"

Punctual(d, H, n) ==
    /\ OwnerOK(d)
    /\ \A r \in Runs : ParkedOK(d, r) /\ n.adopted[r] \subseteq {d.cmd[r].gen}
    /\ \A r \in Runs, a \in Attempts : HolderOK(d, r, a, H[r][a])

\* The general invariant, with what holds while no handler outlives its lease.
Both(d, H, n) == General(d, H, n) /\ (Stalling = {} => Punctual(d, H, n))

\* The inductive invariant.
ConversationInv ==
    Both(db, handler, native) /\ (~LongWaits => HeadsFirst(db))

-----------------------------------------------------------------------------
(* Steps of the store and of one handler *)

\* TypeOK, by table.
LEMMA TypesAre ==
    TypeOK <=> db \in Stores /\ handler \in HandlerTables /\ native \in NativeStates
BY DEF TypeOK, HandlerTables, HandlerRows, NativeStates

\* The handlers with another one for attempt a of run r.
WithHandler(H, r, a, h) == [H EXCEPT ![r] = [H[r] EXCEPT ![a] = h]]

\* Nothing else moves.
LEMMA PutHandler ==
    ASSUME NEW H \in HandlerTables, NEW r \in Runs, NEW a \in Attempts, NEW h \in HandlerRows
    PROVE  /\ WithHandler(H, r, a, h) \in HandlerTables
           /\ WithHandler(H, r, a, h)[r][a] = h
           /\ \A q \in Runs, b \in Attempts : q # r \/ b # a => WithHandler(H, r, a, h)[q][b] = H[q][b]
BY DEF WithHandler, HandlerTables

\* What a transaction must keep for the harness and the handlers.
Moves(d, e, n) ==
    /\ StoreOK(e) /\ \A q \in Runs : KeepsRow(d, e, q)
    /\ e.dispatch = d.dispatch /\ e.turns = d.turns
    /\ \A q \in Runs : e.fu[q].state = "consumed" =>
          d.fu[q].state = "consumed" \/ n.adopted[q] # {}

\* Most transactions keep every input and leave the tables of native tasks alone.
LEMMA KeepsMoves ==
    ASSUME NEW d, NEW e, NEW n, StoreOK(e), KeepsInputs(d, e), e.dispatch = d.dispatch,
           e.turns = d.turns
    PROVE  Moves(d, e, n)
BY DEF Moves, KeepsInputs, KeepsInput

\* An input with an attempt was sent.
LEMMA AttemptedIsSent ==
    ASSUME NEW d, StoreOK(d), NEW r \in Runs
    PROVE  /\ d.job[r].attempt \in 0..MaxAttempts
           /\ d.job[r].attempt # 0 => d.job[r].status # "absent"
<1>1. d \in Stores /\ InputOK(d.job[r], d.fu[r], d.cmd[r]) /\ d.job[r] \in JobRows
  BY RowsTyped DEF StoreOK, RowsOK
<1> QED
  BY <1>1 DEF InputOK, JobRows

\* A handler that does not move is not disturbed by such a transaction.
LEMMA HandlerStays ==
    ASSUME NEW d, StoreOK(d), NEW e, NEW n, NEW q \in Runs, NEW b \in Attempts, NEW h \in HandlerRows,
           HandlerOK(d, n, q, b, h), \A p \in Runs : KeepsRow(d, e, p),
           e.dispatch[q][b] \in {d.dispatch[q][b], "started"} \/ h.pc \notin Dispatched,
           e.turns = d.turns
    PROVE  HandlerOK(e, n, q, b, h)
<1>1. e.job[q].attempt = d.job[q].attempt /\ d.job[q].attempt \in Nat
  BY AttemptedIsSent DEF KeepsRow
<1>2. h.pc # "none" => d.job[q].status # "absent"
  BY AttemptedIsSent, StoreAssumption DEF HandlerOK, Attempts
<1>3. h.pc # "none" => e.fu[q].mode = "steer_only" \/ e.fu[q].state # "queued"
  BY <1>2 DEF HandlerOK, KeepsRow
<1>4. h.steer # None => d.cmd[h.steer].state # "none" /\ e.cmd[h.steer].state # "none"
  BY DEF HandlerOK, KeepsRow, HandlerRows
<1>5. \A c : OpenedBy(e, q, c) <=> OpenedBy(d, q, c)
  BY DEF OpenedBy
<1> QED
  BY <1>1, <1>3, <1>4, <1>5 DEF HandlerOK

\* The harness's knowledge and the rows still agree.
LEMMA ToldStays ==
    ASSUME NEW d, StoreOK(d), NEW e, NEW n \in NativeStates, NEW q \in Runs, ToldOK(d, n, q),
           KeepsRow(d, e, q), e.turns = d.turns,
           \A b \in n.prompts[q] : d.dispatch[q][b] = "none" => e.dispatch[q][b] = "none",
           e.fu[q].state = "consumed" => d.fu[q].state = "consumed" \/ n.adopted[q] # {}
    PROVE  ToldOK(e, n, q)
<1>1. e.job[q].attempt = d.job[q].attempt /\ d.job[q].attempt \in Nat
      /\ n.prompts[q] \subseteq Attempts
  BY AttemptedIsSent DEF KeepsRow, NativeStates
<1>2. n.prompts[q] # {} => d.job[q].status # "absent"
  BY <1>1, AttemptedIsSent, StoreAssumption DEF ToldOK, Attempts
<1>3. n.prompts[q] # {} => e.fu[q].state \in {"none", "running"}
  BY <1>2 DEF ToldOK, KeepsRow
<1>4. n.adopted[q] # {} => e.cmd[q].state # "none"
  BY DEF ToldOK, KeepsRow
<1>5. CheckedDelivery => Untold(e, n, q)
  BY DEF ToldOK, Untold, OpenedBy
<1>6. e.fu[q].state = "consumed" => n.adopted[q] # {}
  BY DEF ToldOK
<1> QED
  BY <1>1, <1>3, <1>4, <1>5, <1>6 DEF ToldOK

\* A transaction that keeps these things keeps the general invariant.
LEMMA DbGeneral ==
    ASSUME NEW d, NEW e, NEW H, NEW n, General(d, H, n), Moves(d, e, n)
    PROVE  General(e, H, n)
<1>1. StoreOK(d) /\ H \in HandlerTables /\ n \in NativeStates
  BY DEF General
<1>2. ASSUME NEW q \in Runs, NEW b \in Attempts PROVE HandlerOK(e, n, q, b, H[q][b])
  BY <1>1, HandlerStays DEF General, Moves, HandlerTables
<1>3. ASSUME NEW q \in Runs PROVE ToldOK(e, n, q)
  BY <1>1, ToldStays DEF General, HarnessOK, Moves
<1>4. ASSUME NEW q \in Runs PROVE DispatchOK(e, q)
  BY DEF General, HarnessOK, Moves, DispatchOK, OpenedBy
<1> QED
  BY <1>1, <1>2, <1>3, <1>4 DEF General, HarnessOK, Moves

\* A handler may take any place that agrees with the rows.
LEMMA RowGeneral ==
    ASSUME NEW d, NEW H, NEW n, General(d, H, n), NEW r \in Runs, NEW a \in Attempts,
           NEW h \in HandlerRows, HandlerOK(d, n, r, a, h)
    PROVE  General(d, WithHandler(H, r, a, h), n)
<1> DEFINE H2 == WithHandler(H, r, a, h)
<1>1. /\ H2 \in HandlerTables /\ H2[r][a] = h
      /\ \A q \in Runs, b \in Attempts : q # r \/ b # a => H2[q][b] = H[q][b]
  BY PutHandler DEF General
<1> HIDE DEF H2
<1>2. \A q \in Runs, b \in Attempts : HandlerOK(d, n, q, b, H2[q][b])
  BY <1>1 DEF General
<1> QED
  BY <1>1, <1>2 DEF General, H2

-----------------------------------------------------------------------------
(* Steps while no handler outlives its lease *)

\* What a transaction on the rows of run m may do to the runtime and to parked runs.
PunctualMove(d, e, m) ==
    /\ Others(d, e, m)
    /\ e.rt = d.rt \/ d.rt.state = "idle" \/ d.rt.run = m
    /\ e.rt.state = "running" => e.rt = d.rt \/ e.rt.run = m
    /\ e.rt.state = "running" /\ e.rt.run = m => Live(e, m) /\ e.fu[m].mode # "steer_only"
    /\ ParkedOK(e, m)
    /\ \A q \in Runs \ {m} : e.wait[q] = d.wait[q]

\* It disturbs no handler but those at work for m.
LEMMA OthersPunctual ==
    ASSUME NEW d, NEW e, NEW H, NEW n, General(d, H, n), Punctual(d, H, n), NEW m \in Runs,
           StoreOK(e), \A q \in Runs : KeepsRow(d, e, q), PunctualMove(d, e, m)
    PROVE  /\ OwnerOK(e)
           /\ \A q \in Runs : ParkedOK(e, q) /\ n.adopted[q] \subseteq {e.cmd[q].gen}
           /\ \A q \in Runs, b \in Attempts :
                q # m \/ H[q][b].pc \notin Active => HolderOK(e, q, b, H[q][b])
<1>1. StoreOK(d) /\ H \in HandlerTables /\ n \in NativeStates /\ RuntimeOK(d) /\ RuntimeOK(e)
  BY DEF General, StoreOK, RowsOK
<1>2. OwnerOK(e)
  <2>1. CASE e.rt.state = "running" /\ e.rt.run = m
    BY <2>1 DEF PunctualMove, OwnerOK
  <2>2. CASE e.rt.state = "running" /\ e.rt.run # m
    <3>1. e.rt = d.rt /\ Live(d, e.rt.run) /\ d.fu[e.rt.run].mode # "steer_only" /\ e.rt.run \in Runs \ {m}
      BY <1>1, <2>2 DEF PunctualMove, Punctual, OwnerOK, RuntimeOK
    <3>2. Live(e, e.rt.run) /\ e.fu[e.rt.run].mode # "steer_only"
      BY <3>1 DEF PunctualMove, Others, Live, Over
    <3>3. QED
      BY <3>2 DEF OwnerOK
  <2>3. QED
    BY <2>1, <2>2 DEF OwnerOK
<1>3. ASSUME NEW q \in Runs PROVE ParkedOK(e, q)
  <2>1. CASE q = m
    BY <2>1 DEF PunctualMove
  <2>2. CASE q # m /\ e.job[q].status = "parked"
    <3>1. d.job[q].status = "parked"
      BY <2>2 DEF PunctualMove, Others
    <3>2. d.rt.state = "running" /\ d.rt.run = q /\ d.rt.turn # None /\ d.wait[q] = "parked"
      BY <3>1 DEF Punctual, ParkedOK
    <3>3. e.rt = d.rt /\ e.wait[q] = d.wait[q]
      BY <2>2, <3>2 DEF PunctualMove
    <3>4. QED
      BY <3>2, <3>3 DEF ParkedOK
  <2>3. QED
    BY <2>1, <2>2 DEF ParkedOK
<1>4. ASSUME NEW q \in Runs PROVE n.adopted[q] \subseteq {e.cmd[q].gen}
  <2>1. n.adopted[q] # {} => d.cmd[q].state # "none"
    BY DEF General, HarnessOK, ToldOK
  <2>2. n.adopted[q] # {} => e.cmd[q].gen = d.cmd[q].gen
    BY <2>1 DEF KeepsRow
  <2>3. QED
    BY <2>2 DEF Punctual
<1>5. ASSUME NEW q \in Runs, NEW b \in Attempts, q # m \/ H[q][b].pc \notin Active
      PROVE  HolderOK(e, q, b, H[q][b])
  <2> DEFINE h == H[q][b]
  <2>0. HandlerOK(d, n, q, b, h) /\ HolderOK(d, q, b, h) /\ h \in HandlerRows
    BY <1>1 DEF General, Punctual, HandlerTables
  <2> HIDE DEF h
  <2> SUFFICES HolderOK(e, q, b, h)
    BY DEF h
  <2>1. h.steer # None => e.cmd[h.steer].gen = h.gen
    BY <2>0 DEF HandlerOK, HolderOK, KeepsRow, HandlerRows
  <2>2. CASE h.pc \notin Active
    BY <2>1, <2>2 DEF HolderOK, Active, Owning, PCs
  <2>3. CASE h.pc \in Active
    <3>1. q # m
      BY <1>5, <2>3 DEF h
    <3>2. Holds(e, q, b) /\ e.job[q].worker = h.worker
      BY <2>0, <2>3, <3>1 DEF HolderOK, Holds, PunctualMove, Others
    <3>3. h.pc \in Owning => OwnsRuntime(e, q, h.worker) /\ e.rt.gen = h.gen
      BY <2>0, <3>1 DEF HolderOK, OwnsRuntime, PunctualMove
    <3>4. QED
      BY <2>1, <3>2, <3>3 DEF HolderOK
  <2>4. QED
    BY <2>2, <2>3
<1> QED
  BY <1>2, <1>3, <1>4, <1>5

\* Nobody works for run m.
Quiet(H, m) == \A b \in Attempts : H[m][b].pc \notin Active

\* A run whose job is not held, or has lost its lease, has nobody working for it.
LEMMA NobodyWorks ==
    ASSUME NEW d, NEW H, NEW n, Punctual(d, H, n), NEW m \in Runs,
           ~(d.job[m].status = "held" /\ d.job[m].lease)
    PROVE  Quiet(H, m)
BY DEF Punctual, HolderOK, Quiet, Holds

\* One handler works for a run.
LEMMA OneWorks ==
    ASSUME NEW d, NEW H, NEW n, Punctual(d, H, n), NEW r \in Runs, NEW a \in Attempts,
           H[r][a].pc \in Active, NEW b \in Attempts, b # a
    PROVE  H[r][b].pc \notin Active
BY DEF Punctual, HolderOK, Holds

\* A transaction of the queue or the user.
LEMMA QueuePunctual ==
    ASSUME NEW d, NEW e, NEW H, NEW n, General(d, H, n), Punctual(d, H, n), NEW m \in Runs,
           StoreOK(e), \A q \in Runs : KeepsRow(d, e, q), PunctualMove(d, e, m), Quiet(H, m)
    PROVE  Punctual(e, H, n)
BY OthersPunctual DEF Punctual, Quiet

\* A transaction of a handler: of those at work it may disturb only itself.
LEMMA HandlerPunctual ==
    ASSUME NEW d, NEW e, NEW H, NEW n, General(d, H, n), Punctual(d, H, n), NEW m \in Runs,
           StoreOK(e), \A q \in Runs : KeepsRow(d, e, q), PunctualMove(d, e, m),
           NEW r \in Runs, NEW a \in Attempts, NEW h \in HandlerRows,
           (m = r /\ H[r][a].pc \in Active) \/ Quiet(H, m),
           HolderOK(e, r, a, h)
    PROVE  Punctual(e, WithHandler(H, r, a, h), n)
<1> DEFINE H2 == WithHandler(H, r, a, h)
<1>1. /\ H2[r][a] = h
      /\ \A q \in Runs, b \in Attempts : q # r \/ b # a => H2[q][b] = H[q][b]
  BY PutHandler DEF General
<1> HIDE DEF H2
<1>2. /\ OwnerOK(e)
      /\ \A q \in Runs : ParkedOK(e, q) /\ n.adopted[q] \subseteq {e.cmd[q].gen}
      /\ \A q \in Runs, b \in Attempts :
           q # m \/ H[q][b].pc \notin Active => HolderOK(e, q, b, H[q][b])
  BY OthersPunctual
<1>3. ASSUME NEW q \in Runs, NEW b \in Attempts PROVE HolderOK(e, q, b, H2[q][b])
  <2>1. CASE q = r /\ b = a
    BY <1>1, <2>1
  <2>2. CASE q # r \/ b # a
    <3>1. q # m \/ H[q][b].pc \notin Active
      BY <2>2, OneWorks DEF Quiet
    <3>2. QED
      BY <1>1, <1>2, <2>2, <3>1
  <2>3. QED
    BY <2>1, <2>2
<1> QED
  BY <1>2, <1>3 DEF Punctual, H2

\* A handler may move without a transaction.
LEMMA RowPunctual ==
    ASSUME NEW d, NEW H, NEW n, General(d, H, n), Punctual(d, H, n),
           NEW r \in Runs, NEW a \in Attempts, NEW h \in HandlerRows, HolderOK(d, r, a, h)
    PROVE  Punctual(d, WithHandler(H, r, a, h), n)
<1> DEFINE H2 == WithHandler(H, r, a, h)
<1>1. /\ H2[r][a] = h
      /\ \A q \in Runs, b \in Attempts : q # r \/ b # a => H2[q][b] = H[q][b]
  BY PutHandler DEF General
<1> HIDE DEF H2
<1>2. \A q \in Runs, b \in Attempts : HolderOK(d, q, b, H2[q][b])
  BY <1>1 DEF Punctual
<1> QED
  BY <1>2 DEF Punctual, H2

-----------------------------------------------------------------------------
(* Places of a handler *)

\* Attempt a of run r in the invariant.
LEMMA HandlerIs ==
    ASSUME NEW d, NEW H, NEW n, Both(d, H, n), NEW r \in Runs, NEW a \in Attempts
    PROVE  /\ StoreOK(d) /\ H \in HandlerTables /\ n \in NativeStates
           /\ H[r][a] \in HandlerRows /\ HandlerOK(d, n, r, a, H[r][a])
           /\ Stalling = {} => HolderOK(d, r, a, H[r][a])
           /\ ToldOK(d, n, r) /\ DispatchOK(d, r)
BY DEF Both, General, Punctual, HandlerTables, HarnessOK

\* A handler moves without a transaction.
LEMMA RowStep ==
    ASSUME NEW d, NEW H, NEW n, Both(d, H, n), NEW r \in Runs, NEW a \in Attempts,
           NEW h \in HandlerRows, HandlerOK(d, n, r, a, h),
           Stalling = {} => HolderOK(d, r, a, h)
    PROVE  Both(d, WithHandler(H, r, a, h), n)
BY RowGeneral, RowPunctual DEF Both

\* A handler moves with a transaction on the rows of its run.
LEMMA RunStep ==
    ASSUME NEW d, NEW e, NEW H, NEW n, Both(d, H, n), NEW r \in Runs, NEW a \in Attempts,
           H[r][a].pc \in Active, Moves(d, e, n), Stalling = {} => PunctualMove(d, e, r),
           NEW h \in HandlerRows,
           HandlerOK(e, n, r, a, H[r][a]) => HandlerOK(e, n, r, a, h),
           Stalling = {} => HolderOK(e, r, a, h)
    PROVE  Both(e, WithHandler(H, r, a, h), n)
<1>1. General(e, H, n)
  BY DbGeneral DEF Both
<1>2. HandlerOK(e, n, r, a, h)
  BY <1>1 DEF General
<1>3. General(e, WithHandler(H, r, a, h), n)
  BY <1>1, <1>2, RowGeneral
<1>4. ASSUME Stalling = {} PROVE Punctual(e, WithHandler(H, r, a, h), n)
  <2>1. StoreOK(e) /\ \A q \in Runs : KeepsRow(d, e, q)
    BY DEF Moves
  <2>2. General(d, H, n) /\ Punctual(d, H, n) /\ PunctualMove(d, e, r) /\ HolderOK(e, r, a, h)
    BY <1>4 DEF Both
  <2>3. QED
    BY <2>1, <2>2, HandlerPunctual
<1> QED
  BY <1>3, <1>4 DEF Both

\* A transaction on the rows of a run that nobody works for, without any handler.
LEMMA QueueStepOK ==
    ASSUME NEW d, NEW e, NEW H, NEW n, Both(d, H, n), NEW m \in Runs, Moves(d, e, n),
           Stalling = {} => PunctualMove(d, e, m) /\ Quiet(H, m)
    PROVE  Both(e, H, n)
<1>1. General(e, H, n)
  BY DbGeneral DEF Both
<1>2. ASSUME Stalling = {} PROVE Punctual(e, H, n)
  <2>1. StoreOK(e) /\ \A q \in Runs : KeepsRow(d, e, q)
    BY DEF Moves
  <2>2. General(d, H, n) /\ Punctual(d, H, n) /\ PunctualMove(d, e, m) /\ Quiet(H, m)
    BY <1>2 DEF Both
  <2>3. QED
    BY <2>1, <2>2, QueuePunctual
<1> QED
  BY <1>1, <1>2 DEF Both

\* The handler that throws, that returns, and that goes on to another place.
Thrown(h, retryable) ==
    [NoHandler EXCEPT !.pc = "releasing", !.worker = h.worker, !.retry = retryable]
At(h, pc) == [h EXCEPT !.pc = pc]

\* What an action says of the handlers.
LEMMA HandlerMoves ==
    ASSUME NEW r \in Runs, NEW a \in Attempts
    PROVE  /\ \A x : Throw(r, a, x) =>
                handler' = WithHandler(handler, r, a, Thrown(handler[r][a], x))
           /\ \A pc : Goto(r, a, pc) =>
                handler' = WithHandler(handler, r, a, At(handler[r][a], pc))
           /\ Returns(r, a) => handler' = WithHandler(handler, r, a, Gone)
BY DEF Throw, Goto, Returns, WithHandler, Thrown, At

\* The handler that is none.
LEMMA NoHandlerIs ==
    /\ NoHandler \in HandlerRows /\ NoHandler.steer = None /\ NoHandler.reply = "none"
    /\ NoHandler.resume = FALSE /\ NoHandler.port = FALSE
<1>1. "none" \in PCs
  BY DEF PCs
<1>2. None \in Workers \cup {None} /\ 0 \in 0..MaxGeneration /\ None \in Runs \cup {None}
      /\ FALSE \in BOOLEAN
  BY StoreAssumption
<1> QED
  BY <1>1, <1>2 DEF NoHandler, HandlerRows

\* A handler may throw wherever it works.
LEMMA ThrowFits ==
    ASSUME NEW d, NEW n, NEW r \in Runs, NEW a \in Attempts, NEW g \in HandlerRows,
           HandlerOK(d, n, r, a, g), g.pc \in Active, NEW x \in BOOLEAN
    PROVE  /\ Thrown(g, x) \in HandlerRows /\ HandlerOK(d, n, r, a, Thrown(g, x))
           /\ HolderOK(d, r, a, g) => HolderOK(d, r, a, Thrown(g, x))
<1> DEFINE h == Thrown(g, x)
<1>1. /\ h \in HandlerRows /\ h.pc = "releasing" /\ h.steer = None /\ h.reply = "none"
      /\ h.worker = g.worker
  BY NoHandlerIs DEF Thrown, HandlerRows, PCs
<1> HIDE DEF h
<1>2. HandlerOK(d, n, r, a, h)
  BY <1>1 DEF HandlerOK, ShapeOK, Active, Segment, Steering, Early, Dispatched, Opening
<1>3. HolderOK(d, r, a, g) => HolderOK(d, r, a, h)
  BY <1>1 DEF HolderOK, Active, Owning
<1> QED
  BY <1>1, <1>2, <1>3 DEF h

\* A handler that is gone.
LEMMA GoneIs ==
    Gone \in HandlerRows /\ Gone.pc = "gone" /\ Gone.steer = None /\ Gone.reply = "none"
<1>1. "gone" \in PCs
  BY DEF PCs
<1> QED
  BY <1>1, NoHandlerIs DEF Gone, HandlerRows

\* A handler may be gone at any time.
LEMMA GoneFits ==
    ASSUME NEW d, NEW n, NEW r \in Runs, NEW a \in Attempts, NEW g \in HandlerRows,
           HandlerOK(d, n, r, a, g), g.pc # "none"
    PROVE  Gone \in HandlerRows /\ HandlerOK(d, n, r, a, Gone) /\ HolderOK(d, r, a, Gone)
<1>1. /\ Gone \in HandlerRows /\ Gone.pc = "gone" /\ Gone.steer = None /\ Gone.reply = "none"
  BY GoneIs
<1>2. HandlerOK(d, n, r, a, Gone)
  BY <1>1 DEF HandlerOK, ShapeOK, Segment, Steering, Early, Dispatched, Opening
<1>3. HolderOK(d, r, a, Gone)
  BY <1>1 DEF HolderOK, Active, Owning
<1> QED
  BY <1>1, <1>2, <1>3

\* The rest of a handler that goes on.
LEMMA AtIs ==
    ASSUME NEW g \in HandlerRows, NEW pc \in PCs
    PROVE  LET h == At(g, pc) IN
           /\ h \in HandlerRows /\ h.pc = pc
           /\ h.worker = g.worker /\ h.gen = g.gen /\ h.steer = g.steer /\ h.reply = g.reply
           /\ h.retry = g.retry /\ h.resume = g.resume /\ h.port = g.port
BY DEF At, HandlerRows

\* The handler throws where it is.
LEMMA ThrowStep ==
    ASSUME NEW d, NEW H, NEW n, Both(d, H, n), NEW r \in Runs, NEW a \in Attempts,
           H[r][a].pc \in Active, NEW x \in BOOLEAN
    PROVE  Both(d, WithHandler(H, r, a, Thrown(H[r][a], x)), n)
<1>1. /\ H[r][a] \in HandlerRows /\ HandlerOK(d, n, r, a, H[r][a])
      /\ Stalling = {} => HolderOK(d, r, a, H[r][a])
  BY HandlerIs
<1>2. /\ Thrown(H[r][a], x) \in HandlerRows /\ HandlerOK(d, n, r, a, Thrown(H[r][a], x))
      /\ HolderOK(d, r, a, H[r][a]) => HolderOK(d, r, a, Thrown(H[r][a], x))
  BY <1>1, ThrowFits
<1> QED
  BY <1>1, <1>2, RowStep

\* The handler returns, or its process dies.
LEMMA ReturnStep ==
    ASSUME NEW d, NEW H, NEW n, Both(d, H, n), NEW r \in Runs, NEW a \in Attempts,
           H[r][a].pc # "none"
    PROVE  Both(d, WithHandler(H, r, a, Gone), n)
<1>1. H[r][a] \in HandlerRows /\ HandlerOK(d, n, r, a, H[r][a])
  BY HandlerIs
<1>2. Gone \in HandlerRows /\ HandlerOK(d, n, r, a, Gone) /\ HolderOK(d, r, a, Gone)
  BY <1>1, GoneFits
<1> QED
  BY <1>2, RowStep

-----------------------------------------------------------------------------
(* The end of a job *)

\* transitionTerminal, as every caller needs it.
LEMMA TerminalMoves ==
    ASSUME NEW d, NEW n, StoreOK(d), NEW r \in Runs, d.job[r].status # "absent",
           NEW end \in {"succeeded", "failed", "canceled"},
           d.fu[r].mode = "steer_only" => end = "canceled"
    PROVE  LET e == TransitionTerminal(d, r, end) IN
           /\ Moves(d, e, n) /\ PunctualMove(d, e, r) /\ (HeadsFirst(d) => HeadsFirst(e))
<1> DEFINE e == TransitionTerminal(d, r, end)
<1>1. /\ StoreOK(e) /\ (HeadsFirst(d) => HeadsFirst(e))
      /\ KeepsInputs(d, e) /\ SameTasks(d, e) /\ Others(d, e, r)
      /\ e.job[r].status = end
      /\ e.rt = (IF d.rt.state = "running" /\ d.rt.run = r THEN Freed(d.rt) ELSE d.rt)
  BY TerminalKeeps
<1> HIDE DEF e
<1>2. Moves(d, e, n)
  BY <1>1, KeepsMoves DEF SameTasks
<1>3. d.rt \in RuntimeRows /\ RuntimeOK(d)
  BY RowsTyped DEF StoreOK, RowsOK
<1>4. IF d.rt.state = "running" /\ d.rt.run = r THEN e.rt.state = "idle" ELSE e.rt = d.rt
  BY <1>1, <1>3, FreedIs
<1>5. ParkedOK(e, r)
  BY <1>1 DEF ParkedOK
<1>6. PunctualMove(d, e, r)
  BY <1>1, <1>4, <1>5 DEF PunctualMove, SameTasks
<1> QED
  BY <1>1, <1>2, <1>6 DEF e

\* A handler whose job ends returns; a job nobody works for may end.
LEMMA EndStep ==
    ASSUME NEW d, NEW H, NEW n, Both(d, H, n), NEW r \in Runs, NEW a \in Attempts,
           H[r][a].pc \in Active, d.job[r].status # "absent",
           NEW end \in {"succeeded", "failed", "canceled"},
           d.fu[r].mode = "steer_only" => end = "canceled"
    PROVE  Both(TransitionTerminal(d, r, end), WithHandler(H, r, a, Gone), n)
<1> DEFINE e == TransitionTerminal(d, r, end)
<1>1. StoreOK(d) /\ H[r][a] \in HandlerRows
  BY HandlerIs
<1>2. Moves(d, e, n) /\ PunctualMove(d, e, r)
  BY <1>1, TerminalMoves
<1> HIDE DEF e
<1>3. H[r][a].pc # "none"
  BY DEF Active
<1>4. Gone \in HandlerRows /\ HolderOK(e, r, a, Gone)
      /\ (HandlerOK(e, n, r, a, H[r][a]) => HandlerOK(e, n, r, a, Gone))
  <2>1. Gone \in HandlerRows /\ HolderOK(e, r, a, Gone)
    BY GoneIs DEF HolderOK, Active, Owning
  <2>2. QED
    BY <1>1, <1>3, <2>1, GoneFits
<1>5. Both(e, WithHandler(H, r, a, Gone), n)
  BY <1>2, <1>4, RunStep
<1> QED
  BY <1>5 DEF e

\* A job that nobody works for may end without a handler.
LEMMA QueueEndStep ==
    ASSUME NEW d, NEW H, NEW n, Both(d, H, n), NEW r \in Runs,
           ~(d.job[r].status = "held" /\ d.job[r].lease), d.job[r].status # "absent",
           NEW end \in {"succeeded", "failed", "canceled"},
           d.fu[r].mode = "steer_only" => end = "canceled"
    PROVE  Both(TransitionTerminal(d, r, end), H, n)
<1>1. StoreOK(d)
  BY DEF Both, General
<1>2. Moves(d, TransitionTerminal(d, r, end), n) /\ PunctualMove(d, TransitionTerminal(d, r, end), r)
  BY <1>1, TerminalMoves
<1>3. Stalling = {} => Quiet(H, r)
  BY NobodyWorks DEF Both
<1> QED
  BY <1>2, <1>3, QueueStepOK

-----------------------------------------------------------------------------
(* Steps of the user and of the queue *)

\* At the beginning.
LEMMA InitHolds ==
    ASSUME Init
    PROVE  ConversationInv
<1>1. StoreOK(db) /\ HeadsFirst(db)
  BY EmptyIsOK DEF Init
<1>2. /\ handler \in HandlerTables /\ native \in NativeStates
      /\ \A r \in Runs, a \in Attempts : handler[r][a] = NoHandler
      /\ \A r \in Runs : native.prompts[r] = {} /\ native.adopted[r] = {}
  BY StoreAssumption DEF Init, HandlerTables, HandlerRows, NativeStates, NoHandler, PCs, None
<1>3. ASSUME NEW r \in Runs
      PROVE  /\ db.job[r].attempt = 0 /\ db.job[r].status = "absent" /\ db.fu[r].state = "none"
             /\ \A a \in Attempts : db.dispatch[r][a] = "none"
             /\ db.rt.state = "idle"
  BY DEF Init, EmptyStore
<1>4. \A r \in Runs : ToldOK(db, native, r) /\ DispatchOK(db, r)
  BY <1>2, <1>3 DEF ToldOK, DispatchOK, Untold
<1>5. \A r \in Runs, a \in Attempts : HandlerOK(db, native, r, a, NoHandler) /\ HolderOK(db, r, a, NoHandler)
  BY DEF HandlerOK, ShapeOK, NoHandler, Segment, Steering, Early, Dispatched, Opening, HolderOK,
     Active, Owning, None
<1>6. General(db, handler, native)
  BY <1>1, <1>2, <1>4, <1>5 DEF General, HarnessOK
<1>7. db.rt.state = "idle"
  BY DEF Init, EmptyStore
<1>8. Punctual(db, handler, native)
  BY <1>2, <1>3, <1>5, <1>7 DEF Punctual, OwnerOK, ParkedOK
<1> QED
  BY <1>1, <1>6, <1>8 DEF ConversationInv, Both

\* The runtime of a store has a run exactly while it runs.
LEMMA RuntimeIs ==
    ASSUME NEW d, StoreOK(d)
    PROVE  /\ RuntimeOK(d) /\ d.rt \in RuntimeRows
           /\ \A r \in Runs : d.rt.run = r => d.rt.state = "running"
<1>1. RuntimeOK(d) /\ d.rt \in RuntimeRows
  BY RowsTyped DEF StoreOK, RowsOK
<1> QED
  BY <1>1, StoreAssumption DEF RuntimeOK, RuntimeRows, Runs, None

\* The rows of an input of a store.
LEMMA InputIs ==
    ASSUME NEW d, StoreOK(d), NEW r \in Runs
    PROVE  /\ InputOK(d.job[r], d.fu[r], d.cmd[r])
           /\ d.job[r] \in JobRows /\ d.fu[r] \in FollowupRows /\ d.cmd[r] \in CommandRows
BY RowsTyped DEF StoreOK, RowsOK

\* A transaction that leaves the runtime, and the input of a run, alone.
LEMMA SameRuntime ==
    ASSUME NEW d, NEW e, NEW H, NEW n, Punctual(d, H, n), NEW m \in Runs, Others(d, e, m),
           e.rt = d.rt, \A q \in Runs \ {m} : e.wait[q] = d.wait[q],
           e.rt.state = "running" /\ e.rt.run = m => Live(e, m) /\ e.fu[m].mode # "steer_only",
           e.job[m].status # "parked"
    PROVE  PunctualMove(d, e, m)
BY DEF PunctualMove, ParkedOK

\* enqueueRunInTransaction.
LEMMA SubmitStep ==
    ASSUME ConversationInv, NEW r \in Runs, Submit(r)
    PROVE  ConversationInv'
<1>1. PICK mode \in Delivery(db), kind \in {"steer_current", "ask_user"} :
         db' = Submitted(db, r, mode, kind)
  BY DEF Submit
<1>2. /\ db.job[r].status = "absent" /\ \A q \in 1..(r - 1) : db.job[q].status # "absent"
      /\ handler' = handler /\ native' = native
  BY DEF Submit
<1>3. Both(db, handler, native) /\ StoreOK(db)
  BY DEF ConversationInv, Both, General
<1> DEFINE e == Submitted(db, r, mode, kind)
<1>4. /\ StoreOK(e) /\ (HeadsFirst(db) => HeadsFirst(e))
      /\ OnlyInput(db, e, r) /\ KeepsInputs(db, e) /\ e.rt = db.rt /\ SameTasks(db, e)
      /\ e.job[r].status = "queued"
  BY <1>2, <1>3, SubmitKeeps
<1> HIDE DEF e
<1>5. Moves(db, e, native)
  BY <1>4, KeepsMoves DEF SameTasks
<1>6. ~(e.rt.state = "running" /\ e.rt.run = r)
  BY <1>2, <1>3, <1>4, RuntimeIs DEF RuntimeOK
<1>7. ASSUME Stalling = {} PROVE PunctualMove(db, e, r) /\ Quiet(handler, r)
  <2>1. Punctual(db, handler, native) /\ Others(db, e, r)
    BY <1>3, <1>4, <1>7, OnlyIsOthers DEF Both
  <2>2. e.rt = db.rt /\ (\A q \in Runs \ {r} : e.wait[q] = db.wait[q]) /\ e.job[r].status # "parked"
    BY <1>4 DEF SameTasks
  <2>3. PunctualMove(db, e, r)
    BY <1>6, <2>1, <2>2, SameRuntime
  <2>4. QED
    BY <1>2, <2>1, <2>3, NobodyWorks
<1>8. Both(e, handler, native)
  BY <1>3, <1>5, <1>7, QueueStepOK
<1> QED
  BY <1>1, <1>2, <1>4, <1>8 DEF e, ConversationInv

\* updateQueuedMessage.
LEMMA UpdateStep ==
    ASSUME ConversationInv, NEW r \in Runs, UpdateQueuedMessage(r)
    PROVE  ConversationInv'
<1>1. /\ QueuedMessage(db, r) /\ handler' = handler /\ native' = native
      /\ db' = RemoveQueued(db, r) \/ (CanSteerQueued(db) /\ db' = SteerQueued(db, r))
  BY Zenon DEF UpdateQueuedMessage
<1>2. Both(db, handler, native) /\ StoreOK(db)
  BY DEF ConversationInv, Both, General
<1>3. db.fu[r].mode = "follow_up" /\ db.fu[r].state \in {"queued", "released"} /\ db.job[r].status = "queued"
  BY <1>1 DEF QueuedMessage
<1>4. ~(db.rt.state = "running" /\ db.rt.run = r)
  BY <1>2, <1>3, RuntimeIs DEF RuntimeOK
<1>5. SUFFICES ASSUME NEW e, e = db', StoreOK(e), HeadsFirst(db) => HeadsFirst(e),
                      KeepsInputs(db, e), SameTasks(db, e), Others(db, e, r), e.rt = db.rt,
                      e.job[r].status # "parked"
               PROVE  Both(e, handler, native)
  <2>1. ASSUME db' = RemoveQueued(db, r)
        PROVE  /\ StoreOK(db') /\ (HeadsFirst(db) => HeadsFirst(db'))
               /\ KeepsInputs(db, db') /\ SameTasks(db, db') /\ Others(db, db', r) /\ db'.rt = db.rt
               /\ db'.job[r].status # "parked"
    BY <1>1, <1>2, <2>1, RemoveKeeps
  <2>2. ASSUME CanSteerQueued(db), db' = SteerQueued(db, r)
        PROVE  /\ StoreOK(db') /\ (HeadsFirst(db) => HeadsFirst(db'))
               /\ KeepsInputs(db, db') /\ SameTasks(db, db') /\ Others(db, db', r) /\ db'.rt = db.rt
               /\ db'.job[r].status # "parked"
    BY <1>1, <1>2, <1>3, <2>2, SteerKeeps, OnlyIsOthers
  <2>3. Both(db', handler, native) => ConversationInv'
    BY <1>1, <2>1, <2>2 DEF ConversationInv
  <2>4. QED
    BY <1>1, <1>5, <2>1, <2>2, <2>3
<1>6. Moves(db, e, native)
  BY <1>5, KeepsMoves DEF SameTasks
<1>7. ASSUME Stalling = {} PROVE PunctualMove(db, e, r) /\ Quiet(handler, r)
  <2>1. Punctual(db, handler, native) /\ \A q \in Runs \ {r} : e.wait[q] = db.wait[q]
    BY <1>2, <1>5, <1>7 DEF Both, SameTasks
  <2>2. PunctualMove(db, e, r)
    BY <1>4, <1>5, <2>1, SameRuntime
  <2>3. QED
    BY <1>3, <2>1, <2>2, NobodyWorks
<1>8. QED
  BY <1>2, <1>6, <1>7, QueueStepOK

\* The state of an invariant.
LEMMA InvIs ==
    ASSUME ConversationInv
    PROVE  /\ Both(db, handler, native) /\ General(db, handler, native)
           /\ StoreOK(db) /\ handler \in HandlerTables /\ native \in NativeStates
           /\ ~LongWaits => HeadsFirst(db)
           /\ Stalling = {} => Punctual(db, handler, native)
BY DEF ConversationInv, Both, General

\* A transaction on one job row, while its run keeps its place.
LEMMA JobMoves ==
    ASSUME NEW d, NEW e, NEW n, NEW r \in Runs, NEW j, JobStep(d, e, r, j)
    PROVE  /\ Moves(d, e, n) /\ Others(d, e, r) /\ e.rt = d.rt /\ e.fu = d.fu /\ e.wait = d.wait
           /\ StoreOK(e) /\ e.job[r] = j
<1>1. /\ StoreOK(e) /\ e.job[r] = j /\ OnlyInput(d, e, r) /\ KeepsInputs(d, e)
      /\ e.rt = d.rt /\ e.fu = d.fu /\ e.cmd = d.cmd /\ SameTasks(d, e)
  BY DEF JobStep
<1>2. Moves(d, e, n)
  BY <1>1, KeepsMoves DEF SameTasks
<1> QED
  BY <1>1, <1>2, OnlyIsOthers DEF SameTasks

\* cancelRun.
LEMMA CancelStep ==
    ASSUME ConversationInv, NEW r \in Runs, CancelRun(r)
    PROVE  ConversationInv'
<1> DEFINE e == [db EXCEPT !.job[r].cancel = TRUE]
           j == [db.job[r] EXCEPT !.cancel = TRUE]
<1>1. Live(db, r) /\ db' = e /\ handler' = handler /\ native' = native
  BY DEF CancelRun
<1>2. StoreOK(db) /\ General(db, handler, native) /\ db.job[r].status # "absent"
  BY <1>1, InvIs DEF Live
<1>3. JobStep(db, e, r, j) /\ (HeadsFirst(db) => HeadsFirst(e))
  BY <1>2, CancelKeeps
<1>4. /\ j.status = db.job[r].status /\ j.attempt = db.job[r].attempt /\ j.lease = db.job[r].lease
      /\ j.worker = db.job[r].worker
  BY <1>2, InputIs DEF JobRows
<1> HIDE DEF e, j
<1>5. /\ Moves(db, e, native) /\ Others(db, e, r) /\ e.rt = db.rt /\ e.fu = db.fu /\ e.wait = db.wait
      /\ e.job[r] = j /\ StoreOK(e)
  BY <1>3, JobMoves
<1>6. General(e, handler, native)
  BY <1>2, <1>5, DbGeneral
<1>7. ASSUME Stalling = {} PROVE Punctual(e, handler, native)
  <2>1. Punctual(db, handler, native)
    BY <1>7, InvIs
  <2>2. ParkedOK(e, r)
    BY <1>4, <1>5, <2>1 DEF ParkedOK, Punctual
  <2>3. e.rt.state = "running" /\ e.rt.run = r => Live(e, r) /\ e.fu[r].mode # "steer_only"
    BY <1>4, <1>5, <2>1 DEF Punctual, OwnerOK, Live, Over
  <2>4. PunctualMove(db, e, r) /\ \A q \in Runs : KeepsRow(db, e, q)
    BY <1>5, <2>2, <2>3 DEF PunctualMove, Moves
  <2>5. /\ OwnerOK(e)
        /\ \A q \in Runs : ParkedOK(e, q) /\ native.adopted[q] \subseteq {e.cmd[q].gen}
        /\ \A q \in Runs, b \in Attempts :
             q # r \/ handler[q][b].pc \notin Active => HolderOK(e, q, b, handler[q][b])
    BY <1>2, <1>5, <2>1, <2>4, OthersPunctual
  <2>6. ASSUME NEW b \in Attempts PROVE HolderOK(e, r, b, handler[r][b])
    <3> DEFINE h == handler[r][b]
    <3>1. HolderOK(db, r, b, h) /\ HandlerOK(db, native, r, b, h) /\ h \in HandlerRows
      BY <1>2, <2>1 DEF Punctual, General, HandlerTables
    <3> HIDE DEF h
    <3>2. h.steer # None => e.cmd[h.steer].gen = h.gen
      BY <2>4, <3>1 DEF HolderOK, HandlerOK, KeepsRow, HandlerRows
    <3>3. HolderOK(e, r, b, h)
      BY <1>4, <1>5, <3>1, <3>2 DEF HolderOK, Holds, OwnsRuntime
    <3> QED
      BY <3>3 DEF h
  <2> QED
    BY <2>5, <2>6 DEF Punctual
<1> QED
  BY <1>1, <1>3, <1>6, <1>7, InvIs DEF ConversationInv, Both

\* A transaction of the queue on the row of a job that nobody works for.
LEMMA QueueJobStep ==
    ASSUME ConversationInv, NEW r \in Runs, NEW e, NEW j, JobStep(db, e, r, j),
           ~LongWaits => HeadsFirst(e),
           j.status \notin {"absent", "parked", "succeeded", "failed", "canceled"},
           db.job[r].status \in {"held", "retry_wait", "queued"},
           Stalling = {} => Quiet(handler, r),
           handler' = handler, native' = native, db' = e
    PROVE  ConversationInv'
<1>1. /\ Moves(db, e, native) /\ Others(db, e, r) /\ e.rt = db.rt /\ e.fu = db.fu /\ e.wait = db.wait
      /\ StoreOK(e) /\ e.job[r] = j
  BY JobMoves
<1>2. ASSUME Stalling = {} PROVE PunctualMove(db, e, r) /\ Quiet(handler, r)
  <2>1. Punctual(db, handler, native)
    BY <1>2, InvIs
  <2>2. e.rt.state = "running" /\ e.rt.run = r => Live(e, r) /\ e.fu[r].mode # "steer_only"
    BY <1>1, <2>1 DEF Punctual, OwnerOK, Live, Over
  <2>3. PunctualMove(db, e, r)
    BY <1>1, <2>1, <2>2, SameRuntime
  <2>4. QED
    BY <1>2, <2>3
<1>3. Both(e, handler, native)
  BY <1>1, <1>2, InvIs, QueueStepOK
<1> QED
  BY <1>3 DEF ConversationInv

\* maintainQueue.
LEMMA MaintainStep ==
    ASSUME ConversationInv, NEW r \in Runs, MaintainQueue(r)
    PROVE  ConversationInv'
<1> DEFINE j == db.job[r]
           Recovered == [db EXCEPT !.job[r] = [@ EXCEPT !.status = "queued", !.due = TRUE, !.worker = None]]
           Retried == [db EXCEPT !.job[r] = [@ EXCEPT !.status = "queued", !.due = TRUE]]
<1>1. handler' = handler /\ native' = native /\ db' # db
  BY DEF MaintainQueue
<1>2. \/ /\ j.cancel /\ j.status \in {"queued", "retry_wait", "parked"}
         /\ db' = TransitionTerminal(db, r, "canceled")
      \/ /\ j.status = "held" /\ ~j.lease /\ j.cancel
         /\ db' = TransitionTerminal(db, r, "canceled")
      \/ j.status = "held" /\ ~j.lease /\ db' = Recovered
      \/ j.status = "held" /\ ~j.lease /\ db' = TransitionTerminal(db, r, "failed")
      \/ j.status = "retry_wait" /\ db' = Retried
  <2>1. CASE j.cancel /\ j.status \in {"queued", "retry_wait", "parked"}
    BY <2>1 DEF MaintainQueue
  <2>2. CASE j.status = "held" /\ ~j.lease /\ j.cancel
    BY <2>2 DEF MaintainQueue
  <2>3. CASE j.status = "held" /\ ~j.lease /\ ~j.cancel
    BY <2>3 DEF MaintainQueue
  <2>4. CASE j.status = "retry_wait" /\ ~j.cancel
    BY <2>4 DEF MaintainQueue
  <2>5. CASE /\ ~(j.cancel /\ j.status \in {"queued", "retry_wait", "parked"})
             /\ ~(j.status = "held" /\ ~j.lease)
             /\ ~(j.status = "retry_wait" /\ ~j.cancel)
    BY <1>1, <2>5 DEF MaintainQueue
  <2>6. QED
    BY <2>1, <2>2, <2>3, <2>4, <2>5
<1>3. Both(db, handler, native) /\ StoreOK(db) /\ InputOK(j, db.fu[r], db.cmd[r]) /\ j \in JobRows
  BY InvIs, InputIs
<1>4. ~(j.status = "held" /\ j.lease)
  BY <1>2
<1>5. Stalling = {} => Quiet(handler, r)
  BY <1>4, InvIs, NobodyWorks
<1>6. ASSUME NEW end \in {"failed", "canceled"}, db' = TransitionTerminal(db, r, end),
             db.fu[r].mode = "steer_only" => end = "canceled", j.status # "absent"
      PROVE  ConversationInv'
  <2>1. Both(db', handler, native)
    BY <1>3, <1>4, <1>6, QueueEndStep
  <2>2. HeadsFirst(db) => HeadsFirst(db')
    BY <1>3, <1>6, TerminalMoves
  <2>3. QED
    BY <1>1, <2>1, <2>2, InvIs DEF ConversationInv
<1>7. CASE j.cancel /\ j.status \in {"queued", "retry_wait", "parked"}
           /\ db' = TransitionTerminal(db, r, "canceled")
  BY <1>6, <1>7
<1>8. CASE j.status = "held" /\ ~j.lease /\ j.cancel /\ db' = TransitionTerminal(db, r, "canceled")
  BY <1>6, <1>8
<1>9. CASE j.status = "held" /\ ~j.lease /\ db' = TransitionTerminal(db, r, "failed")
  <2>1. db.fu[r].mode # "steer_only"
    BY <1>3, <1>9 DEF InputOK
  <2>2. QED
    BY <1>6, <1>9, <2>1
<1>10. CASE j.status = "held" /\ db' = Recovered
  <2> DEFINE k == [j EXCEPT !.status = "queued", !.due = TRUE, !.worker = None]
  <2>1. JobStep(db, Recovered, r, k) /\ (HeadsFirst(db) => HeadsFirst(Recovered))
    BY <1>3, <1>10, RecoverKeeps
  <2>2. k.status = "queued"
    BY <1>3 DEF JobRows
  <2> HIDE DEF Recovered, k
  <2>3. QED
    BY <1>1, <1>5, <1>10, <2>1, <2>2, InvIs, QueueJobStep
<1>11. CASE j.status = "retry_wait" /\ db' = Retried
  <2> DEFINE k == [j EXCEPT !.status = "queued", !.due = TRUE]
  <2>1. JobStep(db, Retried, r, k) /\ (HeadsFirst(db) => HeadsFirst(Retried))
    BY <1>3, <1>11, RetryDueKeeps
  <2>2. k.status = "queued"
    BY <1>3 DEF JobRows
  <2> HIDE DEF Retried, k
  <2>3. QED
    BY <1>1, <1>5, <1>11, <2>1, <2>2, InvIs, QueueJobStep
<1> QED
  BY <1>2, <1>7, <1>8, <1>9, <1>10, <1>11

\* available_at passes; without long waits it never does.
LEMMA DayStep ==
    ASSUME ConversationInv, NEW r \in Runs, DayPasses(r)
    PROVE  ConversationInv'
<1> DEFINE e == [db EXCEPT !.job[r].due = TRUE]
           k == [db.job[r] EXCEPT !.due = TRUE]
<1>1. /\ LongWaits /\ db.job[r].status = "queued" /\ db' = e /\ handler' = handler /\ native' = native
  BY DEF DayPasses
<1>2. StoreOK(db) /\ db.job[r] \in JobRows
  BY InvIs, InputIs
<1>3. JobStep(db, e, r, k)
  BY <1>1, <1>2, DayKeeps
<1>4. k.status = "queued"
  BY <1>1, <1>2 DEF JobRows
<1>5. Stalling = {} => Quiet(handler, r)
  BY <1>1, InvIs, NobodyWorks
<1> HIDE DEF e, k
<1> QED
  BY <1>1, <1>3, <1>4, <1>5, QueueJobStep

\* The lease of a handler that is gone, or may stall, runs out.
LEMMA ExpireStep ==
    ASSUME ConversationInv, NEW r \in Runs, LeaseExpires(r)
    PROVE  ConversationInv'
<1> DEFINE e == [db EXCEPT !.job[r].lease = FALSE]
           k == [db.job[r] EXCEPT !.lease = FALSE]
<1>1. /\ db.job[r].status = "held" /\ db' = e /\ handler' = handler /\ native' = native
      /\ r \in Stalling \/ handler[r][db.job[r].attempt].pc = "gone"
  BY DEF LeaseExpires
<1>2. StoreOK(db) /\ db.job[r] \in JobRows
  BY InvIs, InputIs
<1>3. JobStep(db, e, r, k) /\ (HeadsFirst(db) => HeadsFirst(e))
  BY <1>1, <1>2, LeaseKeeps
<1>4. k.status = "held"
  BY <1>1, <1>2 DEF JobRows
<1>5. ASSUME Stalling = {} PROVE Quiet(handler, r)
  <2>1. Punctual(db, handler, native) /\ handler[r][db.job[r].attempt].pc = "gone"
    BY <1>1, <1>5, InvIs
  <2>2. QED
    BY <2>1 DEF Punctual, HolderOK, Holds, Quiet, Active
<1> HIDE DEF e, k
<1> QED
  BY <1>1, <1>3, <1>4, <1>5, InvIs, QueueJobStep

\* wakeNativeQuestionWaits.
LEMMA WakeStep ==
    ASSUME ConversationInv, NEW r \in Runs, WakeNativeQuestionWaits(r)
    PROVE  ConversationInv'
<1> DEFINE open == {s \in Runs : /\ db.cmd[s].state = "pending" /\ db.cmd[s].gen = db.rt.gen
                                /\ db.cmd[s].run = r /\ db.cmd[s].turn = db.rt.turn}
           answers == {s \in open : db.cmd[s].kind = "ask_user"}
           S == {s \in open : s < Min(answers)}
           e == Woken(db, r, S)
<1>1. /\ db.wait[r] = "parked" /\ db.job[r].status = "parked" /\ db.rt.run = r
      /\ handler' = handler /\ native' = native
  BY DEF WakeNativeQuestionWaits
<1>2. db' = e
  <2> DEFINE C == [s \in Runs |-> IF s \in open /\ s < Min(answers)
                                  THEN [db.cmd[s] EXCEPT !.state = "rejected"] ELSE db.cmd[s]]
             D == [s \in Runs |-> IF s \in S
                                  THEN [db.cmd[s] EXCEPT !.state = "rejected"] ELSE db.cmd[s]]
  <2>1. db' = [CancelUnadoptedSteers([db EXCEPT !.cmd = C]) EXCEPT
                   !.wait[r] = "ready", !.job[r].status = "queued", !.job[r].due = TRUE]
    BY DEF WakeNativeQuestionWaits
  <2>2. \A s \in Runs : s \in S <=> s \in open /\ s < Min(answers)
    OBVIOUS
  <2> HIDE DEF S, open, answers
  <2>3. C = D
    BY <2>2
  <2>4. [db EXCEPT !.cmd = D] = Refused(db, S)
    BY DEF Refused
  <2> HIDE DEF C, D
  <2>5. QED
    BY <2>1, <2>3, <2>4 DEF Woken
<1>3. \A s \in S : s \in Runs /\ db.cmd[s].state = "pending"
  OBVIOUS
<1>4. StoreOK(db)
  BY InvIs
<1> HIDE DEF S
<1>5. /\ StoreOK(e) /\ (HeadsFirst(db) => HeadsFirst(e)) /\ KeepsInputs(db, e)
      /\ Others(db, e, r) /\ e.rt = db.rt /\ e.turns = db.turns /\ e.dispatch = db.dispatch
      /\ e.job[r].status = "queued" /\ e.fu[r].mode = db.fu[r].mode
      /\ \A q \in Runs \ {r} : e.wait[q] = db.wait[q]
  <2>1. WakeMove(db, e, r)
    BY <1>1, <1>3, <1>4, WakeKeeps
  <2>2. QED
    BY <2>1 DEF WakeMove
<1> HIDE DEF e
<1>6. Moves(db, e, native)
  BY <1>5, KeepsMoves
<1>7. ASSUME Stalling = {} PROVE PunctualMove(db, e, r) /\ Quiet(handler, r)
  <2>1. Punctual(db, handler, native)
    BY <1>7, InvIs
  <2>2. Live(e, r) /\ (e.rt.state = "running" => e.fu[r].mode # "steer_only")
    BY <1>1, <1>5, <2>1 DEF Punctual, OwnerOK, Live, Over
  <2>3. PunctualMove(db, e, r)
    BY <1>5, <2>1, <2>2, SameRuntime
  <2>4. QED
    BY <1>1, <2>1, <2>3, NobodyWorks
<1>8. Both(e, handler, native)
  BY <1>6, <1>7, InvIs, QueueStepOK
<1> QED
  BY <1>1, <1>2, <1>5, <1>8, InvIs DEF ConversationInv

-----------------------------------------------------------------------------
(* Claims and crashes *)

\* claimNextJob: the new attempt is nobody's, and has not prompted.
LEMMA ClaimStep ==
    ASSUME ConversationInv, NEW w \in Workers, NEW r \in Runs, ClaimNextJob(w, r)
    PROVE  ConversationInv'
<1> DEFINE a == db.job[r].attempt + 1
           h == [NoHandler EXCEPT !.pc = "starting", !.worker = w]
           e == Claimed(db, r, w)
           H == WithHandler(handler, r, a, h)
<1>1. /\ Claimable(db, r) /\ db.job[r].attempt < MaxAttempts
      /\ db' = e /\ native' = native
      /\ handler' = [handler EXCEPT ![r][db.job[r].attempt + 1] =
                       [NoHandler EXCEPT !.pc = "starting", !.worker = w]]
  BY DEF ClaimNextJob
<1>2. handler' = H
  BY <1>1 DEF WithHandler
<1>3. /\ StoreOK(db) /\ General(db, handler, native) /\ handler \in HandlerTables /\ native \in NativeStates
  BY InvIs
<1>4. /\ StoreOK(e) /\ (HeadsFirst(db) => HeadsFirst(e))
      /\ OnlyInput(db, e, r) /\ SameTasks(db, e) /\ e.rt = db.rt /\ e.cmd = db.cmd
      /\ e.job[r].status = "held" /\ e.job[r].attempt = db.job[r].attempt + 1
      /\ e.job[r].worker = w /\ e.job[r].lease
      /\ e.fu[r].mode = db.fu[r].mode /\ e.fu[r].state # "queued"
      /\ e.fu[r].state # db.fu[r].state => db.fu[r].state = "queued" /\ e.fu[r].state = "released"
  BY <1>1, <1>3, ClaimKeeps
<1>5. db.job[r].attempt \in Nat /\ a \in Attempts /\ db.job[r].status = "queued"
  BY <1>1, <1>3, AttemptedIsSent, StoreAssumption DEF Attempts, Claimable
<1>6. /\ h \in HandlerRows /\ h.pc = "starting" /\ h.worker = w /\ h.steer = None
      /\ h.reply = "none" /\ h.resume = FALSE /\ h.port = FALSE
  BY NoHandlerIs DEF HandlerRows, PCs
<1> HIDE DEF h, e
<1>7. /\ H \in HandlerTables /\ H[r][a] = h
      /\ \A q \in Runs, b \in Attempts : q # r \/ b # a => H[q][b] = handler[q][b]
  BY <1>3, <1>5, <1>6, PutHandler
<1> HIDE DEF H, a
<1>8. \A q, c : OpenedBy(e, q, c) <=> OpenedBy(db, q, c)
  BY <1>4 DEF OpenedBy, SameTasks
<1>9. e.job[r].attempt = a /\ db.job[r].attempt < a /\ a \in Nat
  BY <1>4, <1>5 DEF a
<1>10. ASSUME NEW q \in Runs, NEW b \in Attempts PROVE HandlerOK(e, native, q, b, H[q][b])
  <2>1. CASE q = r /\ b = a
    <3>1. a \notin native.prompts[r]
      <4>1. ToldOK(db, native, r)
        BY <1>3 DEF General, HarnessOK
      <4>2. QED
        BY <1>5, <1>9, <4>1 DEF ToldOK
    <3>2. HandlerOK(e, native, r, a, h)
      BY <1>4, <1>6, <1>9, <3>1 DEF HandlerOK, ShapeOK, Segment, Steering, Dispatched, Opening
    <3>3. QED
      BY <1>7, <2>1, <3>2
  <2>2. CASE q = r /\ b # a
    <3> DEFINE g == handler[r][b]
    <3>1. HandlerOK(db, native, r, b, g) /\ H[q][b] = g /\ b \in Nat
      BY <1>3, <1>7, <2>2, StoreAssumption DEF General, Attempts
    <3> HIDE DEF g
    <3>2. g.pc # "none" => b <= e.job[r].attempt
      BY <1>5, <1>9, <3>1 DEF HandlerOK
    <3>3. HandlerOK(e, native, r, b, g)
      BY <1>4, <1>8, <3>1, <3>2 DEF HandlerOK, SameTasks
    <3>4. QED
      BY <2>2, <3>1, <3>3
  <2>3. CASE q # r
    <3> DEFINE g == handler[q][b]
    <3>1. HandlerOK(db, native, q, b, g) /\ H[q][b] = g
      BY <1>3, <1>7, <2>3 DEF General
    <3>2. e.job[q] = db.job[q] /\ e.fu[q] = db.fu[q]
      BY <1>4, <2>3 DEF OnlyInput
    <3> HIDE DEF g
    <3>3. HandlerOK(e, native, q, b, g)
      BY <1>4, <1>8, <3>1, <3>2 DEF HandlerOK, SameTasks
    <3>4. QED
      BY <3>1, <3>3
  <2>4. QED
    BY <2>1, <2>2, <2>3
<1>11. ASSUME NEW q \in Runs PROVE ToldOK(e, native, q) /\ DispatchOK(e, q)
  <2>1. ToldOK(db, native, q) /\ DispatchOK(db, q) /\ native.prompts[q] \subseteq Attempts
    BY <1>3 DEF General, HarnessOK, NativeStates
  <2>2. DispatchOK(e, q) /\ (CheckedDelivery => Untold(e, native, q))
    BY <1>4, <1>8, <2>1 DEF ToldOK, DispatchOK, SameTasks, Untold
  <2>3. CASE q = r
    <3>1. \A b \in native.prompts[r] : b <= e.job[r].attempt
      BY <1>5, <1>9, <2>1, <2>3, StoreAssumption DEF ToldOK, Attempts
    <3>2. QED
      BY <1>4, <2>1, <2>2, <2>3, <3>1 DEF ToldOK
  <2>4. CASE q # r
    BY <1>4, <2>1, <2>2, <2>4 DEF ToldOK, OnlyInput
  <2>5. QED
    BY <2>3, <2>4
<1>12. General(e, H, native)
  BY <1>3, <1>4, <1>7, <1>10, <1>11 DEF General, HarnessOK
<1>13. ASSUME Stalling = {} PROVE Punctual(e, H, native)
  <2>1. Punctual(db, handler, native)
    BY <1>13, InvIs
  <2>2. Quiet(handler, r)
    BY <1>5, <2>1, NobodyWorks
  <2>3. OwnerOK(e)
    <3>1. RuntimeOK(db)
      BY <1>3, RuntimeIs
    <3>2. QED
      BY <1>4, <2>1, <3>1 DEF Punctual, OwnerOK, Live, Over, OnlyInput, RuntimeOK
  <2>4. \A q \in Runs : ParkedOK(e, q) /\ native.adopted[q] \subseteq {e.cmd[q].gen}
    BY <1>4, <2>1 DEF Punctual, ParkedOK, OnlyInput, SameTasks
  <2>5. ASSUME NEW q \in Runs, NEW b \in Attempts PROVE HolderOK(e, q, b, H[q][b])
    <3>1. CASE q = r /\ b = a
      <4>1. HolderOK(e, r, a, h)
        BY <1>4, <1>6, <1>9 DEF HolderOK, Holds, Owning
      <4>2. QED
        BY <1>7, <3>1, <4>1
    <3>2. CASE q # r \/ b # a
      <4> DEFINE g == handler[q][b]
      <4>1. HolderOK(db, q, b, g) /\ H[q][b] = g
        BY <1>7, <2>1, <3>2 DEF Punctual
      <4>2. q = r => g.pc \notin Active
        BY <2>2 DEF Quiet
      <4> HIDE DEF g
      <4>3. g.pc \in Owning => g.pc \in Active
        BY DEF Owning, Active, PCs
      <4>4. HolderOK(e, q, b, g)
        BY <1>4, <4>1, <4>2, <4>3 DEF HolderOK, Holds, OwnsRuntime, OnlyInput
      <4>5. QED
        BY <4>1, <4>4
    <3>3. QED
      BY <3>1, <3>2
  <2>6. QED
    BY <2>3, <2>4, <2>5 DEF Punctual
<1> QED
  BY <1>1, <1>2, <1>4, <1>12, <1>13, InvIs DEF ConversationInv, Both

\* A worker dies with its handlers.
LEMMA CrashStep ==
    ASSUME ConversationInv, NEW w \in Workers, Crash(w)
    PROVE  ConversationInv'
<1> DEFINE H == [r \in Runs |-> [a \in Attempts |->
                   IF <<r, a>> \in Running(w) THEN Gone ELSE handler[r][a]]]
<1>1. handler' = H /\ db' = db /\ native' = native
  BY DEF Crash
<1>2. /\ StoreOK(db) /\ General(db, handler, native) /\ handler \in HandlerTables /\ native \in NativeStates
  BY InvIs
<1>3. ASSUME NEW r \in Runs, NEW a \in Attempts
      PROVE  /\ H[r][a] \in HandlerRows /\ HandlerOK(db, native, r, a, H[r][a])
             /\ Stalling = {} => HolderOK(db, r, a, H[r][a])
  <2>1. /\ handler[r][a] \in HandlerRows /\ HandlerOK(db, native, r, a, handler[r][a])
        /\ Stalling = {} => HolderOK(db, r, a, handler[r][a])
    BY <1>2, InvIs DEF General, Punctual, HandlerTables
  <2>2. <<r, a>> \in Running(w) => handler[r][a].pc # "none"
    BY DEF Running
  <2>3. H[r][a] = IF <<r, a>> \in Running(w) THEN Gone ELSE handler[r][a]
    OBVIOUS
  <2> HIDE DEF H
  <2>4. CASE <<r, a>> \in Running(w)
    BY <2>1, <2>2, <2>3, <2>4, GoneFits
  <2>5. CASE <<r, a>> \notin Running(w)
    BY <2>1, <2>3, <2>5
  <2>6. QED
    BY <2>4, <2>5
<1>4. H \in HandlerTables
  <2>1. \A r \in Runs, a \in Attempts : H[r][a] \in HandlerRows
    BY <1>3
  <2>2. QED
    BY <2>1 DEF HandlerTables
<1> HIDE DEF H
<1>5. General(db, H, native)
  BY <1>2, <1>3, <1>4 DEF General
<1>6. Stalling = {} => Punctual(db, H, native)
  BY <1>3, InvIs DEF Punctual
<1> QED
  BY <1>1, <1>5, <1>6, InvIs DEF ConversationInv, Both

-----------------------------------------------------------------------------
(* A handler, up to its turn *)

\* A handler at work: it has sent no steer it would have to settle, unless it steers.
LEMMA ActorIs ==
    ASSUME ConversationInv, NEW r \in Runs, NEW a \in Attempts
    PROVE  LET h == handler[r][a] IN
           /\ h \in HandlerRows /\ HandlerOK(db, native, r, a, h) /\ ShapeOK(h)
           /\ Stalling = {} => HolderOK(db, r, a, h)
           /\ h.pc \notin Steering => h.reply = "none"
           /\ h.pc \notin Steering \cup Segment => h.steer = None
           /\ a \in Nat \ {0} /\ (h.pc # "none" => db.job[r].status # "absent")
           /\ (h.pc # "none" => db.fu[r].mode = "steer_only" \/ db.fu[r].state # "queued")
<1> DEFINE h == handler[r][a]
<1>1. /\ h \in HandlerRows /\ HandlerOK(db, native, r, a, h)
      /\ Stalling = {} => HolderOK(db, r, a, h)
  BY InvIs, HandlerIs
<1> HIDE DEF h
<1>2. ShapeOK(h) /\ (h.pc # "none" => a <= db.job[r].attempt)
      /\ (h.pc # "none" => db.fu[r].mode = "steer_only" \/ db.fu[r].state # "queued")
  BY <1>1 DEF HandlerOK
<1>3. a \in Nat \ {0}
  BY StoreAssumption DEF Attempts
<1>4. h.pc # "none" => db.job[r].status # "absent"
  <2>1. db.job[r].attempt \in Nat /\ (db.job[r].attempt # 0 => db.job[r].status # "absent")
    BY InvIs, AttemptedIsSent
  <2>2. QED
    BY <1>2, <1>3, <2>1
<1>5. h.pc \notin Steering => h.reply = "none"
  BY <1>2 DEF ShapeOK
<1>6. h.pc \notin Steering \cup Segment => h.steer = None
  BY <1>2 DEF ShapeOK
<1> QED
  BY <1>1, <1>2, <1>3, <1>4, <1>5, <1>6 DEF h

\* The handler throws and nothing else happens.
LEMMA ThrowAlone ==
    ASSUME ConversationInv, NEW r \in Runs, NEW a \in Attempts, NEW x \in BOOLEAN,
           handler[r][a].pc \in Active, Throw(r, a, x), db' = db, native' = native
    PROVE  ConversationInv'
<1>1. handler' = WithHandler(handler, r, a, Thrown(handler[r][a], x))
  BY HandlerMoves
<1>2. Both(db, WithHandler(handler, r, a, Thrown(handler[r][a], x)), native)
  BY InvIs, ThrowStep
<1> QED
  BY <1>1, <1>2 DEF ConversationInv

\* The handler returns and nothing else happens.
LEMMA ReturnAlone ==
    ASSUME ConversationInv, NEW r \in Runs, NEW a \in Attempts,
           handler[r][a].pc # "none", Returns(r, a), db' = db, native' = native
    PROVE  ConversationInv'
<1>1. handler' = WithHandler(handler, r, a, Gone)
  BY HandlerMoves
<1>2. Both(db, WithHandler(handler, r, a, Gone), native)
  BY InvIs, ReturnStep
<1> QED
  BY <1>1, <1>2 DEF ConversationInv

\* The job ends and the handler returns.
LEMMA EndAndReturn ==
    ASSUME ConversationInv, NEW r \in Runs, NEW a \in Attempts,
           handler[r][a].pc \in Active, Holds(db, r, a),
           NEW end \in {"succeeded", "failed", "canceled"},
           db' = TransitionTerminal(db, r, end), Returns(r, a), native' = native
    PROVE  ConversationInv'
<1>1. handler' = WithHandler(handler, r, a, Gone)
  BY HandlerMoves
<1>2. db.job[r].status = "held" /\ db.job[r].status # "absent"
  BY DEF Holds
<1>3. StoreOK(db) /\ db.fu[r].mode # "steer_only"
  BY <1>2, InvIs, InputIs DEF InputOK
<1>4. Both(TransitionTerminal(db, r, end), WithHandler(handler, r, a, Gone), native)
  BY <1>2, <1>3, InvIs, EndStep
<1>5. HeadsFirst(db) => HeadsFirst(TransitionTerminal(db, r, end))
  BY <1>2, <1>3, TerminalMoves
<1> QED
  BY <1>1, <1>4, <1>5, InvIs DEF ConversationInv

\* startClaimedJob.
LEMMA StartStep ==
    ASSUME ConversationInv, NEW r \in Runs, NEW a \in Attempts, StartClaimedJob(r, a)
    PROVE  ConversationInv'
<1> DEFINE h == handler[r][a]
           k == At(h, "acquiring")
<1>1. handler[r][a].pc = "starting" /\ native' = native
  BY DEF StartClaimedJob
<1>2. handler[r][a].pc \in Active /\ handler[r][a].pc # "none"
  BY <1>1 DEF Active, PCs
<1>3. CASE Returns(r, a) /\ db' = db
  BY <1>1, <1>2, <1>3, ReturnAlone
<1>4. CASE Holds(db, r, a) /\ db' = TransitionTerminal(db, r, "canceled") /\ Returns(r, a)
  BY <1>1, <1>2, <1>4, EndAndReturn
<1>5. CASE LockOwner(db, r, a) /\ Goto(r, a, "acquiring") /\ db' = db
  <2>1. handler' = WithHandler(handler, r, a, k)
    BY <1>5, HandlerMoves
  <2>2. /\ h \in HandlerRows /\ HandlerOK(db, native, r, a, h)
        /\ Stalling = {} => HolderOK(db, r, a, h)
    BY ActorIs
  <2>3. /\ k \in HandlerRows /\ k.pc = "acquiring"
        /\ k.worker = h.worker /\ k.gen = h.gen /\ k.steer = h.steer /\ k.reply = h.reply
        /\ k.resume = h.resume /\ k.port = h.port
    BY <2>2, AtIs DEF PCs
  <2> HIDE DEF h, k
  <2>4. h.pc = "starting"
    BY <1>1 DEF h
  <2>5. HandlerOK(db, native, r, a, k)
    BY <2>2, <2>3, <2>4 DEF HandlerOK, ShapeOK, Early, Segment, Steering, Dispatched, Opening
  <2>6. Stalling = {} => HolderOK(db, r, a, k)
    BY <2>2, <2>3, <2>4 DEF HolderOK, Active, Owning, PCs
  <2>7. Both(db, WithHandler(handler, r, a, k), native)
    BY <2>3, <2>5, <2>6, InvIs, RowStep
  <2>8. QED
    BY <1>1, <1>5, <2>1, <2>7 DEF ConversationInv
<1> QED
  BY <1>3, <1>4, <1>5 DEF StartClaimedJob

\* acquireConversationRuntime; a busy conversation fails the attempt.
LEMMA AcquireStep ==
    ASSUME ConversationInv, NEW r \in Runs, NEW a \in Attempts, Acquire(r, a)
    PROVE  ConversationInv'
<1> DEFINE h == handler[r][a]
           f == [h EXCEPT !.pc = "failing", !.retry = TRUE]
           p == [h EXCEPT !.pc = "preparing", !.gen = db.rt.gen]
<1>1. h.pc = "acquiring" /\ native' = native
  BY DEF Acquire
<1>2. \/ db' = db /\ handler' = WithHandler(handler, r, a, f)
      \/ /\ CanAcquire(db, r) /\ \E changed \in BOOLEAN : db' = Acquired(db, r, h.worker, changed)
         /\ handler' = WithHandler(handler, r, a, p)
  BY DEF Acquire, WithHandler
<1>3. /\ h \in HandlerRows /\ HandlerOK(db, native, r, a, h) /\ h.steer = None /\ h.reply = "none"
      /\ Stalling = {} => HolderOK(db, r, a, h)
      /\ db.job[r].status # "absent"
      /\ db.fu[r].mode = "steer_only" \/ db.fu[r].state # "queued"
  BY <1>1, ActorIs DEF Steering, Segment
<1>4. StoreOK(db) /\ db.rt \in RuntimeRows /\ RuntimeOK(db) /\ InputOK(db.job[r], db.fu[r], db.cmd[r])
  BY InvIs, RuntimeIs, InputIs
<1>5. /\ f \in HandlerRows /\ f.pc = "failing" /\ f.worker = h.worker /\ f.gen = h.gen
      /\ f.steer = h.steer /\ f.reply = h.reply
  BY <1>3 DEF HandlerRows, PCs
<1>6. /\ p \in HandlerRows /\ p.pc = "preparing" /\ p.worker = h.worker /\ p.gen = db.rt.gen
      /\ p.steer = h.steer /\ p.reply = h.reply /\ p.resume = h.resume /\ p.port = h.port
  <2>1. db.rt.gen \in 0..MaxGeneration
    BY <1>4 DEF RuntimeRows
  <2>2. QED
    BY <1>3, <2>1 DEF HandlerRows, PCs
<1>7. h.pc \in Active
  BY <1>1 DEF Active, PCs
<1>8. handler[r][a] = h
  OBVIOUS
<1> HIDE DEF h, f, p
<1>9. CASE db' = db /\ handler' = WithHandler(handler, r, a, f)
  <2>1. HandlerOK(db, native, r, a, f)
    BY <1>1, <1>3, <1>5 DEF HandlerOK, ShapeOK, Early, Segment, Steering, Dispatched, Opening
  <2>2. Stalling = {} => HolderOK(db, r, a, f)
    BY <1>3, <1>5, <1>7 DEF HolderOK, Owning
  <2>3. Both(db, WithHandler(handler, r, a, f), native)
    BY <1>5, <2>1, <2>2, InvIs, RowStep
  <2>4. QED
    BY <1>1, <1>9, <2>3 DEF ConversationInv
<1>10. CASE /\ CanAcquire(db, r) /\ \E changed \in BOOLEAN : db' = Acquired(db, r, h.worker, changed)
            /\ handler' = WithHandler(handler, r, a, p)
  <2>1. PICK changed \in BOOLEAN : db' = Acquired(db, r, h.worker, changed)
    BY <1>10
  <2> DEFINE e == Acquired(db, r, h.worker, changed)
  <2>2. h.worker \in Workers \cup {None}
    BY <1>3 DEF HandlerRows
  <2>3. /\ StoreOK(e) /\ (HeadsFirst(db) => HeadsFirst(e))
        /\ KeepsInputs(db, e) /\ SameTasks(db, e) /\ OnlyInput(db, e, r)
        /\ e.job = db.job /\ e.fu[r].mode = db.fu[r].mode
        /\ e.rt.state = "running" /\ e.rt.run = r /\ e.rt.worker = h.worker /\ e.rt.gen = db.rt.gen
        /\ db.rt.run = r => e.rt.turn = db.rt.turn
    BY <1>3, <1>4, <2>2, AcquireKeeps
  <2> HIDE DEF e
  <2>4. Moves(db, e, native)
    BY <2>3, KeepsMoves DEF SameTasks
  <2>5. HandlerOK(e, native, r, a, h) => HandlerOK(e, native, r, a, p)
    BY <1>1, <1>3, <1>6 DEF HandlerOK, ShapeOK, Early, Segment, Steering, Dispatched, Opening
  <2>6. ASSUME Stalling = {} PROVE PunctualMove(db, e, r) /\ HolderOK(e, r, a, p)
    <3>1. Punctual(db, handler, native) /\ Holds(db, r, a) /\ db.job[r].worker = h.worker
      BY <1>3, <1>7, <2>6, InvIs DEF HolderOK
    <3>2. db.job[r].status = "held" /\ db.fu[r].mode # "steer_only"
      BY <1>4, <3>1 DEF Holds, InputOK
    <3>3. Live(e, r) /\ e.fu[r].mode # "steer_only" /\ ParkedOK(e, r)
      BY <2>3, <3>2 DEF Live, Over, ParkedOK
    <3>4. db.rt.state = "idle" \/ db.rt.run = r
      BY <1>4, <1>10, <3>1 DEF CanAcquire, Punctual, OwnerOK, Live, RuntimeRows
    <3>5. PunctualMove(db, e, r)
      BY <2>3, <3>3, <3>4, OnlyIsOthers DEF PunctualMove, SameTasks
    <3>6. HolderOK(e, r, a, p)
      BY <1>3, <1>6, <2>3, <3>1 DEF HolderOK, Holds, OwnsRuntime
    <3>7. QED
      BY <3>5, <3>6
  <2>7. Both(e, WithHandler(handler, r, a, p), native)
    BY <1>6, <1>7, <1>8, <2>4, <2>5, <2>6, InvIs, RunStep
  <2>8. QED
    BY <1>1, <1>10, <2>1, <2>3, <2>7, InvIs DEF ConversationInv, e
<1> QED
  BY <1>2, <1>9, <1>10

\* A handler moves with a transaction on the rows of its run.
LEMMA ActsOnRun ==
    ASSUME ConversationInv, NEW r \in Runs, NEW a \in Attempts, handler[r][a].pc \in Active,
           NEW e, Moves(db, e, native), HeadsFirst(db) => HeadsFirst(e),
           Stalling = {} => PunctualMove(db, e, r),
           NEW k \in HandlerRows,
           HandlerOK(e, native, r, a, handler[r][a]) => HandlerOK(e, native, r, a, k),
           Stalling = {} => HolderOK(e, r, a, k),
           db' = e, native' = native, handler' = WithHandler(handler, r, a, k)
    PROVE  ConversationInv'
<1>1. Both(db, handler, native)
  BY InvIs
<1>2. Both(e, WithHandler(handler, r, a, k), native)
  BY <1>1, RunStep
<1> QED
  BY <1>2, InvIs DEF ConversationInv

\* A handler moves without a transaction.
LEMMA ActsAlone ==
    ASSUME ConversationInv, NEW r \in Runs, NEW a \in Attempts,
           NEW k \in HandlerRows, HandlerOK(db, native, r, a, k),
           Stalling = {} => HolderOK(db, r, a, k),
           db' = db, native' = native, handler' = WithHandler(handler, r, a, k)
    PROVE  ConversationInv'
<1>1. Both(db, WithHandler(handler, r, a, k), native)
  BY InvIs, RowStep
<1> QED
  BY <1>1, InvIs DEF ConversationInv

\* A transaction of a handler that throws.
LEMMA ActsAndThrows ==
    ASSUME ConversationInv, NEW r \in Runs, NEW a \in Attempts, handler[r][a].pc \in Active,
           NEW e, Moves(db, e, native), HeadsFirst(db) => HeadsFirst(e),
           Stalling = {} => PunctualMove(db, e, r) /\ HolderOK(e, r, a, handler[r][a]),
           NEW x \in BOOLEAN, db' = e, native' = native, Throw(r, a, x)
    PROVE  ConversationInv'
<1> DEFINE h == handler[r][a]
           k == Thrown(h, x)
<1>1. handler' = WithHandler(handler, r, a, k)
  BY HandlerMoves
<1>2. h \in HandlerRows /\ General(e, handler, native)
  BY InvIs, DbGeneral DEF HandlerTables
<1>3. HandlerOK(e, native, r, a, h)
  BY <1>2 DEF General
<1> HIDE DEF h, k
<1>4. k \in HandlerRows /\ HandlerOK(e, native, r, a, k) /\ (HolderOK(e, r, a, h) => HolderOK(e, r, a, k))
  BY <1>2, <1>3, ThrowFits DEF h, k
<1>5. Stalling = {} => HolderOK(e, r, a, k)
  BY <1>4 DEF h
<1> QED
  BY <1>1, <1>4, <1>5, ActsOnRun

\* A transaction that leaves the runtime and every input alone.
LEMMA StillMoves ==
    ASSUME NEW d, NEW e, NEW n, StoreOK(e), KeepsInputs(d, e), SameTasks(d, e),
           e.rt = d.rt, e.job = d.job, e.fu = d.fu
    PROVE  /\ Moves(d, e, n)
           /\ \A H, m : m \in Runs /\ Punctual(d, H, n) => PunctualMove(d, e, m)
<1>1. Moves(d, e, n)
  BY KeepsMoves DEF SameTasks
<1>2. ASSUME NEW H, NEW m \in Runs, Punctual(d, H, n) PROVE PunctualMove(d, e, m)
  <2>1. Others(d, e, m)
    BY DEF Others
  <2>2. ParkedOK(e, m)
    BY <1>2 DEF Punctual, ParkedOK, SameTasks
  <2>3. e.rt.state = "running" /\ e.rt.run = m => Live(e, m) /\ e.fu[m].mode # "steer_only"
    BY <1>2 DEF Punctual, OwnerOK, Live, Over
  <2>4. QED
    BY <2>1, <2>2, <2>3 DEF PunctualMove, SameTasks
<1> QED
  BY <1>1, <1>2

\* The handler whose row does not move keeps its lease and runtime, too.
LEMMA StillHolds ==
    ASSUME NEW d, NEW e, NEW n, NEW r \in Runs, NEW a \in Attempts, NEW h \in HandlerRows,
           e.rt = d.rt, e.job = d.job, \A q \in Runs : KeepsRow(d, e, q),
           HolderOK(d, r, a, h), HandlerOK(d, n, r, a, h)
    PROVE  HolderOK(e, r, a, h)
<1>1. h.steer # None => e.cmd[h.steer].gen = h.gen
  BY DEF HolderOK, HandlerOK, KeepsRow, HandlerRows
<1> QED
  BY <1>1 DEF HolderOK, Holds, OwnsRuntime

\* Routing and preparation; a run whose question was answered takes the answer.
LEMMA PrepareStep ==
    ASSUME ConversationInv, NEW r \in Runs, NEW a \in Attempts, Prepare(r, a)
    PROVE  ConversationInv'
<1> DEFINE h == handler[r][a]
           take == IF /\ TurnAlive(db, h.worker) /\ ~db.job[db.rt.run].cancel /\ db.rt.run = r
                      /\ db.rt.turn # None /\ db.dispatch[r][db.rt.turn] = "parked"
                   THEN Takeable(db, h.gen, TRUE) ELSE {}
           s == Min(take)
           e == Taken(db, s, h.worker)
           g == [h EXCEPT !.pc = "dispatching", !.port = TRUE]
           k == [h EXCEPT !.pc = "dispatching", !.port = TRUE, !.resume = TRUE, !.steer = s]
<1>1. h.pc = "preparing" /\ native' = native
  BY DEF Prepare
<1>2. \/ \E x \in BOOLEAN : Throw(r, a, x) /\ db' = db
      \/ Goto(r, a, "binding") /\ db' = db
      \/ handler' = WithHandler(handler, r, a, g) /\ db' = db
      \/ /\ take # {} /\ db' = e
         /\ Throw(r, a, FALSE) \/ handler' = WithHandler(handler, r, a, k)
  BY DEF Prepare, WithHandler
<1>3. /\ h \in HandlerRows /\ HandlerOK(db, native, r, a, h) /\ ShapeOK(h)
      /\ h.steer = None /\ h.reply = "none" /\ ~h.resume /\ ~h.port
      /\ Stalling = {} => HolderOK(db, r, a, h)
  BY <1>1, ActorIs DEF Steering, Segment, ShapeOK
<1>4. handler[r][a].pc \in Active
  BY <1>1 DEF Active, PCs
<1>5. CASE \E x \in BOOLEAN : Throw(r, a, x) /\ db' = db
  BY <1>1, <1>4, <1>5, ThrowAlone
<1>6. ASSUME NEW l \in HandlerRows, l.pc \in {"binding", "dispatching"}, l.worker = h.worker,
             l.gen = h.gen, l.steer = h.steer, l.reply = h.reply, l.resume = h.resume,
             l.pc = "binding" => l.port = h.port,
             handler' = WithHandler(handler, r, a, l), db' = db
      PROVE  ConversationInv'
  <2> HIDE DEF h
  <2>1. HandlerOK(db, native, r, a, l)
    BY <1>1, <1>3, <1>6 DEF HandlerOK, ShapeOK, Early, Segment, Steering, Dispatched, Opening
  <2>2. Stalling = {} => HolderOK(db, r, a, l)
    BY <1>1, <1>3, <1>6 DEF HolderOK, Active, Owning, PCs
  <2>3. QED
    BY <1>1, <1>6, <2>1, <2>2, ActsAlone
<1>8. CASE Goto(r, a, "binding") /\ db' = db
  <2> DEFINE l == At(h, "binding")
  <2>1. handler' = WithHandler(handler, r, a, l)
    BY <1>8, HandlerMoves
  <2>2. /\ l \in HandlerRows /\ l.pc = "binding" /\ l.worker = h.worker /\ l.gen = h.gen
        /\ l.steer = h.steer /\ l.reply = h.reply /\ l.resume = h.resume /\ l.port = h.port
    BY <1>3, AtIs DEF PCs
  <2> HIDE DEF h, l
  <2>3. QED
    BY <1>6, <1>8, <2>1, <2>2
<1>9. CASE handler' = WithHandler(handler, r, a, g) /\ db' = db
  <2>1. /\ g \in HandlerRows /\ g.pc = "dispatching" /\ g.worker = h.worker /\ g.gen = h.gen
        /\ g.steer = h.steer /\ g.reply = h.reply /\ g.resume = h.resume
    BY <1>3 DEF HandlerRows, PCs
  <2> HIDE DEF h, g
  <2>2. QED
    BY <1>6, <1>9, <2>1
<1>7. CASE /\ take # {} /\ db' = e
           /\ Throw(r, a, FALSE) \/ handler' = WithHandler(handler, r, a, k)
  <2>1. take \in SUBSET Runs
    BY DEF Takeable
  <2>2. s \in take
    BY <1>7, <2>1, MinIsSmallest
  <2>3. s \in Runs /\ db.cmd[s].state # "none" /\ db.cmd[s].gen = h.gen
    BY <2>2 DEF Takeable
  <2>4. h.worker \in Workers \cup {None} /\ StoreOK(db) /\ handler[r][a] = h
    BY <1>3, InvIs DEF HandlerRows
  <2> HIDE DEF take, s, h
  <2>5. CommandStep(db, e, s)
    BY <2>3, <2>4, TakeKeeps
  <2> HIDE DEF e
  <2>6. /\ Moves(db, e, native) /\ (HeadsFirst(db) => HeadsFirst(e))
        /\ Stalling = {} => PunctualMove(db, e, r)
        /\ e.rt = db.rt /\ e.job = db.job /\ e.fu = db.fu
    BY <2>5, StillMoves, InvIs DEF CommandStep
  <2>7. Stalling = {} => HolderOK(e, r, a, h)
    BY <1>3, <2>6, StillHolds DEF Moves
  <2>8. CASE Throw(r, a, FALSE)
    BY <1>1, <1>4, <1>7, <2>4, <2>6, <2>7, <2>8, ActsAndThrows
  <2>9. CASE handler' = WithHandler(handler, r, a, k)
    <3>1. /\ k \in HandlerRows /\ k.pc = "dispatching" /\ k.worker = h.worker /\ k.gen = h.gen
          /\ k.steer = s /\ k.reply = h.reply /\ k.resume = TRUE /\ k.port = TRUE /\ s # None
      <4>1. "dispatching" \in PCs
        BY DEF PCs
      <4>2. s # None
        BY <2>3, StoreAssumption DEF Runs, None
      <4>3. QED
        BY <1>3, <2>3, <4>1, <4>2 DEF HandlerRows
    <3>2. e.cmd[s].state # "none" /\ e.cmd[s].gen = h.gen
      BY <2>3, <2>6 DEF Moves, KeepsRow
    <3> HIDE DEF k
    <3>3. HandlerOK(e, native, r, a, h) => HandlerOK(e, native, r, a, k)
      BY <1>1, <1>3, <3>1, <3>2 DEF HandlerOK, ShapeOK, Early, Segment, Steering, Dispatched, Opening
    <3>4. Stalling = {} => HolderOK(e, r, a, k)
      BY <1>1, <2>7, <3>1, <3>2 DEF HolderOK, Active, Owning, PCs
    <3>5. QED
      BY <1>1, <1>4, <1>7, <2>4, <2>6, <2>9, <3>1, <3>3, <3>4, ActsOnRun
  <2>10. QED
    BY <1>7, <2>8, <2>9
<1> QED
  BY <1>2, <1>5, <1>7, <1>8, <1>9

\* A dispatch may start when none of the run's is open and its attempt has not prompted;
\* it may end when its attempt has opened a turn and its handler is past it.
LEMMA DispatchGeneral ==
    ASSUME NEW d, NEW e, NEW H, NEW n, General(d, H, n), StoreOK(e), KeepsInputs(d, e),
           e.turns = d.turns, NEW r \in Runs, NEW a \in Attempts, NEW x, e.dispatch[r][a] = x,
           \A q \in Runs, b \in Attempts : q # r \/ b # a => e.dispatch[q][b] = d.dispatch[q][b],
           \/ /\ x = "started" /\ a \notin n.prompts[r]
              /\ \A b \in Attempts : d.dispatch[r][b] # "started"
           \/ /\ x \in {"parked", "completed"} /\ OpenedBy(d, r, a)
              /\ d.dispatch[r][a] = "started" /\ H[r][a].pc \notin Dispatched
    PROVE  General(e, H, n)
<1>1. StoreOK(d) /\ H \in HandlerTables /\ n \in NativeStates /\ \A q \in Runs : KeepsRow(d, e, q)
  BY DEF General, KeepsInputs, KeepsInput
<1>2. ASSUME NEW q \in Runs, NEW b \in Attempts PROVE HandlerOK(e, n, q, b, H[q][b])
  <2>1. H[q][b] \in HandlerRows /\ HandlerOK(d, n, q, b, H[q][b])
    BY <1>1 DEF General, HandlerTables
  <2>2. e.dispatch[q][b] \in {d.dispatch[q][b], "started"} \/ H[q][b].pc \notin Dispatched
    OBVIOUS
  <2>3. QED
    BY <1>1, <2>1, <2>2, HandlerStays
<1>3. \A q, c : OpenedBy(e, q, c) <=> OpenedBy(d, q, c)
  BY DEF OpenedBy
<1>4. ASSUME NEW q \in Runs PROVE ToldOK(e, n, q)
  <2>1. ToldOK(d, n, q) /\ n.prompts[q] \subseteq Attempts
    BY <1>1 DEF General, HarnessOK, NativeStates
  <2>2. \A b \in n.prompts[q] : d.dispatch[q][b] = "none" => e.dispatch[q][b] = "none"
    BY <2>1
  <2>3. e.fu[q].state = "consumed" => d.fu[q].state = "consumed"
    BY DEF KeepsInputs, KeepsInput
  <2>4. QED
    BY <1>1, <2>1, <2>2, <2>3, ToldStays
<1>5. ASSUME NEW q \in Runs PROVE DispatchOK(e, q)
  <2>1. DispatchOK(d, q)
    BY DEF General, HarnessOK
  <2>2. QED
    BY <1>3, <2>1 DEF DispatchOK
<1> QED
  BY <1>1, <1>2, <1>4, <1>5 DEF General, HarnessOK

\* The same for the whole invariant, when nothing else moves.
LEMMA DispatchStep ==
    ASSUME NEW d, NEW H, NEW n, Both(d, H, n), NEW r \in Runs, NEW a \in Attempts,
           NEW x \in {"none", "started", "parked", "completed"},
           \/ /\ x = "started" /\ a \notin n.prompts[r]
              /\ \A b \in Attempts : d.dispatch[r][b] # "started"
           \/ /\ x \in {"parked", "completed"} /\ OpenedBy(d, r, a)
              /\ d.dispatch[r][a] = "started" /\ H[r][a].pc \notin Dispatched
    PROVE  LET e == WithDispatch(d, r, a, x) IN
           /\ Both(e, H, n) /\ TaskStep(d, e) /\ e.wait = d.wait /\ e.turns = d.turns
           /\ e.dispatch[r][a] = x
<1> DEFINE e == WithDispatch(d, r, a, x)
<1>1. StoreOK(d)
  BY DEF Both, General
<1>2. /\ TaskStep(d, e) /\ e.wait = d.wait /\ e.turns = d.turns
      /\ e.dispatch[r][a] = x
      /\ \A q \in Runs, b \in Attempts : q # r \/ b # a => e.dispatch[q][b] = d.dispatch[q][b]
  BY <1>1, DispatchKeeps
<1> HIDE DEF e
<1>3. StoreOK(e) /\ KeepsInputs(d, e) /\ e.rt = d.rt /\ e.job = d.job /\ e.fu = d.fu /\ e.cmd = d.cmd
  BY <1>2 DEF TaskStep
<1>4. General(d, H, n)
  BY DEF Both
<1>5. General(e, H, n)
  BY <1>2, <1>3, <1>4, DispatchGeneral
<1>6. Punctual(d, H, n) => Punctual(e, H, n)
  BY <1>2, <1>3 DEF Punctual, OwnerOK, ParkedOK, HolderOK, Holds, OwnsRuntime, Live, Over
<1> QED
  BY <1>2, <1>5, <1>6 DEF e, Both

\* beginNativeTaskWithStopReceipt.
LEMMA BeginStep ==
    ASSUME ConversationInv, NEW r \in Runs, NEW a \in Attempts, BeginNativeTask(r, a)
    PROVE  ConversationInv'
<1> DEFINE h == handler[r][a]
           k == At(h, "binding")
           e == WithDispatch(db, r, a, "started")
<1>1. h.pc = "dispatching" /\ native' = native
  BY DEF BeginNativeTask
<1>2. /\ h \in HandlerRows /\ HandlerOK(db, native, r, a, h) /\ ShapeOK(h) /\ h.reply = "none"
      /\ Stalling = {} => HolderOK(db, r, a, h)
  BY <1>1, ActorIs DEF Steering
<1>3. handler[r][a].pc \in Active /\ handler[r][a].reply = "none"
  BY <1>1, <1>2 DEF Active, PCs
<1>4. CASE Throw(r, a, FALSE) /\ db' = db
  BY <1>1, <1>3, <1>4, ThrowAlone
<1>5. CASE /\ \A b \in Attempts : db.dispatch[r][b] # "started"
           /\ db' = e /\ Goto(r, a, "binding")
  <2>1. handler' = WithHandler(handler, r, a, k)
    BY <1>5, HandlerMoves
  <2>2. /\ k \in HandlerRows /\ k.pc = "binding" /\ k.worker = h.worker /\ k.gen = h.gen
        /\ k.steer = h.steer /\ k.reply = h.reply /\ k.resume = h.resume /\ k.port = h.port
    BY <1>2, AtIs DEF PCs
  <2>3. Both(db, handler, native) /\ a \notin native.prompts[r]
    BY <1>1, <1>2, InvIs DEF HandlerOK, Early
  <2>4. /\ Both(e, handler, native) /\ TaskStep(db, e) /\ e.wait = db.wait /\ e.turns = db.turns
        /\ e.dispatch[r][a] = "started"
    BY <1>5, <2>3, DispatchStep
  <2>5. handler[r][a] = h
    OBVIOUS
  <2> HIDE DEF h, k, e
  <2>6. e.rt = db.rt /\ e.job = db.job /\ e.fu = db.fu /\ e.cmd = db.cmd /\ (HeadsFirst(db) => HeadsFirst(e))
    BY <2>4 DEF TaskStep
  <2>8. /\ HandlerOK(e, native, r, a, h)
        /\ Stalling = {} => HolderOK(e, r, a, h)
    BY <2>4, <2>5, HandlerIs
  <2>9. HandlerOK(e, native, r, a, k)
    BY <1>1, <2>2, <2>4, <2>8 DEF HandlerOK, ShapeOK, Early, Segment, Steering, Dispatched, Opening
  <2>10. Stalling = {} => HolderOK(e, r, a, k)
    BY <1>1, <2>2, <2>8 DEF HolderOK, Active, Owning, PCs
  <2>11. Both(e, WithHandler(handler, r, a, k), native)
    BY <2>2, <2>4, <2>9, <2>10, RowStep
  <2>12. QED
    BY <1>1, <1>5, <2>1, <2>6, <2>11, InvIs DEF ConversationInv
<1>6. \/ Throw(r, a, FALSE) /\ db' = db
      \/ /\ \A b \in Attempts : db.dispatch[r][b] # "started"
         /\ db' = e /\ Goto(r, a, "binding")
  BY DEF BeginNativeTask, WithDispatch
<1> QED
  BY <1>4, <1>5, <1>6

\* A step of the runtime's owner on the runtime row.
LEMMA OwnerMoves ==
    ASSUME NEW d, NEW e, NEW n, StoreOK(d), RuntimeStep(d, e, e.rt),
           e.rt.run = d.rt.run
    PROVE  /\ Moves(d, e, n)
           /\ \A H, m : /\ m \in Runs /\ Punctual(d, H, n) /\ d.rt.state = "running"
                        /\ d.rt.run = m /\ d.job[m].status = "held"
                        => PunctualMove(d, e, m)
<1>1. /\ StoreOK(e) /\ KeepsInputs(d, e) /\ SameTasks(d, e)
      /\ e.job = d.job /\ e.fu = d.fu /\ e.cmd = d.cmd
  BY DEF RuntimeStep
<1>2. Moves(d, e, n)
  BY <1>1, KeepsMoves DEF SameTasks
<1>3. ASSUME NEW H, NEW m \in Runs, Punctual(d, H, n), d.rt.state = "running",
             d.rt.run = m, d.job[m].status = "held"
      PROVE  PunctualMove(d, e, m)
  <2>1. Others(d, e, m) /\ ParkedOK(e, m)
    BY <1>1, <1>3 DEF Others, ParkedOK
  <2>2. Live(e, m) /\ e.fu[m].mode # "steer_only"
    BY <1>1, <1>3 DEF Punctual, OwnerOK, Live, Over
  <2>3. QED
    BY <1>1, <1>3, <2>1, <2>2 DEF PunctualMove, SameTasks
<1> QED
  BY <1>2, <1>3

\* bindConversationThread.
LEMMA BindStep ==
    ASSUME ConversationInv, NEW r \in Runs, NEW a \in Attempts, BindThread(r, a)
    PROVE  ConversationInv'
<1> DEFINE h == handler[r][a]
<1>1. h.pc = "binding" /\ native' = native
  BY DEF BindThread
<1>2. /\ h \in HandlerRows /\ HandlerOK(db, native, r, a, h) /\ ShapeOK(h) /\ h.reply = "none"
      /\ Stalling = {} => HolderOK(db, r, a, h)
  BY <1>1, ActorIs DEF Steering
<1>3. handler[r][a].pc \in Active /\ handler[r][a] = h
  BY <1>1 DEF Active, PCs
<1>4. CASE \E x \in BOOLEAN : Throw(r, a, x) /\ db' = db
  BY <1>1, <1>3, <1>4, ThrowAlone
<1>5. ASSUME NEW new \in BOOLEAN, OwnsRuntime(db, r, h.worker),
             new => db.rt.gen < MaxGeneration /\ ~h.resume, new \/ db.rt.thread # None,
             db' = Bound(db, new),
             handler' = [handler EXCEPT ![r][a] = [@ EXCEPT !.pc = "checking", !.gen = db'.rt.gen]]
      PROVE  ConversationInv'
  <2> DEFINE e == Bound(db, new)
             g == e.rt.gen
             k == [h EXCEPT !.pc = "checking", !.gen = g]
  <2>1. db.rt.state = "running" /\ db.rt.run = r /\ db.rt.worker = h.worker
    BY <1>5 DEF OwnsRuntime
  <2>2. StoreOK(db)
    BY InvIs
  <2>3. /\ RuntimeStep(db, e, e.rt)
        /\ e.rt.state = "running" /\ e.rt.run = db.rt.run /\ e.rt.worker = db.rt.worker
        /\ e.rt.gen \in 1..MaxGeneration /\ (~new => e.rt = db.rt)
    BY <1>5, <2>1, <2>2, BindKeeps
  <2>4. db' = e
    BY <1>5
  <2>5. handler' = WithHandler(handler, r, a, k)
    BY <1>5, <2>4 DEF WithHandler
  <2>6. h.resume => ~new
    BY <1>5
  <2>7. g = e.rt.gen
    OBVIOUS
  <2> HIDE DEF h, e, g
  <2>8. /\ Moves(db, e, native)
        /\ (HeadsFirst(db) => HeadsFirst(e)) /\ e.job = db.job /\ e.cmd = db.cmd
    BY <2>2, <2>3, OwnerMoves DEF RuntimeStep
  <2>9. ASSUME Stalling = {}
        PROVE  /\ PunctualMove(db, e, r) /\ Holds(e, r, a) /\ e.job[r].worker = h.worker
               /\ db.rt.gen = h.gen /\ (h.steer # None => e.cmd[h.steer].gen = h.gen)
    <3>1. Holds(db, r, a) /\ db.job[r].worker = h.worker /\ db.rt.gen = h.gen
          /\ (h.steer # None => db.cmd[h.steer].gen = h.gen)
      BY <1>1, <1>2, <2>9 DEF HolderOK, Active, Owning, PCs
    <3>2. db.job[r].status = "held" /\ Punctual(db, handler, native)
      BY <2>9, <3>1, InvIs DEF Holds
    <3>3. PunctualMove(db, e, r)
      BY <2>1, <2>2, <2>3, <3>2, OwnerMoves
    <3>4. QED
      BY <2>8, <3>1, <3>3 DEF Holds
  <2>10. g \in 1..MaxGeneration /\ g \in 0..MaxGeneration /\ g # 0
    BY <2>3, <2>7, StoreAssumption
  <2>11. /\ k \in HandlerRows /\ k.pc = "checking" /\ k.worker = h.worker /\ k.gen = g
         /\ k.steer = h.steer /\ k.reply = h.reply /\ k.resume = h.resume /\ k.port = h.port
    <3>1. "checking" \in PCs
      BY DEF PCs
    <3>2. QED
      BY <1>2, <2>10, <3>1 DEF HandlerRows
  <2> HIDE DEF k
  <2>12. HandlerOK(e, native, r, a, h) => HandlerOK(e, native, r, a, k)
    BY <1>1, <2>10, <2>11 DEF HandlerOK, ShapeOK, Early, Segment, Steering, Dispatched, Opening
  <2>13. ASSUME Stalling = {} PROVE HolderOK(e, r, a, k)
    <3>1. h.steer # None => h.resume
      BY <1>1, <1>2 DEF ShapeOK, Segment
    <3>2. h.steer # None => g = h.gen
      BY <2>3, <2>6, <2>7, <2>9, <2>13, <3>1
    <3>3. QED
      BY <2>1, <2>3, <2>7, <2>9, <2>11, <2>13, <3>2 DEF HolderOK, Holds, OwnsRuntime
  <2>14. QED
    BY <1>1, <1>3, <2>4, <2>5, <2>8, <2>9, <2>11, <2>12, <2>13, ActsOnRun
<1>6. \/ \E x \in BOOLEAN : Throw(r, a, x) /\ db' = db
      \/ Throw(r, a, FALSE) /\ db' = db
      \/ \E new \in BOOLEAN :
            /\ OwnsRuntime(db, r, h.worker)
            /\ new => db.rt.gen < MaxGeneration /\ ~h.resume
            /\ new \/ db.rt.thread # None
            /\ db' = Bound(db, new)
            /\ handler' = [handler EXCEPT ![r][a] = [@ EXCEPT !.pc = "checking", !.gen = db'.rt.gen]]
  BY Zenon DEF BindThread
<1> QED
  BY <1>4, <1>5, <1>6

\* readOrigin: a checked run that has opened a turn goes no further, unless it resumes one.
LEMMA ReadOriginStep ==
    ASSUME ConversationInv, NEW r \in Runs, NEW a \in Attempts, ReadOrigin(r, a)
    PROVE  ConversationInv'
<1> DEFINE h == handler[r][a]
           k == At(h, "prompting")
<1>1. h.pc = "checking" /\ db' = db /\ native' = native
  BY DEF ReadOrigin
<1>2. /\ h \in HandlerRows /\ HandlerOK(db, native, r, a, h) /\ handler[r][a] = h
      /\ Stalling = {} => HolderOK(db, r, a, h)
  BY ActorIs
<1>3. handler[r][a].pc \in Active
  BY <1>1 DEF Active, PCs
<1>4. CASE Throw(r, a, FALSE)
  BY <1>1, <1>3, <1>4, ThrowAlone
<1>5. CASE /\ CheckedDelivery /\ ~h.resume => \A b : ~OpenedBy(db, r, b)
           /\ Goto(r, a, "prompting")
  <2>1. handler' = WithHandler(handler, r, a, k)
    BY <1>5, HandlerMoves
  <2>2. /\ k \in HandlerRows /\ k.pc = "prompting" /\ k.worker = h.worker /\ k.gen = h.gen
        /\ k.steer = h.steer /\ k.reply = h.reply /\ k.resume = h.resume /\ k.port = h.port
    BY <1>2, AtIs DEF PCs
  <2> HIDE DEF h, k
  <2>3. HandlerOK(db, native, r, a, k)
    BY <1>1, <1>2, <1>5, <2>2 DEF HandlerOK, ShapeOK, Early, Segment, Steering, Dispatched, Opening
  <2>4. Stalling = {} => HolderOK(db, r, a, k)
    BY <1>1, <1>2, <2>2 DEF HolderOK, Active, Owning, PCs
  <2>5. QED
    BY <1>1, <2>1, <2>2, <2>3, <2>4, ActsAlone
<1> QED
  BY <1>4, <1>5 DEF ReadOrigin, OpenedBy

\* The harness adopts inputs that were sent as commands, and asks questions.
LEMMA NativeMoves ==
    ASSUME NEW d, NEW H, NEW n, Both(d, H, n), NEW n2 \in NativeStates, n2.prompts = n.prompts,
           \A q \in Runs : n.adopted[q] \subseteq n2.adopted[q],
           \A q \in Runs : n2.adopted[q] # n.adopted[q] => d.cmd[q].state # "none",
           Stalling = {} => \A q \in Runs : n2.adopted[q] \subseteq {d.cmd[q].gen}
    PROVE  Both(d, H, n2)
<1>1. General(d, H, n) /\ H \in HandlerTables
  BY DEF Both, General
<1>2. ASSUME NEW q \in Runs PROVE n.adopted[q] # {} => n2.adopted[q] # {}
  OBVIOUS
<1>3. ASSUME NEW q \in Runs, NEW b \in Attempts PROVE HandlerOK(d, n2, q, b, H[q][b])
  <2> DEFINE h == H[q][b]
  <2>1. HandlerOK(d, n, q, b, h) /\ h \in HandlerRows
    BY <1>1 DEF General, HandlerTables
  <2> HIDE DEF h
  <2>2. h.steer # None => h.steer \in Runs
    BY <2>1 DEF HandlerRows
  <2>3. h.steer # None /\ n.adopted[h.steer] # {} => n2.adopted[h.steer] # {}
    BY <1>2, <2>2
  <2>4. HandlerOK(d, n2, q, b, h)
    BY <2>1, <2>3 DEF HandlerOK
  <2>5. QED
    BY <2>4 DEF h
<1>4. ASSUME NEW q \in Runs PROVE ToldOK(d, n2, q)
  <2>1. ToldOK(d, n, q)
    BY <1>1 DEF General, HarnessOK
  <2>2. QED
    BY <1>2, <2>1 DEF ToldOK, Untold
<1>5. General(d, H, n2)
  BY <1>1, <1>3, <1>4 DEF General, HarnessOK
<1>6. Stalling = {} => Punctual(d, H, n2)
  BY DEF Both, Punctual
<1> QED
  BY <1>5, <1>6 DEF Both

\* The harness's knowledge with one more adopted input, a question answered, and one
\* more prompt.
Adopts(n, s, g) == [n EXCEPT !.adopted = [n.adopted EXCEPT ![s] = n.adopted[s] \cup {g}]]
Asks(n, r, x) == [n EXCEPT !.asked = [n.asked EXCEPT ![r] = x]]
Prompts(n, r, a) == [n EXCEPT !.prompts = [n.prompts EXCEPT ![r] = n.prompts[r] \cup {a}]]

\* An adoption.
LEMMA AdoptsIs ==
    ASSUME NEW n \in NativeStates, NEW s \in Runs, NEW g \in 1..MaxGeneration
    PROVE  LET m == Adopts(n, s, g) IN
           /\ m \in NativeStates /\ m.prompts = n.prompts /\ m.asked = n.asked
           /\ m.adopted[s] = n.adopted[s] \cup {g}
           /\ \A q \in Runs : q # s => m.adopted[q] = n.adopted[q]
<1> DEFINE A == [n.adopted EXCEPT ![s] = n.adopted[s] \cup {g}]
<1>1. n.adopted \in [Runs -> SUBSET (1..MaxGeneration)]
  BY DEF NativeStates
<1>2. /\ A \in [Runs -> SUBSET (1..MaxGeneration)] /\ A[s] = n.adopted[s] \cup {g}
      /\ \A q \in Runs : q # s => A[q] = n.adopted[q]
  BY <1>1
<1> HIDE DEF A
<1>3. [n EXCEPT !.adopted = A] \in NativeStates
      /\ [n EXCEPT !.adopted = A].adopted = A
      /\ [n EXCEPT !.adopted = A].prompts = n.prompts
      /\ [n EXCEPT !.adopted = A].asked = n.asked
  BY <1>2 DEF NativeStates
<1> QED
  BY <1>2, <1>3 DEF Adopts, A

\* A question.
LEMMA AsksIs ==
    ASSUME NEW n \in NativeStates, NEW r \in Runs, NEW x \in {"no", "open", "closed"}
    PROVE  LET m == Asks(n, r, x) IN
           m \in NativeStates /\ m.prompts = n.prompts /\ m.adopted = n.adopted
<1> DEFINE A == [n.asked EXCEPT ![r] = x]
<1>1. A \in [Runs -> {"no", "open", "closed"}]
  BY DEF NativeStates
<1> HIDE DEF A
<1>2. [n EXCEPT !.asked = A] \in NativeStates
      /\ [n EXCEPT !.asked = A].adopted = n.adopted
      /\ [n EXCEPT !.asked = A].prompts = n.prompts
  BY <1>1 DEF NativeStates
<1> QED
  BY <1>2 DEF Asks, A

\* A prompt.
LEMMA PromptsIs ==
    ASSUME NEW n \in NativeStates, NEW r \in Runs, NEW a \in Attempts
    PROVE  LET m == Prompts(n, r, a) IN
           /\ m \in NativeStates /\ m.adopted = n.adopted /\ m.prompts[r] = n.prompts[r] \cup {a}
           /\ \A q \in Runs : q # r => m.prompts[q] = n.prompts[q]
<1> DEFINE P == [n.prompts EXCEPT ![r] = n.prompts[r] \cup {a}]
<1>1. n.prompts \in [Runs -> SUBSET Attempts]
  BY DEF NativeStates
<1>2. /\ P \in [Runs -> SUBSET Attempts] /\ P[r] = n.prompts[r] \cup {a}
      /\ \A q \in Runs : q # r => P[q] = n.prompts[q]
  BY <1>1
<1> HIDE DEF P
<1>3. [n EXCEPT !.prompts = P] \in NativeStates
      /\ [n EXCEPT !.prompts = P].adopted = n.adopted
      /\ [n EXCEPT !.prompts = P].prompts = P
  BY <1>2 DEF NativeStates
<1> QED
  BY <1>2, <1>3 DEF Prompts, P

\* The prompt of the attempt that holds the job.  If the run is checked, no earlier attempt
\* has opened a turn, so that the dispatch of none has ended; and one dispatch is open at
\* most, this attempt's or an earlier one's.
LEMMA PromptBoth ==
    ASSUME NEW d, NEW H, NEW n, Both(d, H, n), NEW r \in Runs, NEW a \in Attempts,
           H[r][a].pc = "prompting", ~H[r][a].resume, Holds(d, r, a),
           d.rt.state = "running", d.rt.run = r
    PROVE  Both(d, WithHandler(H, r, a, At(H[r][a], "recording")), Prompts(n, r, a))
<1> DEFINE h == H[r][a]
           k == At(h, "recording")
           m == Prompts(n, r, a)
           H2 == WithHandler(H, r, a, k)
<1>1. /\ StoreOK(d) /\ H \in HandlerTables /\ n \in NativeStates
      /\ h \in HandlerRows /\ HandlerOK(d, n, r, a, h)
      /\ Stalling = {} => HolderOK(d, r, a, h)
      /\ ToldOK(d, n, r) /\ DispatchOK(d, r)
  BY HandlerIs
<1>2. General(d, H, n) /\ h.pc = "prompting" /\ ~h.resume
  BY DEF Both
<1>3. /\ k \in HandlerRows /\ k.pc = "recording" /\ k.worker = h.worker /\ k.gen = h.gen
      /\ k.steer = h.steer /\ k.reply = h.reply /\ k.resume = h.resume /\ k.port = h.port
  BY <1>1, AtIs DEF PCs
<1> HIDE DEF h, k
<1>4. d.job[r].attempt = a /\ d.job[r].status = "held" /\ a \in Nat
      /\ n.prompts[r] \subseteq Attempts /\ Attempts \subseteq Nat
  BY <1>1, StoreAssumption DEF Holds, Attempts, NativeStates
<1>5. h.steer = None /\ a \notin n.prompts[r]
      /\ (CheckedDelivery => \A b \in Attempts : OpenedBy(d, r, b) => b > a)
  BY <1>1, <1>2, <1>4 DEF HandlerOK, ShapeOK, Early, Segment
<1>6. /\ m \in NativeStates /\ m.adopted = n.adopted /\ m.prompts[r] = n.prompts[r] \cup {a}
      /\ \A q \in Runs : q # r => m.prompts[q] = n.prompts[q]
  BY <1>1, PromptsIs
<1> HIDE DEF m
<1>7. /\ H2 \in HandlerTables /\ H2[r][a] = k
      /\ \A q \in Runs, b \in Attempts : q # r \/ b # a => H2[q][b] = H[q][b]
  BY <1>1, <1>3, PutHandler
<1> HIDE DEF H2
<1>8. d.fu[r].state \in {"none", "running"}
  <2>1. InputOK(d.job[r], d.fu[r], d.cmd[r]) /\ RuntimeOK(d) /\ d.fu[r] \in FollowupRows
    BY <1>1, InputIs, RuntimeIs
  <2>2. QED
    BY <1>4, <2>1 DEF InputOK, RuntimeOK, FollowupRows
<1>9. ASSUME NEW q \in Runs PROVE ToldOK(d, m, q) /\ DispatchOK(d, q)
  <2>1. ToldOK(d, n, q) /\ DispatchOK(d, q)
    BY <1>2 DEF General, HarnessOK
  <2>2. CASE q = r
    <3>1. \A b \in m.prompts[r] : b <= a /\ b \in Attempts
      BY <1>1, <1>4, <1>6 DEF ToldOK
    <3>2. ASSUME CheckedDelivery PROVE Untold(d, m, r)
      <4> SUFFICES ASSUME NEW b \in m.prompts[r], NEW c \in m.prompts[r], b < c
                   PROVE  /\ ~OpenedBy(d, r, b)
                          /\ d.dispatch[r][b] = "none" \/ d.dispatch[r][c] = "none"
        BY DEF Untold
      <4>1. b \in Attempts /\ c \in Attempts /\ b <= a /\ c <= a /\ b \in Nat /\ c \in Nat
        BY <1>4, <3>1
      <4>2. ~OpenedBy(d, r, b) /\ ~OpenedBy(d, r, c)
        BY <1>4, <1>5, <3>2, <4>1
      <4>3. d.dispatch[r][b] \in {"none", "started"} /\ d.dispatch[r][c] \in {"none", "started"}
        <5>1. \A x \in Attempts : d.dispatch[r][x] \in {"none", "started", "parked", "completed"}
          BY <1>1 DEF StoreOK, RowsOK, Stores
        <5>2. QED
          BY <1>1, <4>1, <4>2, <5>1 DEF DispatchOK
      <4>4. b # c
        BY <4>1
      <4>5. QED
        BY <1>1, <4>1, <4>2, <4>3, <4>4 DEF DispatchOK
    <3>3. QED
      BY <1>4, <1>6, <1>8, <2>1, <2>2, <3>1, <3>2 DEF ToldOK
  <2>3. CASE q # r
    BY <1>6, <2>1, <2>3 DEF ToldOK, Untold
  <2>4. QED
    BY <2>2, <2>3
<1>10. ASSUME NEW q \in Runs, NEW b \in Attempts PROVE HandlerOK(d, m, q, b, H2[q][b])
  <2>1. CASE q = r /\ b = a
    <3>1. HandlerOK(d, m, r, a, k)
      BY <1>1, <1>2, <1>3, <1>5 DEF HandlerOK, ShapeOK, Early, Segment, Steering, Dispatched, Opening
    <3>2. QED
      BY <1>7, <2>1, <3>1
  <2>2. CASE q # r \/ b # a
    <3> DEFINE g == H[q][b]
    <3>1. HandlerOK(d, n, q, b, g) /\ H2[q][b] = g
      BY <1>2, <1>7, <2>2 DEF General
    <3> HIDE DEF g
    <3>2. b \in m.prompts[q] <=> b \in n.prompts[q]
      BY <1>6, <2>2
    <3>3. HandlerOK(d, m, q, b, g)
      BY <1>6, <3>1, <3>2 DEF HandlerOK
    <3>4. QED
      BY <3>1, <3>3
  <2>3. QED
    BY <2>1, <2>2
<1>11. General(d, H2, m)
  BY <1>1, <1>6, <1>7, <1>9, <1>10 DEF General, HarnessOK
<1>12. ASSUME Stalling = {} PROVE Punctual(d, H2, m)
  <2>1. Punctual(d, H, n)
    BY <1>12 DEF Both
  <2>2. HolderOK(d, r, a, k)
    BY <1>1, <1>2, <1>3, <1>12 DEF HolderOK, Active, Owning, PCs
  <2>3. \A q \in Runs, b \in Attempts : HolderOK(d, q, b, H2[q][b])
    BY <1>7, <2>1, <2>2 DEF Punctual
  <2>4. QED
    BY <1>6, <2>1, <2>3 DEF Punctual
<1> QED
  BY <1>11, <1>12 DEF Both, H2, k, h, m

\* The answer of a run's question goes out instead of a prompt.
LEMMA AnswerBoth ==
    ASSUME NEW d, NEW H, NEW n, Both(d, H, n), NEW r \in Runs, NEW a \in Attempts,
           H[r][a].pc = "prompting", H[r][a].resume
    PROVE  Both(d, WithHandler(H, r, a, At(H[r][a], "consuming")),
                Asks(Adopts(n, H[r][a].steer, H[r][a].gen), r, "closed"))
<1> DEFINE h == H[r][a]
           k == At(h, "consuming")
<1>1. /\ n \in NativeStates /\ h \in HandlerRows /\ HandlerOK(d, n, r, a, h)
      /\ Stalling = {} => HolderOK(d, r, a, h)
  BY HandlerIs
<1>2. h.pc = "prompting" /\ h.resume
  OBVIOUS
<1>3. /\ k \in HandlerRows /\ k.pc = "consuming" /\ k.worker = h.worker /\ k.gen = h.gen
      /\ k.steer = h.steer /\ k.reply = h.reply /\ k.resume = h.resume /\ k.port = h.port
  <2>1. h \in HandlerRows /\ "consuming" \in PCs
    BY <1>1 DEF PCs
  <2> HIDE DEF h
  <2>2. QED
    BY <2>1, AtIs
<1> DEFINE s == h.steer
           g == h.gen
           n1 == Adopts(n, s, g)
           m == Asks(n1, r, "closed")
<1> HIDE DEF h, k
<1>4. s # None /\ s \in Runs /\ d.cmd[s].state # "none" /\ g \in 1..MaxGeneration
  <2>1. h.steer # None /\ h.gen # 0
    BY <1>1, <1>2 DEF HandlerOK, ShapeOK, Segment
  <2>2. h.gen \in 0..MaxGeneration /\ h.steer \in Runs \cup {None}
    BY <1>1 DEF HandlerRows
  <2>3. QED
    BY <1>1, <2>1, <2>2, StoreAssumption DEF HandlerOK
<1>5. Stalling = {} => d.cmd[s].gen = g
  BY <1>1, <1>4 DEF HolderOK
<1>6. s = h.steer /\ g = h.gen
  OBVIOUS
<1> HIDE DEF s, g
<1>7. /\ n1 \in NativeStates /\ n1.prompts = n.prompts
      /\ n1.adopted[s] = n.adopted[s] \cup {g}
      /\ \A q \in Runs : q # s => n1.adopted[q] = n.adopted[q]
  BY <1>1, <1>4, AdoptsIs
<1> HIDE DEF n1
<1>8. m \in NativeStates /\ m.prompts = n1.prompts /\ m.adopted = n1.adopted
  BY <1>7, AsksIs
<1> HIDE DEF m
<1>9. Both(d, H, m)
  <2>1. \A q \in Runs : n.adopted[q] \subseteq m.adopted[q]
    BY <1>7, <1>8
  <2>2. \A q \in Runs : m.adopted[q] # n.adopted[q] => d.cmd[q].state # "none"
    BY <1>4, <1>7, <1>8
  <2>3. Stalling = {} => \A q \in Runs : m.adopted[q] \subseteq {d.cmd[q].gen}
    BY <1>5, <1>7, <1>8 DEF Both, Punctual
  <2>4. QED
    BY <1>7, <1>8, <2>1, <2>2, <2>3, NativeMoves
<1>10. HandlerOK(d, m, r, a, h)
  BY <1>9, HandlerIs DEF h
<1>11. HandlerOK(d, m, r, a, k)
  BY <1>2, <1>3, <1>6, <1>7, <1>8, <1>10 DEF HandlerOK, ShapeOK, Early, Segment, Steering, Dispatched, Opening
<1>12. Stalling = {} => HolderOK(d, r, a, k)
  BY <1>1, <1>2, <1>3 DEF HolderOK, Active, Owning, PCs
<1>13. Both(d, WithHandler(H, r, a, k), m)
  BY <1>3, <1>9, <1>11, <1>12, RowStep
<1> QED
  BY <1>13 DEF k, h, m, n1, s, g

\* bindJobNativeSession and the prompt.
LEMMA PromptStep ==
    ASSUME ConversationInv, NEW r \in Runs, NEW a \in Attempts, PromptNative(r, a)
    PROVE  ConversationInv'
<1> DEFINE h == handler[r][a]
<1>1. h.pc = "prompting" /\ db' = db
  BY DEF PromptNative
<1>2. /\ h \in HandlerRows /\ ShapeOK(h) /\ h.reply = "none"
  BY <1>1, ActorIs DEF Steering
<1>3. handler[r][a].pc \in Active /\ handler[r][a].reply = "none"
  BY <1>1, <1>2 DEF Active, PCs
<1>4. CASE Throw(r, a, FALSE) /\ native' = native
  BY <1>1, <1>3, <1>4, ThrowAlone
<1>5. CASE /\ LockOwner(db, r, a) /\ OwnsRuntime(db, r, h.worker)
           /\ native' = IF h.resume THEN Asks(Adopts(native, h.steer, h.gen), r, "closed")
                        ELSE Prompts(native, r, a)
           /\ Goto(r, a, IF h.resume THEN "consuming" ELSE "recording")
  <2>1. handler' = WithHandler(handler, r, a, At(h, IF h.resume THEN "consuming" ELSE "recording"))
    BY <1>5, HandlerMoves
  <2>2. Holds(db, r, a) /\ db.rt.state = "running" /\ db.rt.run = r
    BY <1>5 DEF LockOwner, OwnsRuntime
  <2>3. Both(db, handler, native)
    BY InvIs
  <2>4. Both(db, handler', native')
    BY <1>1, <1>5, <2>1, <2>2, <2>3, PromptBoth, AnswerBoth
  <2>5. QED
    BY <1>1, <2>4, InvIs DEF ConversationInv
<1>6. \/ Throw(r, a, FALSE) /\ native' = native
      \/ /\ LockOwner(db, r, a) /\ OwnsRuntime(db, r, h.worker)
         /\ native' = IF h.resume THEN Asks(Adopts(native, h.steer, h.gen), r, "closed")
                      ELSE Prompts(native, r, a)
         /\ Goto(r, a, IF h.resume THEN "consuming" ELSE "recording")
  <2>1. [native EXCEPT !.adopted[h.steer] = @ \cup {h.gen}, !.asked[r] = "closed"]
          = Asks(Adopts(native, h.steer, h.gen), r, "closed")
    BY InvIs DEF Asks, Adopts, NativeStates
  <2>2. [native EXCEPT !.prompts[r] = @ \cup {a}] = Prompts(native, r, a)
    BY DEF Prompts
  <2>3. QED
    BY <2>1, <2>2 DEF PromptNative
<1> QED
  BY <1>4, <1>5, <1>6

\* A handler moves after a transaction that disturbs no handler.
LEMMA ActsAfter ==
    ASSUME ConversationInv, NEW r \in Runs, NEW a \in Attempts,
           NEW e, Both(e, handler, native), HeadsFirst(db) => HeadsFirst(e),
           NEW k \in HandlerRows,
           HandlerOK(e, native, r, a, handler[r][a]) => HandlerOK(e, native, r, a, k),
           HolderOK(e, r, a, handler[r][a]) => HolderOK(e, r, a, k),
           db' = e, native' = native, handler' = WithHandler(handler, r, a, k)
    PROVE  ConversationInv'
<1>1. /\ HandlerOK(e, native, r, a, handler[r][a])
      /\ Stalling = {} => HolderOK(e, r, a, handler[r][a])
  BY HandlerIs
<1>2. Both(e, WithHandler(handler, r, a, k), native)
  BY <1>1, RowStep
<1> QED
  BY <1>2, InvIs DEF ConversationInv

\* It may throw, if it has nothing to settle.
LEMMA ThrowsAfter ==
    ASSUME ConversationInv, NEW r \in Runs, NEW a \in Attempts, handler[r][a].pc \in Active,
           NEW e, Both(e, handler, native), HeadsFirst(db) => HeadsFirst(e),
           NEW x \in BOOLEAN, Throw(r, a, x), db' = e, native' = native
    PROVE  ConversationInv'
<1>1. handler' = WithHandler(handler, r, a, Thrown(handler[r][a], x))
  BY HandlerMoves
<1>2. Both(e, WithHandler(handler, r, a, Thrown(handler[r][a], x)), native)
  BY ThrowStep
<1> QED
  BY <1>1, <1>2, InvIs DEF ConversationInv

\* A step on the tables of native tasks.
LEMMA TaskBoth ==
    ASSUME NEW d, NEW e, NEW H, NEW n, Both(d, H, n), TaskStep(d, e),
           e.dispatch = d.dispatch, e.turns = d.turns,
           \A q \in Runs : d.job[q].status = "parked" => e.wait[q] = d.wait[q]
    PROVE  Both(e, H, n)
<1>1. /\ StoreOK(e) /\ KeepsInputs(d, e)
      /\ e.rt = d.rt /\ e.job = d.job /\ e.fu = d.fu /\ e.cmd = d.cmd
  BY DEF TaskStep
<1>2. General(e, H, n)
  BY <1>1, KeepsMoves, DbGeneral DEF Both
<1>3. Punctual(d, H, n) => Punctual(e, H, n)
  BY <1>1 DEF Punctual, OwnerOK, ParkedOK, HolderOK, Holds, OwnsRuntime, Live, Over
<1> QED
  BY <1>2, <1>3 DEF Both

\* A step on the command of a steer: it ends a run only if that is the steer's, and
\* nobody works for a steer.
LEMMA SettleBoth ==
    ASSUME NEW d, NEW e, NEW H, NEW n, Both(d, H, n), NEW s \in Runs, Settles(d, e, s),
           d.cmd[s].state # "none", n.adopted[s] # {} \/ e.fu = d.fu
    PROVE  Both(e, H, n)
<1>1. StoreOK(d) /\ StoreOK(e) /\ SameTasks(d, e) /\ e.rt = d.rt /\ \A q \in Runs : KeepsRow(d, e, q)
  BY DEF Settles, Both, General
<1>2. ASSUME NEW q \in Runs, q # s PROVE e.job[q] = d.job[q] /\ e.fu[q] = d.fu[q]
  BY <1>2 DEF Settles, OnlyInput
<1>3. Moves(d, e, n)
  BY <1>1, <1>2 DEF Moves, SameTasks
<1>4. d.fu[s].mode = "steer_only" /\ d.job[s].status \in {"queued", "canceled"}
  BY <1>1, InputIs DEF InputOK
<1>5. ASSUME Punctual(d, H, n) PROVE PunctualMove(d, e, s) /\ Quiet(H, s)
  <2>1. Others(d, e, s) /\ \A q \in Runs \ {s} : e.wait[q] = d.wait[q]
    BY <1>1, <1>2 DEF Others, SameTasks
  <2>2. e.job[s].status # "parked"
    BY <1>4 DEF Settles
  <2>3. ~(e.rt.state = "running" /\ e.rt.run = s)
    BY <1>1, <1>4, <1>5 DEF Punctual, OwnerOK
  <2>4. PunctualMove(d, e, s)
    BY <1>1, <1>5, <2>1, <2>2, <2>3, SameRuntime
  <2>5. QED
    BY <1>4, <1>5, <2>4, NobodyWorks
<1>6. Stalling = {} => PunctualMove(d, e, s) /\ Quiet(H, s)
  BY <1>5 DEF Both
<1> QED
  BY <1>3, <1>6, QueueStepOK

\* recordConversationTurn.
LEMMA RecordStep ==
    ASSUME ConversationInv, NEW r \in Runs, NEW a \in Attempts, RecordTurn(r, a)
    PROVE  ConversationInv'
<1> DEFINE h == handler[r][a]
           k == At(h, "announcing")
           e == [db EXCEPT !.rt.turn = a]
<1>1. h.pc = "recording" /\ native' = native
  BY DEF RecordTurn
<1>2. /\ h \in HandlerRows /\ HandlerOK(db, native, r, a, h) /\ ShapeOK(h) /\ h.reply = "none"
      /\ Stalling = {} => HolderOK(db, r, a, h)
  BY <1>1, ActorIs DEF Steering
<1>3. handler[r][a].pc \in Active /\ handler[r][a].reply = "none" /\ handler[r][a] = h
  BY <1>1, <1>2 DEF Active, PCs
<1>4. CASE Throw(r, a, FALSE) /\ db' = db
  BY <1>1, <1>3, <1>4, ThrowAlone
<1>5. CASE OwnsRuntime(db, r, h.worker) /\ db' = e /\ Goto(r, a, "announcing")
  <2>1. handler' = WithHandler(handler, r, a, k)
    BY <1>5, HandlerMoves
  <2>2. /\ k \in HandlerRows /\ k.pc = "announcing" /\ k.worker = h.worker /\ k.gen = h.gen
        /\ k.steer = h.steer /\ k.reply = h.reply /\ k.resume = h.resume /\ k.port = h.port
    BY <1>2, AtIs DEF PCs
  <2>3. db.rt.state = "running" /\ db.rt.run = r /\ StoreOK(db)
    BY <1>5, InvIs DEF OwnsRuntime
  <2>4. /\ RuntimeStep(db, e, e.rt)
        /\ e.rt.state = "running" /\ e.rt.run = db.rt.run /\ e.rt.worker = db.rt.worker
        /\ e.rt.gen = db.rt.gen
    BY <2>3, TurnKeeps
  <2> HIDE DEF h, k, e
  <2>5. Moves(db, e, native) /\ (HeadsFirst(db) => HeadsFirst(e)) /\ e.job = db.job /\ e.cmd = db.cmd
    BY <2>3, <2>4, OwnerMoves DEF RuntimeStep
  <2>6. ASSUME Stalling = {} PROVE PunctualMove(db, e, r) /\ HolderOK(e, r, a, k)
    <3>1. HolderOK(db, r, a, h) /\ Punctual(db, handler, native)
      BY <1>2, <2>6, InvIs
    <3>2. db.job[r].status = "held"
      BY <1>1, <3>1 DEF HolderOK, Holds, Active, PCs
    <3>3. PunctualMove(db, e, r)
      BY <2>3, <2>4, <3>1, <3>2, OwnerMoves
    <3>4. HolderOK(e, r, a, k)
      BY <1>1, <2>2, <2>4, <2>5, <3>1 DEF HolderOK, Holds, OwnsRuntime, Active, Owning, PCs
    <3>5. QED
      BY <3>3, <3>4
  <2>7. HandlerOK(e, native, r, a, h) => HandlerOK(e, native, r, a, k)
    BY <1>1, <2>2 DEF HandlerOK, ShapeOK, Early, Segment, Steering, Dispatched, Opening
  <2>8. QED
    BY <1>1, <1>3, <1>5, <2>1, <2>2, <2>5, <2>6, <2>7, ActsOnRun
<1> QED
  BY <1>4, <1>5 DEF RecordTurn

\* consumeConversationSteer, of the answer the harness adopted.
LEMMA ConsumeAnswerStep ==
    ASSUME ConversationInv, NEW r \in Runs, NEW a \in Attempts, ConsumeAnswer(r, a)
    PROVE  ConversationInv'
<1> DEFINE h == handler[r][a]
           k == [h EXCEPT !.pc = "continuing", !.steer = None]
           e == Consumed(db, h.steer, h.worker)
<1>1. h.pc = "consuming" /\ native' = native /\ db' = e /\ handler' = WithHandler(handler, r, a, k)
  BY DEF ConsumeAnswer, WithHandler
<1>2. /\ h \in HandlerRows /\ HandlerOK(db, native, r, a, h) /\ ShapeOK(h) /\ handler[r][a] = h
  BY ActorIs
<1>3. h.steer # None /\ h.steer \in Runs /\ db.cmd[h.steer].state # "none"
      /\ native.adopted[h.steer] # {} /\ h.reply = "none"
  BY <1>1, <1>2 DEF ShapeOK, HandlerOK, HandlerRows, Steering
<1>4. Both(db, handler, native) /\ StoreOK(db)
  BY InvIs
<1>5. /\ k \in HandlerRows /\ k.pc = "continuing" /\ k.worker = h.worker /\ k.gen = h.gen
      /\ k.steer = None /\ k.reply = h.reply /\ k.port = h.port
  BY <1>2 DEF HandlerRows, PCs, None
<1> HIDE DEF h, k
<1>6. Settles(db, e, h.steer)
  BY <1>3, <1>4, ConsumeKeeps
<1> HIDE DEF e
<1>7. Both(e, handler, native) /\ (HeadsFirst(db) => HeadsFirst(e))
  BY <1>3, <1>4, <1>6, SettleBoth DEF Settles
<1>8. HandlerOK(e, native, r, a, h) => HandlerOK(e, native, r, a, k)
  BY <1>1, <1>3, <1>5 DEF HandlerOK, ShapeOK, Early, Segment, Steering, Dispatched, Opening
<1>9. HolderOK(e, r, a, h) => HolderOK(e, r, a, k)
  BY <1>1, <1>5 DEF HolderOK, Active, Owning, PCs
<1> QED
  BY <1>1, <1>2, <1>5, <1>7, <1>8, <1>9, ActsAfter

\* continueNativeQuestion.
LEMMA ContinueStep ==
    ASSUME ConversationInv, NEW r \in Runs, NEW a \in Attempts, ContinueNativeQuestion(r, a)
    PROVE  ConversationInv'
<1> DEFINE h == handler[r][a]
           k == [h EXCEPT !.pc = "recording", !.resume = FALSE]
           e == WithWait(db, r, "continued")
<1>1. h.pc = "continuing" /\ native' = native
  BY DEF ContinueNativeQuestion
<1>2. \/ Throw(r, a, FALSE) /\ db' = db
      \/ LockOwner(db, r, a) /\ db' = e /\ handler' = WithHandler(handler, r, a, k)
  BY DEF ContinueNativeQuestion, WithWait, WithHandler
<1>3. h \in HandlerRows /\ handler[r][a] = h /\ h.steer = None /\ h.reply = "none"
  BY <1>1, ActorIs DEF Steering, Segment
<1>4. handler[r][a].pc \in Active
  BY <1>1 DEF Active, PCs
<1>5. CASE Throw(r, a, FALSE) /\ db' = db
  BY <1>1, <1>4, <1>5, ThrowAlone
<1>6. CASE LockOwner(db, r, a) /\ db' = e /\ handler' = WithHandler(handler, r, a, k)
  <2>1. /\ k \in HandlerRows /\ k.pc = "recording" /\ k.worker = h.worker /\ k.gen = h.gen
        /\ k.steer = h.steer /\ k.reply = h.reply /\ k.port = h.port
    BY <1>3 DEF HandlerRows, PCs
  <2>2. Both(db, handler, native) /\ StoreOK(db) /\ db.job[r].status = "held"
    BY <1>6, InvIs DEF LockOwner, Holds
  <2> HIDE DEF h, k
  <2>3. /\ TaskStep(db, e) /\ e.turns = db.turns /\ e.dispatch = db.dispatch
        /\ e.wait[r] = "continued" /\ \A q \in Runs \ {r} : e.wait[q] = db.wait[q]
    BY <2>2, WaitKeeps
  <2> HIDE DEF e
  <2>4. Both(e, handler, native) /\ (HeadsFirst(db) => HeadsFirst(e))
    BY <2>2, <2>3, TaskBoth DEF TaskStep
  <2>5. HandlerOK(e, native, r, a, h) => HandlerOK(e, native, r, a, k)
    BY <1>1, <1>3, <2>1 DEF HandlerOK, ShapeOK, Early, Segment, Steering, Dispatched, Opening
  <2>6. HolderOK(e, r, a, h) => HolderOK(e, r, a, k)
    BY <1>1, <2>1 DEF HolderOK, Active, Owning, PCs
  <2>7. QED
    BY <1>1, <1>3, <1>6, <2>1, <2>4, <2>5, <2>6, ActsAfter
<1> QED
  BY <1>2, <1>5, <1>6

\* The turn of the attempt that holds the job: no later attempt has prompted, or is about to.
LEMMA AnnounceBoth ==
    ASSUME NEW d, NEW e, NEW H, NEW n, Both(d, H, n), NEW r \in Runs, NEW a \in Attempts,
           H[r][a].pc = "announcing", Holds(d, r, a), TaskStep(d, e), e.wait = d.wait,
           e.dispatch = d.dispatch, NEW g, e.turns = d.turns \cup {<<r, a, g>>}
    PROVE  Both(e, H, n) /\ OpenedBy(e, r, a)
<1>1. /\ StoreOK(e) /\ KeepsInputs(d, e)
      /\ e.rt = d.rt /\ e.job = d.job /\ e.fu = d.fu /\ e.cmd = d.cmd
  BY DEF TaskStep
<1>2. ASSUME NEW q, NEW b
      PROVE  OpenedBy(e, q, b) <=> OpenedBy(d, q, b) \/ (q = r /\ b = a)
  <2> DEFINE u == <<r, a, g>>
  <2>1. u[1] = r /\ u[2] = a /\ e.turns = d.turns \cup {u}
    OBVIOUS
  <2> HIDE DEF u
  <2>2. QED
    BY <2>1 DEF OpenedBy
<1>3. /\ General(d, H, n) /\ H \in HandlerTables /\ n \in NativeStates /\ d.job[r].attempt = a
      /\ Attempts \subseteq Nat
  BY StoreAssumption DEF Both, General, Holds, Attempts
<1>4. ASSUME NEW q \in Runs, NEW b \in Attempts PROVE HandlerOK(e, n, q, b, H[q][b])
  <2> DEFINE h == H[q][b]
  <2>1. HandlerOK(d, n, q, b, h) /\ (q = r /\ b = a => h.pc = "announcing")
    BY <1>3 DEF General
  <2> HIDE DEF h
  <2>2. \A c : OpenedBy(d, q, c) => OpenedBy(e, q, c)
    BY <1>2
  <2>3. ASSUME CheckedDelivery, h.pc = "prompting", ~h.resume, NEW c \in Attempts, OpenedBy(e, q, c)
        PROVE  c > b
    <3>1. CASE OpenedBy(d, q, c)
      BY <2>1, <2>3, <3>1 DEF HandlerOK
    <3>2. CASE q = r /\ c = a
      <4>1. b # a /\ b <= a
        BY <1>3, <2>1, <2>3, <3>2 DEF HandlerOK
      <4>2. QED
        BY <1>3, <3>2, <4>1
    <3>3. QED
      BY <1>2, <2>3, <3>1, <3>2
  <2>4. HandlerOK(e, n, q, b, h)
    BY <1>1, <2>1, <2>2, <2>3 DEF HandlerOK
  <2>5. QED
    BY <2>4 DEF h
<1>5. ASSUME NEW q \in Runs PROVE ToldOK(e, n, q) /\ DispatchOK(e, q)
  <2>1. ToldOK(d, n, q) /\ DispatchOK(d, q) /\ n.prompts[q] \subseteq Attempts
    BY <1>3 DEF General, HarnessOK, NativeStates
  <2>2. DispatchOK(e, q)
    BY <1>2, <2>1 DEF DispatchOK
  <2>3. ASSUME CheckedDelivery PROVE Untold(e, n, q)
    <3> SUFFICES ASSUME NEW b \in n.prompts[q], NEW c \in n.prompts[q], b < c
                 PROVE  /\ ~OpenedBy(e, q, b)
                        /\ e.dispatch[q][b] = "none" \/ e.dispatch[q][c] = "none"
      BY DEF Untold
    <3>1. /\ ~OpenedBy(d, q, b)
          /\ e.dispatch[q][b] = "none" \/ e.dispatch[q][c] = "none"
      BY <2>1, <2>3 DEF ToldOK, Untold
    <3>2. q = r => b # a
      <4>1. q = r => c <= a
        BY <1>3, <2>1 DEF ToldOK
      <4>2. b \in Nat /\ c \in Nat /\ a \in Nat
        BY <1>3, <2>1
      <4>3. QED
        BY <4>1, <4>2
    <3>3. QED
      BY <1>2, <3>1, <3>2
  <2>4. QED
    BY <1>1, <2>1, <2>2, <2>3 DEF ToldOK
<1>6. General(e, H, n)
  BY <1>1, <1>3, <1>4, <1>5 DEF General, HarnessOK
<1>7. Punctual(d, H, n) => Punctual(e, H, n)
  BY <1>1 DEF Punctual, OwnerOK, ParkedOK, HolderOK, Holds, OwnsRuntime, Live, Over
<1> QED
  BY <1>2, <1>6, <1>7 DEF Both

\* turn.started.
LEMMA AnnounceStep ==
    ASSUME ConversationInv, NEW r \in Runs, NEW a \in Attempts, AnnounceTurn(r, a)
    PROVE  ConversationInv'
<1> DEFINE h == handler[r][a]
           g == h.gen
           e == WithTurn(db, r, a, g)
           k == At(h, "turn")
<1>1. h.pc = "announcing" /\ native' = native
  BY DEF AnnounceTurn
<1>2. /\ h \in HandlerRows /\ ShapeOK(h) /\ handler[r][a] = h /\ h.reply = "none" /\ h.steer = None
  BY <1>1, ActorIs DEF Steering, Segment
<1>3. handler[r][a].pc \in Active
  BY <1>1 DEF Active, PCs
<1>4. \/ Throw(r, a, FALSE) /\ db' = db
      \/ Holds(db, r, a) /\ db' = e /\ Goto(r, a, "turn")
  BY DEF AnnounceTurn, WithTurn
<1>5. g \in 1..MaxGeneration
  BY <1>1, <1>2, StoreAssumption DEF ShapeOK, HandlerRows
<1>6. Both(db, handler, native) /\ StoreOK(db)
  BY InvIs
<1>7. CASE Throw(r, a, FALSE) /\ db' = db
  BY <1>1, <1>3, <1>7, ThrowAlone
<1>8. CASE Holds(db, r, a) /\ db' = e /\ Goto(r, a, "turn")
  <2>1. handler' = WithHandler(handler, r, a, k)
    BY <1>8, HandlerMoves
  <2>2. /\ k \in HandlerRows /\ k.pc = "turn" /\ k.worker = h.worker /\ k.gen = h.gen
        /\ k.steer = h.steer /\ k.reply = h.reply /\ k.resume = h.resume /\ k.port = h.port
    BY <1>2, AtIs DEF PCs
  <2> HIDE DEF h, g, k
  <2>3. /\ TaskStep(db, e) /\ e.wait = db.wait /\ e.dispatch = db.dispatch
        /\ e.turns = db.turns \cup {<<r, a, g>>}
    BY <1>5, <1>6, AnnounceKeeps
  <2> HIDE DEF e
  <2>4. Both(e, handler, native) /\ OpenedBy(e, r, a) /\ (HeadsFirst(db) => HeadsFirst(e))
    BY <1>1, <1>2, <1>6, <1>8, <2>3, AnnounceBoth DEF TaskStep
  <2>5. HandlerOK(e, native, r, a, h) => HandlerOK(e, native, r, a, k)
    BY <1>1, <1>2, <2>2, <2>4 DEF HandlerOK, ShapeOK, Early, Segment, Steering, Dispatched, Opening
  <2>6. HolderOK(e, r, a, h) => HolderOK(e, r, a, k)
    BY <1>1, <2>2 DEF HolderOK, Active, Owning, PCs
  <2>7. QED
    BY <1>1, <1>2, <1>8, <2>1, <2>2, <2>4, <2>5, <2>6, ActsAfter
<1> QED
  BY <1>4, <1>7, <1>8

-----------------------------------------------------------------------------
(* The turn *)

\* claimConversationSteer.
LEMMA ClaimSteerStep ==
    ASSUME ConversationInv, NEW r \in Runs, NEW a \in Attempts, ClaimSteer(r, a)
    PROVE  ConversationInv'
<1> DEFINE h == handler[r][a]
           take == Takeable(db, h.gen, FALSE)
           s == Min(take)
           e == Taken(db, s, h.worker)
           k == [h EXCEPT !.steer = s]
<1>1. /\ h.pc \in {"turn", "draining"} /\ h.steer = None /\ native' = native
      /\ take # {} /\ db' = e
  BY DEF ClaimSteer, InTurn
<1>2. handler' = WithHandler(handler, r, a, k)
  BY DEF ClaimSteer, WithHandler
<1>3. h \in HandlerRows /\ ShapeOK(h) /\ handler[r][a] = h
  BY ActorIs
<1>4. s \in take
  <2>1. take \in SUBSET Runs
    BY DEF Takeable
  <2>2. QED
    BY <1>1, <2>1, MinIsSmallest
<1>5. s \in Runs /\ db.cmd[s].state # "none" /\ db.cmd[s].gen = h.gen
  BY <1>4 DEF Takeable
<1>6. Both(db, handler, native) /\ StoreOK(db) /\ h.worker \in Workers \cup {None}
  BY <1>3, InvIs DEF HandlerRows
<1> HIDE DEF take, s, h
<1>7. CommandStep(db, e, s)
  BY <1>5, <1>6, TakeKeeps
<1> HIDE DEF e
<1>8. Both(e, handler, native) /\ (HeadsFirst(db) => HeadsFirst(e))
  BY <1>5, <1>6, <1>7, CommandSettles, SettleBoth DEF CommandStep
<1>9. e.cmd[s].state # "none" /\ e.cmd[s].gen = h.gen
  BY <1>5, <1>7 DEF CommandStep, KeepsInputs, KeepsInput, KeepsRow
<1>10. /\ k \in HandlerRows /\ k.pc = h.pc /\ k.worker = h.worker /\ k.gen = h.gen
       /\ k.steer = s /\ k.reply = h.reply /\ k.resume = h.resume /\ k.port = h.port
  BY <1>3, <1>5 DEF HandlerRows
<1>11. h.reply = "none"
  BY <1>1, <1>3 DEF ShapeOK
<1> HIDE DEF k
<1>12. HandlerOK(e, native, r, a, h) => HandlerOK(e, native, r, a, k)
  BY <1>1, <1>9, <1>10, <1>11 DEF HandlerOK, ShapeOK, Early, Segment, Steering, Dispatched, Opening
<1>13. HolderOK(e, r, a, h) => HolderOK(e, r, a, k)
  BY <1>9, <1>10 DEF HolderOK
<1> QED
  BY <1>1, <1>2, <1>3, <1>8, <1>10, <1>12, <1>13, ActsAfter

\* A handler moves after a call to the harness.
LEMMA ActsAfterCall ==
    ASSUME ConversationInv, NEW r \in Runs, NEW a \in Attempts,
           NEW n, Both(db, handler, n), NEW k \in HandlerRows,
           HandlerOK(db, n, r, a, handler[r][a]) => HandlerOK(db, n, r, a, k),
           HolderOK(db, r, a, handler[r][a]) => HolderOK(db, r, a, k),
           db' = db, native' = n, handler' = WithHandler(handler, r, a, k)
    PROVE  ConversationInv'
<1>1. /\ HandlerOK(db, n, r, a, handler[r][a])
      /\ Stalling = {} => HolderOK(db, r, a, handler[r][a])
  BY HandlerIs
<1>2. Both(db, WithHandler(handler, r, a, k), n)
  BY <1>1, RowStep
<1> QED
  BY <1>2, InvIs DEF ConversationInv

\* adapter.steer.
LEMMA SteerStep ==
    ASSUME ConversationInv, NEW r \in Runs, NEW a \in Attempts, SteerNative(r, a)
    PROVE  ConversationInv'
<1> DEFINE h == handler[r][a]
           s == h.steer
           g == h.gen
           x == IF db.cmd[s].kind = "ask_user" THEN "closed" ELSE native.asked[r]
           n1 == Adopts(native, s, g)
           m == Asks(n1, r, x)
<1>1. /\ s # None /\ h.reply = "none" /\ h.pc \in {"turn", "draining", "parking"} /\ db' = db
  BY DEF SteerNative
<1>2. PICK reply \in {"adopted", "later", "no"}, adopts \in BOOLEAN :
         /\ reply = "adopted" => adopts \/ g \in native.adopted[s]
         /\ native' = IF ~adopts THEN native
                      ELSE [native EXCEPT !.adopted[s] = @ \cup {h.gen},
                              !.asked[r] = IF db.cmd[s].kind = "ask_user" THEN "closed" ELSE @]
         /\ handler' = [handler EXCEPT ![r][a].reply = reply]
  BY DEF SteerNative
<1> DEFINE k == [h EXCEPT !.reply = reply]
<1>3. handler' = WithHandler(handler, r, a, k)
  BY <1>2 DEF WithHandler
<1>4. native' = IF adopts THEN m ELSE native
  BY <1>2, InvIs DEF Asks, Adopts, NativeStates
<1>5. /\ h \in HandlerRows /\ HandlerOK(db, native, r, a, h) /\ ShapeOK(h) /\ handler[r][a] = h
      /\ Stalling = {} => HolderOK(db, r, a, h)
  BY ActorIs
<1>6. Both(db, handler, native) /\ native \in NativeStates
  BY InvIs
<1>7. s \in Runs /\ g \in 1..MaxGeneration /\ db.cmd[s].state # "none"
      /\ (Stalling = {} => db.cmd[s].gen = g)
  <2>1. h.gen # 0
    BY <1>1, <1>5 DEF ShapeOK, Steering
  <2>2. QED
    BY <1>1, <1>5, <2>1, StoreAssumption DEF HandlerRows, HandlerOK, HolderOK
<1>8. /\ k \in HandlerRows /\ k.pc = h.pc /\ k.worker = h.worker /\ k.gen = h.gen
      /\ k.steer = s /\ k.reply = reply /\ k.resume = h.resume /\ k.port = h.port
  BY <1>5 DEF HandlerRows
<1>9. x \in {"no", "open", "closed"}
  BY <1>6 DEF NativeStates
<1>10. s = h.steer
  OBVIOUS
<1> HIDE DEF h, s, g, x, k
<1>11. /\ n1 \in NativeStates /\ n1.prompts = native.prompts
       /\ n1.adopted[s] = native.adopted[s] \cup {g}
       /\ \A q \in Runs : q # s => n1.adopted[q] = native.adopted[q]
  BY <1>6, <1>7, AdoptsIs
<1> HIDE DEF n1
<1>12. m \in NativeStates /\ m.prompts = n1.prompts /\ m.adopted = n1.adopted
  BY <1>9, <1>11, AsksIs
<1> HIDE DEF m
<1>13. Both(db, handler, m)
  <2>1. \A q \in Runs : native.adopted[q] \subseteq m.adopted[q]
    BY <1>11, <1>12
  <2>2. \A q \in Runs : m.adopted[q] # native.adopted[q] => db.cmd[q].state # "none"
    BY <1>7, <1>11, <1>12
  <2>3. Stalling = {} => \A q \in Runs : m.adopted[q] \subseteq {db.cmd[q].gen}
    BY <1>6, <1>7, <1>11, <1>12 DEF Both, Punctual
  <2>4. QED
    BY <1>6, <1>11, <1>12, <2>1, <2>2, <2>3, NativeMoves
<1>14. Both(db, handler, native') /\ (reply = "adopted" => native'.adopted[s] # {})
  BY <1>2, <1>4, <1>6, <1>11, <1>12, <1>13
<1>15. HandlerOK(db, native', r, a, h) => HandlerOK(db, native', r, a, k)
  BY <1>1, <1>8, <1>10, <1>14 DEF HandlerOK, ShapeOK, Early, Segment, Steering, Dispatched, Opening
<1>16. HolderOK(db, r, a, h) => HolderOK(db, r, a, k)
  BY <1>8, <1>10 DEF HolderOK
<1> QED
  BY <1>1, <1>3, <1>5, <1>8, <1>14, <1>15, <1>16, ActsAfterCall

\* The reply is settled.
LEMMA SettleSteerStep ==
    ASSUME ConversationInv, NEW r \in Runs, NEW a \in Attempts, SettleSteer(r, a)
    PROVE  ConversationInv'
<1> DEFINE h == handler[r][a]
           k == [h EXCEPT !.steer = None, !.reply = "none"]
<1>1. h.reply # "none" /\ native' = native /\ handler' = WithHandler(handler, r, a, k)
  BY DEF SettleSteer, WithHandler
<1>2. /\ h \in HandlerRows /\ HandlerOK(db, native, r, a, h) /\ ShapeOK(h) /\ handler[r][a] = h
  BY ActorIs
<1>3. h.steer # None /\ h.pc \in Steering /\ h.steer \in Runs /\ db.cmd[h.steer].state # "none"
      /\ (h.reply = "adopted" => native.adopted[h.steer] # {})
  BY <1>1, <1>2 DEF ShapeOK, HandlerOK, HandlerRows
<1>4. \/ h.reply = "adopted" /\ db' = Consumed(db, h.steer, h.worker)
      \/ db' = Deferred(db, h.steer, h.worker)
      \/ db' = Rejected(db, h.steer, h.worker)
  <2>1. h.reply \in {"adopted", "later", "no"}
    BY <1>1, <1>2 DEF HandlerRows
  <2>2. QED
    BY <2>1 DEF SettleSteer
<1>5. Both(db, handler, native) /\ StoreOK(db)
  BY InvIs
<1>6. /\ k \in HandlerRows /\ k.pc = h.pc /\ k.worker = h.worker /\ k.gen = h.gen
      /\ k.steer = None /\ k.reply = "none" /\ k.resume = h.resume /\ k.port = h.port
  BY <1>2 DEF HandlerRows, None
<1> HIDE DEF h, k
<1>7. Settles(db, db', h.steer) /\ (native.adopted[h.steer] # {} \/ db'.fu = db.fu)
  <2>1. CASE h.reply = "adopted" /\ db' = Consumed(db, h.steer, h.worker)
    BY <1>3, <1>5, <2>1, ConsumeKeeps
  <2>2. CASE db' = Deferred(db, h.steer, h.worker)
    <3>1. CommandStep(db, db', h.steer)
      BY <1>3, <1>5, <2>2, DeferKeeps
    <3>2. QED
      BY <1>3, <3>1, CommandSettles DEF CommandStep
  <2>3. CASE db' = Rejected(db, h.steer, h.worker)
    <3>1. CommandStep(db, db', h.steer)
      BY <1>3, <1>5, <2>3, RejectKeeps
    <3>2. QED
      BY <1>3, <3>1, CommandSettles DEF CommandStep
  <2>4. QED
    BY <1>4, <2>1, <2>2, <2>3
<1>8. Both(db', handler, native) /\ (HeadsFirst(db) => HeadsFirst(db'))
  <2>1. HeadsFirst(db) => HeadsFirst(db')
    BY <1>7 DEF Settles
  <2>2. QED
    BY <1>3, <1>5, <1>7, <2>1, SettleBoth
<1>9. HandlerOK(db', native, r, a, h) => HandlerOK(db', native, r, a, k)
  BY <1>3, <1>6 DEF HandlerOK, ShapeOK, Early, Segment, Steering, Dispatched, Opening
<1>10. HolderOK(db', r, a, h) => HolderOK(db', r, a, k)
  BY <1>6 DEF HolderOK
<1> QED
  BY <1>1, <1>2, <1>6, <1>8, <1>9, <1>10, ActsAfter

\* The harness asks the user.
LEMMA AskStep ==
    ASSUME ConversationInv, NEW r \in Runs, NEW a \in Attempts, AskUser(r, a)
    PROVE  ConversationInv'
<1>1. native' = Asks(native, r, "open") /\ db' = db /\ handler' = handler
  BY DEF AskUser, Asks
<1>2. Both(db, handler, native) /\ native \in NativeStates
  BY InvIs
<1>3. native' \in NativeStates /\ native'.prompts = native.prompts /\ native'.adopted = native.adopted
  BY <1>1, <1>2, AsksIs
<1>4. Stalling = {} => \A q \in Runs : native'.adopted[q] \subseteq {db.cmd[q].gen}
  BY <1>2, <1>3 DEF Both, Punctual
<1>5. Both(db, handler, native')
  BY <1>2, <1>3, <1>4, NativeMoves
<1> QED
  BY <1>1, <1>5, InvIs DEF ConversationInv

\* parkNativeQuestion: the handler has nothing to do for the run when its job parks, and
\* the runtime keeps the turn that an answer must name.
LEMMA ParkStep ==
    ASSUME ConversationInv, NEW r \in Runs, NEW a \in Attempts, ParkNativeQuestion(r, a)
    PROVE  ConversationInv'
<1> DEFINE h == handler[r][a]
           k == At(h, "parking")
           H == WithHandler(handler, r, a, k)
           e == Parked(db, r, a)
<1>1. /\ h.pc = "turn" /\ h.port /\ native' = native /\ LockOwner(db, r, a) /\ OwnsRuntime(db, r, h.worker)
      /\ db.rt.turn = a /\ Goto(r, a, "parking")
  BY DEF ParkNativeQuestion
<1>2. db' = e
  BY DEF ParkNativeQuestion, Parked
<1>3. handler' = H
  BY <1>1, HandlerMoves
<1>4. /\ h \in HandlerRows /\ HandlerOK(db, native, r, a, h) /\ handler[r][a] = h
      /\ Stalling = {} => HolderOK(db, r, a, h)
  BY ActorIs
<1>5. /\ k \in HandlerRows /\ k.pc = "parking" /\ k.worker = h.worker /\ k.gen = h.gen
      /\ k.steer = h.steer /\ k.reply = h.reply /\ k.resume = h.resume /\ k.port = h.port
  BY <1>4, AtIs DEF PCs
<1>6. Both(db, handler, native) /\ StoreOK(db) /\ handler \in HandlerTables
  BY InvIs
<1> HIDE DEF h, k, e
<1>7. HandlerOK(db, native, r, a, k) /\ OpenedBy(db, r, a) /\ db.dispatch[r][a] = "started"
  BY <1>1, <1>4, <1>5 DEF HandlerOK, ShapeOK, Early, Segment, Steering, Dispatched, Opening
<1>8. Stalling = {} => HolderOK(db, r, a, k)
  BY <1>4, <1>5 DEF HolderOK, Active, Owning
<1>9. Both(db, H, native)
  BY <1>5, <1>6, <1>7, <1>8, RowStep
<1>10. /\ H[r][a] = k
       /\ \A q \in Runs, b \in Attempts : q # r \/ b # a => H[q][b] = handler[q][b]
  BY <1>5, <1>6, PutHandler
<1> HIDE DEF H
<1>11. db.job[r].status = "held" /\ db.rt.state = "running" /\ db.rt.run = r
  BY <1>1 DEF LockOwner, Holds, OwnsRuntime
<1>12. ParkMove(db, e, r, a)
  BY <1>6, <1>11, ParkKeeps DEF e
<1>13. /\ StoreOK(e) /\ (HeadsFirst(db) => HeadsFirst(e)) /\ KeepsInputs(db, e)
       /\ OnlyInput(db, e, r) /\ e.rt = db.rt /\ e.turns = db.turns
       /\ e.job[r].status = "parked" /\ e.fu = db.fu
       /\ e.wait[r] = "parked" /\ (\A q \in Runs \ {r} : e.wait[q] = db.wait[q])
       /\ e.dispatch[r][a] = "parked"
       /\ \A q \in Runs, b \in Attempts : q # r \/ b # a => e.dispatch[q][b] = db.dispatch[q][b]
  BY <1>12 DEF ParkMove
<1>14. General(db, H, native) /\ H[r][a].pc \notin Dispatched
  BY <1>5, <1>9, <1>10 DEF Both, Dispatched
<1>15. General(e, H, native)
  BY <1>7, <1>13, <1>14, DispatchGeneral
<1>16. ASSUME Stalling = {} PROVE Punctual(e, H, native)
  <2>1. Punctual(db, H, native) /\ Punctual(db, handler, native)
    BY <1>6, <1>9, <1>16 DEF Both
  <2>2. Quiet(H, r)
    <3>1. h.pc \in Active
      BY <1>1 DEF Active, PCs
    <3>2. \A b \in Attempts : b # a => handler[r][b].pc \notin Active
      BY <1>4, <2>1, <3>1, OneWorks
    <3>3. QED
      BY <1>5, <1>10, <3>2 DEF Quiet, Active
  <2>3. Others(db, e, r) /\ \A q \in Runs : KeepsRow(db, e, q)
    BY <1>13, OnlyIsOthers DEF KeepsInputs, KeepsInput
  <2>4. ParkedOK(e, r)
    <3>1. a # None
      BY StoreAssumption DEF Attempts, None
    <3>2. QED
      BY <1>1, <1>11, <1>13, <3>1 DEF ParkedOK
  <2>5. Live(e, r) /\ e.fu[r].mode # "steer_only"
    BY <1>11, <1>13, <2>1 DEF Punctual, OwnerOK, Live, Over
  <2>6. PunctualMove(db, e, r)
    BY <1>13, <2>3, <2>4, <2>5 DEF PunctualMove
  <2>7. QED
    BY <1>13, <1>14, <2>1, <2>2, <2>3, <2>6, QueuePunctual
<1> QED
  BY <1>1, <1>2, <1>3, <1>13, <1>15, <1>16, InvIs DEF ConversationInv, Both

\* A handler that goes on to the next place without a transaction.
LEMMA GoesOn ==
    ASSUME ConversationInv, NEW r \in Runs, NEW a \in Attempts, NEW pc,
           \/ handler[r][a].pc = "turn" /\ pc = "draining"
           \/ handler[r][a].pc = "draining" /\ handler[r][a].steer = None /\ pc = "finishing",
           Goto(r, a, pc), db' = db, native' = native
    PROVE  ConversationInv'
<1> DEFINE h == handler[r][a]
           k == At(h, pc)
<1>1. handler' = WithHandler(handler, r, a, k)
  BY HandlerMoves
<1>2. /\ h \in HandlerRows /\ HandlerOK(db, native, r, a, h) /\ ShapeOK(h)
      /\ Stalling = {} => HolderOK(db, r, a, h)
  BY ActorIs
<1>3. pc \in PCs
  BY DEF PCs
<1>4. \/ h.pc = "turn" /\ pc = "draining"
      \/ h.pc = "draining" /\ h.steer = None /\ pc = "finishing"
  OBVIOUS
<1>5. /\ k \in HandlerRows /\ k.pc = pc /\ k.worker = h.worker /\ k.gen = h.gen
      /\ k.steer = h.steer /\ k.reply = h.reply /\ k.resume = h.resume /\ k.port = h.port
  <2> HIDE DEF h
  <2>1. QED
    BY <1>2, <1>3, AtIs
<1> HIDE DEF h, k
<1>6. HandlerOK(db, native, r, a, k)
  BY <1>2, <1>4, <1>5 DEF HandlerOK, ShapeOK, Early, Segment, Steering, Dispatched, Opening
<1>7. Stalling = {} => HolderOK(db, r, a, k)
  BY <1>2, <1>4, <1>5 DEF HolderOK, Active, Owning, PCs
<1> QED
  BY <1>1, <1>5, <1>6, <1>7, ActsAlone

\* The native turn ends.
LEMMA TurnEndsStep ==
    ASSUME ConversationInv, NEW r \in Runs, NEW a \in Attempts, NativeTurnEnds(r, a)
    PROVE  ConversationInv'
<1>1. \/ handler[r][a].pc = "turn" /\ Goto(r, a, "draining")
      \/ handler[r][a].pc = "parking" /\ Returns(r, a)
  BY DEF NativeTurnEnds
<1>2. db' = db /\ native' = native
  BY DEF NativeTurnEnds
<1> QED
  BY <1>1, <1>2, GoesOn, ReturnAlone

\* The last look at steers ends.
LEMMA DrainStep ==
    ASSUME ConversationInv, NEW r \in Runs, NEW a \in Attempts, DrainEnds(r, a)
    PROVE  ConversationInv'
<1>1. handler[r][a].pc = "draining" /\ handler[r][a].steer = None /\ db' = db /\ native' = native
  BY DEF DrainEnds
<1>2. Goto(r, a, "finishing") \/ \E x \in BOOLEAN : Throw(r, a, x)
  BY DEF DrainEnds
<1>3. handler[r][a].pc \in Active /\ handler[r][a].reply = "none"
  <2>1. ShapeOK(handler[r][a])
    BY ActorIs
  <2>2. QED
    BY <1>1, <2>1 DEF ShapeOK, Active, PCs
<1> QED
  BY <1>1, <1>2, <1>3, GoesOn, ThrowAlone

-----------------------------------------------------------------------------
(* The end of a handler *)

\* completeNativeTask: the dispatch ends after its turn.
LEMMA CompleteTaskStep ==
    ASSUME ConversationInv, NEW r \in Runs, NEW a \in Attempts, CompleteNativeTask(r, a)
    PROVE  ConversationInv'
<1> DEFINE h == handler[r][a]
           k == At(h, "completing")
           H == WithHandler(handler, r, a, k)
           e == WithDispatch(db, r, a, "completed")
<1>1. h.pc = "finishing" /\ native' = native
  BY DEF CompleteNativeTask
<1>2. /\ h \in HandlerRows /\ HandlerOK(db, native, r, a, h) /\ h.reply = "none"
      /\ Stalling = {} => HolderOK(db, r, a, h)
  BY <1>1, ActorIs DEF Steering
<1>3. handler[r][a].pc \in Active
  BY <1>1 DEF Active, PCs
<1>4. OpenedBy(db, r, a) /\ (h.port => db.dispatch[r][a] = "started")
  BY <1>1, <1>2 DEF HandlerOK, Dispatched, Opening
<1>5. CASE Throw(r, a, FALSE) /\ db' = db
  BY <1>1, <1>3, <1>5, ThrowAlone
<1>6. CASE (db' = db \/ (h.port /\ db' = e)) /\ Goto(r, a, "completing")
  <2>1. handler' = H
    BY <1>6, HandlerMoves
  <2>2. /\ k \in HandlerRows /\ k.pc = "completing" /\ k.worker = h.worker /\ k.gen = h.gen
        /\ k.steer = h.steer /\ k.reply = h.reply /\ k.resume = h.resume /\ k.port = h.port
    BY <1>2, AtIs DEF PCs
  <2>3. Both(db, handler, native) /\ handler \in HandlerTables
    BY InvIs
  <2> HIDE DEF h, k
  <2>4. HandlerOK(db, native, r, a, k)
    BY <1>1, <1>2, <2>2 DEF HandlerOK, ShapeOK, Early, Segment, Steering, Dispatched, Opening
  <2>5. Stalling = {} => HolderOK(db, r, a, k)
    BY <1>1, <1>2, <2>2 DEF HolderOK, Active, Owning, PCs
  <2>6. Both(db, H, native)
    BY <2>2, <2>3, <2>4, <2>5, RowStep
  <2>7. H[r][a].pc \notin Dispatched
    BY <2>2, <2>3, PutHandler DEF Dispatched
  <2> HIDE DEF H
  <2>8. h.port => Both(e, H, native) /\ TaskStep(db, e)
    BY <1>4, <2>6, <2>7, DispatchStep
  <2>9. h.port => (HeadsFirst(db) => HeadsFirst(e))
    BY <2>8 DEF TaskStep
  <2> HIDE DEF e
  <2>10. QED
    BY <1>1, <1>6, <2>1, <2>6, <2>8, <2>9, InvIs DEF ConversationInv
<1>7. \/ Throw(r, a, FALSE) /\ db' = db
      \/ (db' = db \/ (h.port /\ db' = e)) /\ Goto(r, a, "completing")
  <2>1. CASE Throw(r, a, FALSE) /\ db' = db
    BY <2>1
  <2>2. CASE /\ db' = [db EXCEPT !.dispatch[r][a] =
                          IF h.port /\ @ = "started" THEN "completed" ELSE @]
             /\ Goto(r, a, "completing")
    <3>1. CASE h.port
      BY <1>4, <2>2, <3>1 DEF WithDispatch
    <3>2. CASE ~h.port
      <4>1. db \in Stores
        BY InvIs DEF StoreOK, RowsOK
      <4>2. [db EXCEPT !.dispatch[r][a] = db.dispatch[r][a]] = db
        BY <4>1 DEF Stores
      <4>3. QED
        BY <2>2, <3>2, <4>2
    <3>3. QED
      BY <3>1, <3>2
  <2>3. QED
    BY <2>1, <2>2 DEF CompleteNativeTask
<1> QED
  BY <1>5, <1>6, <1>7

\* completeJob, by the runner.
LEMMA CompleteJobStep ==
    ASSUME ConversationInv, NEW r \in Runs, NEW a \in Attempts, CompleteJob(r, a)
    PROVE  ConversationInv'
<1> DEFINE h == handler[r][a]
           k == [h EXCEPT !.pc = "failing", !.retry = FALSE]
<1>1. h.pc = "completing" /\ native' = native
  BY DEF CompleteJob
<1>2. /\ h \in HandlerRows /\ HandlerOK(db, native, r, a, h) /\ h.reply = "none"
      /\ Stalling = {} => HolderOK(db, r, a, h)
  BY <1>1, ActorIs DEF Steering
<1>3. handler[r][a].pc \in Active /\ handler[r][a].pc # "none"
  BY <1>1 DEF Active, PCs
<1>4. CASE \E end \in {"canceled", "succeeded"} :
             Holds(db, r, a) /\ db' = TransitionTerminal(db, r, end) /\ Returns(r, a)
  BY <1>1, <1>3, <1>4, EndAndReturn
<1>5. CASE Returns(r, a) /\ db' = db
  BY <1>1, <1>3, <1>5, ReturnAlone
<1>6. CASE handler' = WithHandler(handler, r, a, k) /\ db' = db
  <2>1. /\ k \in HandlerRows /\ k.pc = "failing" /\ k.worker = h.worker /\ k.gen = h.gen
        /\ k.steer = h.steer /\ k.reply = h.reply
    BY <1>2 DEF HandlerRows, PCs
  <2> HIDE DEF h, k
  <2>2. HandlerOK(db, native, r, a, k)
    BY <1>1, <1>2, <2>1 DEF HandlerOK, ShapeOK, Early, Segment, Steering, Dispatched, Opening
  <2>3. Stalling = {} => HolderOK(db, r, a, k)
    BY <1>1, <1>2, <2>1 DEF HolderOK, Active, Owning, PCs
  <2>4. QED
    BY <1>1, <1>6, <2>1, <2>2, <2>3, ActsAlone
<1>7. \/ \E end \in {"canceled", "succeeded"} :
             Holds(db, r, a) /\ db' = TransitionTerminal(db, r, end) /\ Returns(r, a)
      \/ Returns(r, a) /\ db' = db
      \/ handler' = WithHandler(handler, r, a, k) /\ db' = db
  BY DEF CompleteJob, WithHandler
<1> QED
  BY <1>4, <1>5, <1>6, <1>7

\* An abort.
LEMMA AbortStep ==
    ASSUME ConversationInv, NEW r \in Runs, NEW a \in Attempts, Abort(r, a)
    PROVE  ConversationInv'
<1>1. /\ handler[r][a].pc \in {"preparing", "dispatching", "binding", "checking", "prompting",
                               "consuming", "continuing", "recording", "announcing", "turn",
                               "draining", "finishing"}
      /\ Throw(r, a, FALSE) /\ db' = db /\ native' = native
  BY DEF Abort
<1>2. handler[r][a].pc \in Active
  BY <1>1 DEF Active, PCs
<1> QED
  BY <1>1, <1>2, ThrowAlone

\* The finally block of the handler.
LEMMA ReleaseStep ==
    ASSUME ConversationInv, NEW r \in Runs, NEW a \in Attempts, Release(r, a)
    PROVE  ConversationInv'
<1> DEFINE h == handler[r][a]
           k == At(h, "failing")
           e == ReleaseRuntime(db)
<1>1. h.pc = "releasing" /\ native' = native /\ Goto(r, a, "failing")
  BY DEF Release
<1>2. (OwnsRuntime(db, r, h.worker) /\ db' = e) \/ db' = db
  BY DEF Release
<1>3. /\ h \in HandlerRows /\ HandlerOK(db, native, r, a, h) /\ handler[r][a] = h
      /\ Stalling = {} => HolderOK(db, r, a, h)
  BY ActorIs
<1>4. handler[r][a].pc \in Active
  BY <1>1 DEF Active, PCs
<1>5. handler' = WithHandler(handler, r, a, k)
  BY <1>1, HandlerMoves
<1>6. /\ k \in HandlerRows /\ k.pc = "failing" /\ k.worker = h.worker /\ k.gen = h.gen
      /\ k.steer = h.steer /\ k.reply = h.reply /\ k.resume = h.resume /\ k.port = h.port
  BY <1>3, AtIs DEF PCs
<1>7. StoreOK(db) /\ RowsOK(db) /\ db.rt \in RuntimeRows
  BY InvIs, RuntimeIs DEF StoreOK
<1> HIDE DEF h, k, e
<1>8. \A d : HandlerOK(d, native, r, a, h) => HandlerOK(d, native, r, a, k)
  BY <1>1, <1>6 DEF HandlerOK, ShapeOK, Early, Segment, Steering, Dispatched, Opening
<1>9. CASE db' = db
  <2>1. Stalling = {} => HolderOK(db, r, a, k)
    BY <1>1, <1>3, <1>6 DEF HolderOK, Active, Owning, PCs
  <2>2. QED
    BY <1>1, <1>3, <1>5, <1>6, <1>8, <1>9, <2>1, ActsAlone
<1>10. CASE OwnsRuntime(db, r, h.worker) /\ db' = e
  <2>1. /\ StoreOK(e) /\ Sweep(db, e) /\ e.rt = Freed(db.rt) /\ (HeadsFirst(db) => HeadsFirst(e))
    BY <1>7, ReleaseKeeps DEF e
  <2>2. KeepsInputs(db, e) /\ SameTasks(db, e) /\ Others(db, e, r)
    BY <2>1 DEF Sweep, KeepsInputs, Others
  <2>3. Moves(db, e, native)
    BY <2>1, <2>2, KeepsMoves DEF SameTasks
  <2>4. e.rt.state = "idle" /\ db.rt.run = r
    BY <1>7, <1>10, <2>1, FreedIs DEF OwnsRuntime
  <2>5. ASSUME Stalling = {} PROVE PunctualMove(db, e, r) /\ HolderOK(e, r, a, k)
    <3>1. Holds(db, r, a) /\ db.job[r].worker = h.worker
      BY <1>1, <1>3, <2>5 DEF HolderOK, Active, PCs
    <3>2. e.job[r] = db.job[r]
      BY <2>1, <3>1 DEF Sweep, Holds
    <3>3. ParkedOK(e, r)
      BY <3>1, <3>2 DEF ParkedOK, Holds
    <3>4. PunctualMove(db, e, r)
      BY <2>2, <2>4, <3>3 DEF PunctualMove, SameTasks
    <3>5. h.steer = None
      BY <1>1, <1>3 DEF HandlerOK, ShapeOK, Segment, Steering
    <3>6. HolderOK(e, r, a, k)
      BY <1>6, <3>1, <3>2, <3>5 DEF HolderOK, Holds, Owning
    <3>7. QED
      BY <3>4, <3>6
  <2>6. QED
    BY <1>1, <1>3, <1>4, <1>5, <1>6, <1>8, <1>10, <2>1, <2>3, <2>5, ActsOnRun
<1> QED
  BY <1>2, <1>9, <1>10

\* failJob, or the end of an aborted handler.
LEMMA FailStep ==
    ASSUME ConversationInv, NEW r \in Runs, NEW a \in Attempts, FailJob(r, a)
    PROVE  ConversationInv'
<1> DEFINE h == handler[r][a]
           e == [db EXCEPT !.job[r] = [@ EXCEPT !.status = "retry_wait", !.due = FALSE,
                                                !.worker = None, !.lease = FALSE]]
           j == [db.job[r] EXCEPT !.status = "retry_wait", !.due = FALSE, !.worker = None, !.lease = FALSE]
<1>1. h.pc = "failing" /\ Returns(r, a) /\ native' = native
  BY DEF FailJob
<1>2. \/ db' = db
      \/ Holds(db, r, a) /\ db' = TransitionTerminal(db, r, "canceled")
      \/ Holds(db, r, a) /\ db' = e
      \/ Holds(db, r, a) /\ db' = TransitionTerminal(db, r, "failed")
  BY DEF FailJob
<1>3. handler[r][a].pc \in Active /\ handler[r][a].pc # "none" /\ handler[r][a] \in HandlerRows
  BY <1>1, ActorIs DEF Active, PCs
<1>4. CASE db' = db
  BY <1>1, <1>3, <1>4, ReturnAlone
<1>5. CASE \/ Holds(db, r, a) /\ db' = TransitionTerminal(db, r, "canceled")
           \/ Holds(db, r, a) /\ db' = TransitionTerminal(db, r, "failed")
  BY <1>1, <1>3, <1>5, EndAndReturn
<1>6. CASE Holds(db, r, a) /\ db' = e
  <2>1. StoreOK(db) /\ db.job[r].status = "held" /\ db.job[r] \in JobRows
    BY <1>6, InvIs, InputIs DEF Holds
  <2>2. JobStep(db, e, r, j) /\ (HeadsFirst(db) => HeadsFirst(e))
    BY <2>1, RetryKeeps
  <2>3. j.status = "retry_wait"
    BY <2>1 DEF JobRows
  <2> HIDE DEF e, j, h
  <2>4. /\ Moves(db, e, native) /\ Others(db, e, r) /\ e.rt = db.rt /\ e.fu = db.fu /\ e.wait = db.wait
        /\ e.job[r] = j
    BY <2>2, JobMoves
  <2>5. ASSUME Stalling = {} PROVE PunctualMove(db, e, r)
    <3>1. Punctual(db, handler, native)
      BY <2>5, InvIs
    <3>2. e.rt.state = "running" /\ e.rt.run = r => Live(e, r) /\ e.fu[r].mode # "steer_only"
      BY <2>3, <2>4, <3>1 DEF Punctual, OwnerOK, Live, Over
    <3>3. e.job[r].status # "parked"
      BY <2>3, <2>4
    <3>4. QED
      BY <2>4, <3>1, <3>2, <3>3, SameRuntime
  <2>6. /\ Gone \in HandlerRows /\ HolderOK(e, r, a, Gone)
        /\ HandlerOK(e, native, r, a, handler[r][a]) => HandlerOK(e, native, r, a, Gone)
    <3>1. Gone \in HandlerRows /\ HolderOK(e, r, a, Gone)
      BY GoneIs DEF HolderOK, Active, Owning
    <3>2. QED
      BY <1>3, <3>1, GoneFits
  <2>7. handler' = WithHandler(handler, r, a, Gone)
    BY <1>1, HandlerMoves
  <2>8. QED
    BY <1>1, <1>3, <1>6, <2>2, <2>4, <2>5, <2>6, <2>7, ActsOnRun
<1> QED
  BY <1>2, <1>4, <1>5, <1>6

-----------------------------------------------------------------------------
(* Every step *)

\* The steps of a handler.
LEMMA HandlerHolds ==
    ASSUME ConversationInv, NEW r \in Runs, NEW a \in Attempts, HandlerStep(r, a)
    PROVE  ConversationInv'
<1>1. CASE StartClaimedJob(r, a) \/ Acquire(r, a) \/ Prepare(r, a) \/ BeginNativeTask(r, a)
           \/ BindThread(r, a) \/ ReadOrigin(r, a) \/ PromptNative(r, a)
           \/ ConsumeAnswer(r, a) \/ ContinueNativeQuestion(r, a)
           \/ RecordTurn(r, a) \/ AnnounceTurn(r, a)
  BY <1>1, StartStep, AcquireStep, PrepareStep, BeginStep, BindStep, ReadOriginStep, PromptStep,
     ConsumeAnswerStep, ContinueStep, RecordStep, AnnounceStep
<1>2. CASE ClaimSteer(r, a) \/ SteerNative(r, a) \/ SettleSteer(r, a)
           \/ NativeTurnEnds(r, a) \/ DrainEnds(r, a)
  BY <1>2, ClaimSteerStep, SteerStep, SettleSteerStep, TurnEndsStep, DrainStep
<1>3. CASE CompleteNativeTask(r, a) \/ CompleteJob(r, a)
           \/ Abort(r, a) \/ Release(r, a) \/ FailJob(r, a)
  BY <1>3, CompleteTaskStep, CompleteJobStep, AbortStep, ReleaseStep, FailStep
<1> QED
  BY <1>1, <1>2, <1>3, Zenon DEF HandlerStep

\* The next-state relation keeps the invariant.
LEMMA NextHolds ==
    ASSUME ConversationInv, [Next]_vars
    PROVE  ConversationInv'
<1>1. ASSUME NEW r \in Runs, UserStep(r) \/ QueueStep(r) \/ LeaseExpires(r) \/ DayPasses(r)
      PROVE  ConversationInv'
  BY <1>1, SubmitStep, UpdateStep, CancelStep, MaintainStep, WakeStep, ExpireStep, DayStep
     DEF UserStep, QueueStep
<1>2. ASSUME NEW r \in Runs, NEW w \in Workers, ClaimNextJob(w, r) PROVE ConversationInv'
  BY <1>2, ClaimStep
<1>3. ASSUME NEW r \in Runs, NEW a \in Attempts, HandlerStep(r, a) \/ QuestionStep(r, a)
      PROVE  ConversationInv'
  BY <1>3, HandlerHolds, AskStep, ParkStep DEF QuestionStep
<1>4. ASSUME NEW w \in Workers, Crash(w) PROVE ConversationInv'
  BY <1>4, CrashStep
<1>5. CASE UNCHANGED vars
  BY <1>5 DEF vars, ConversationInv
<1> QED
  BY <1>1, <1>2, <1>3, <1>4, <1>5 DEF Next

\* The rows of the session, the harness's knowledge and the handlers always agree.
THEOREM InvariantHolds == Spec => []ConversationInv
<1>1. Init => ConversationInv
  BY InitHolds
<1>2. ConversationInv /\ [Next]_vars => ConversationInv'
  BY NextHolds
<1> QED
  BY <1>1, <1>2, PTL DEF Spec

-----------------------------------------------------------------------------
(* What holds however long a handler outlives its lease *)

\* Every variable keeps its type: no transaction writes a state, an attempt or a
\* generation its column does not have.
THEOREM TypesHold == Spec => []TypeOK
<1>1. ConversationInv => TypeOK
  <2> SUFFICES ASSUME ConversationInv PROVE TypeOK
    OBVIOUS
  <2>1. db \in Stores
    BY InvIs DEF StoreOK, RowsOK
  <2>2. QED
    BY <2>1, InvIs, TypesAre
<1> QED
  BY <1>1, InvariantHolds, PTL

\* consumeConversationSteer: an input the user is told was taken up by a turn was adopted
\* by the harness, through lost replies, takeovers of a claimed command and crashes.
THEOREM ConsumedInputsWereAdopted == Spec => []ConsumedWasAdopted
<1>1. ConversationInv => ConsumedWasAdopted
  BY InvIs DEF General, HarnessOK, ToldOK, ConsumedWasAdopted
<1> QED
  BY <1>1, InvariantHolds, PTL

\* releaseConversationRuntimeTransaction: whoever releases the runtime, and however its
\* run ended, no strict steer is left to wait for a turn that is over.
THEOREM SteersDoNotOutliveTheirTurn == Spec => []SteersEndWithTurn
<1>1. ConversationInv => SteersEndWithTurn
  BY InvIs DEF StoreOK, SteersOver, SteersEndWithTurn
<1> QED
  BY <1>1, InvariantHolds, PTL

\* The guards against a second prompt (insertNativeTaskDispatch, readOrigin): whatever
\* crashes between the dispatch, the prompt and turn.started, whichever attempts overlap
\* and however often the question mode is switched between them, a run with the checked
\* delivery policy is prompted by two attempts only if the first announced no turn and
\* one of them recorded no dispatch.
THEOREM CheckedRunsKnowReplays ==
    ASSUME CheckedDelivery
    PROVE  Spec => []NoKnownReplay
<1>1. ConversationInv => NoKnownReplay
  BY InvIs DEF General, HarnessOK, ToldOK, Untold, OpenedBy, NoKnownReplay
<1> QED
  BY <1>1, InvariantHolds, PTL

\* What one step tells the harness: only PromptNative prompts, under the lease.
LEMMA PromptsByLease ==
    ASSUME ConversationInv, [Next]_vars, NEW r \in Runs, native'.prompts[r] # native.prompts[r]
    PROVE  \E a \in Attempts : LockOwner(db, r, a)
<1>1. native \in NativeStates
  BY InvIs
<1>2. native' # native
  OBVIOUS
<1>3. ASSUME NEW q \in Runs, UserStep(q) \/ QueueStep(q) \/ LeaseExpires(q) \/ DayPasses(q)
      PROVE  FALSE
  BY <1>2, <1>3 DEF UserStep, Submit, UpdateQueuedMessage, CancelRun, QueueStep, MaintainQueue,
     WakeNativeQuestionWaits, LeaseExpires, DayPasses
<1>4. ASSUME NEW q \in Runs, NEW w \in Workers, ClaimNextJob(w, q) \/ Crash(w) PROVE FALSE
  BY <1>2, <1>4 DEF ClaimNextJob, Crash
<1>5. ASSUME NEW w \in Workers, Crash(w) PROVE FALSE
  BY <1>2, <1>5 DEF Crash
<1>6. ASSUME NEW q \in Runs, NEW a \in Attempts, QuestionStep(q, a) \/ SteerNative(q, a)
      PROVE  FALSE
  <2>1. CASE ParkNativeQuestion(q, a)
    BY <1>2, <2>1 DEF ParkNativeQuestion
  <2>2. CASE AskUser(q, a)
    BY <1>1, <2>2 DEF AskUser, NativeStates
  <2>3. CASE SteerNative(q, a)
    BY <1>1, <2>3 DEF SteerNative, NativeStates
  <2>4. QED
    BY <1>6, <2>1, <2>2, <2>3 DEF QuestionStep
<1>7. ASSUME NEW q \in Runs, NEW a \in Attempts, PromptNative(q, a)
      PROVE  \E b \in Attempts : LockOwner(db, r, b)
  <2>1. LockOwner(db, q, a) /\ native' = IF handler[q][a].resume
                         THEN [native EXCEPT !.adopted[handler[q][a].steer] = @ \cup {handler[q][a].gen},
                                             !.asked[q] = "closed"]
                         ELSE [native EXCEPT !.prompts[q] = @ \cup {a}]
    BY <1>2, <1>7 DEF PromptNative
  <2>2. q = r
    BY <1>1, <2>1 DEF NativeStates
  <2>3. QED
    BY <2>1, <2>2
<1>8. ASSUME NEW q \in Runs, NEW a \in Attempts, HandlerStep(q, a),
             ~PromptNative(q, a), ~SteerNative(q, a)
      PROVE  FALSE
  BY <1>2, <1>8 DEF HandlerStep, StartClaimedJob, Acquire, Prepare, BeginNativeTask, BindThread,
     ReadOrigin, ConsumeAnswer, ContinueNativeQuestion, RecordTurn, AnnounceTurn, ClaimSteer, SettleSteer, NativeTurnEnds, DrainEnds,
     CompleteNativeTask, CompleteJob, Abort, Release, FailJob
<1>9. CASE UNCHANGED vars
  BY <1>2, <1>9 DEF vars
<1>10. CASE Next
  BY <1>3, <1>4, <1>5, <1>6, <1>7, <1>8, <1>10 DEF Next
<1> QED
  BY <1>9, <1>10

\* releaseNextConversationFollowup and the claim's clause for an orphaned head: an input
\* that waits in the queue is not overtaken by a later one, as long as none waits the 24
\* hours after which its available_at passes.
THEOREM QueueKeepsOrder ==
    ASSUME ~LongWaits
    PROVE  Spec => QueueOrder
<1> DEFINE Keeps == \A q, r \in Runs :
         native'.prompts[r] # native.prompts[r] /\ q < r =>
            ~(/\ db.fu[q].mode = "follow_up" /\ db.fu[q].state = "queued"
              /\ Live(db, q) /\ ~db.job[q].cancel)
<1>1. ConversationInv /\ [Next]_vars => Keeps
  <2> SUFFICES ASSUME ConversationInv, [Next]_vars, NEW q \in Runs, NEW r \in Runs,
                      native'.prompts[r] # native.prompts[r], q < r
               PROVE  ~WaitsInQueue(db, q)
    BY DEF WaitsInQueue
  <2>1. PICK a \in Attempts : LockOwner(db, r, a)
    BY PromptsByLease
  <2>2. MayRun(db, r)
    <3>1. db.job[r].status = "held"
      BY <2>1 DEF LockOwner, Holds
    <3>2. InputOK(db.job[r], db.fu[r], db.cmd[r])
      BY InvIs, InputIs
    <3>3. QED
      BY <3>1, <3>2 DEF MayRun, InputOK
  <2>3. HeadsFirst(db)
    BY InvIs
  <2>4. QED
    BY <2>2, <2>3 DEF HeadsFirst
<1>2. QueueOrder <=> [][Keeps]_vars
  BY DEF QueueOrder
<1> QED
  BY <1>1, InvariantHolds, PTL DEF Spec, QueueOrder

-----------------------------------------------------------------------------
(* What holds while no handler outlives its lease *)

\* lockedOwnedRuntime, transitionTerminal and acquireConversationRuntime: nobody takes or
\* frees the runtime under a handler that executes a turn.
THEOREM TurnsOwnTheRuntime ==
    ASSUME Stalling = {}
    PROVE  Spec => []TurnOwnsRuntime
<1>1. ConversationInv => TurnOwnsRuntime
  BY InvIs DEF Punctual, HolderOK, TurnOwnsRuntime, ExecutesTurn, Owning
<1> QED
  BY <1>1, InvariantHolds, PTL

\* The point of the runtime row: two inputs of a conversation never execute a turn at
\* the same time, on one worker or on two.
THEOREM OneTurnAtATime ==
    ASSUME Stalling = {}
    PROVE  Spec => []OneTurn
<1>1. ConversationInv => OneTurn
  BY InvIs DEF Punctual, HolderOK, OneTurn, ExecutesTurn, Owning, OwnsRuntime
<1> QED
  BY <1>1, InvariantHolds, PTL

\* transitionTerminal: a run that has ended has given the runtime back, whether its
\* handler, the maintenance or the user ended it.
THEOREM RuntimeOwnersLive ==
    ASSUME Stalling = {}
    PROVE  Spec => []RuntimeOwnerLives
<1>1. ConversationInv => RuntimeOwnerLives
  BY InvIs DEF Punctual, OwnerOK, RuntimeOwnerLives
<1> QED
  BY <1>1, InvariantHolds, PTL

\* parkNativeQuestion: as long as a run is parked nothing releases its runtime or
\* replaces the turn that an answer names.
THEOREM ParkedRunsCanBeAnswered ==
    ASSUME Stalling = {}
    PROVE  Spec => []ParkedCanBeAnswered
<1>1. ConversationInv => ParkedCanBeAnswered
  BY InvIs DEF Punctual, ParkedOK, ParkedCanBeAnswered
<1> QED
  BY <1>1, InvariantHolds, PTL

\* claimConversationSteer and consumeConversationSteer: an input that a running turn adopted
\* is not run as a turn of its own, and no second thread adopts it.
THEOREM AdoptedInputsAreNotRun ==
    ASSUME Stalling = {}
    PROVE  Spec => []AdoptedIsNotRun
<1>1. ASSUME ConversationInv, NEW r \in Runs, native.adopted[r] # {}
      PROVE  native.prompts[r] = {} /\ Cardinality(native.adopted[r]) = 1
  <2>1. ToldOK(db, native, r) /\ InputOK(db.job[r], db.fu[r], db.cmd[r])
    BY <1>1, InvIs, InputIs DEF General, HarnessOK
  <2>2. native.prompts[r] = {}
    BY <1>1, <2>1 DEF ToldOK, InputOK
  <2>3. native.adopted[r] \subseteq {db.cmd[r].gen}
    BY <1>1, InvIs DEF Punctual
  <2>4. native.adopted[r] = {db.cmd[r].gen}
    BY <1>1, <2>3
  <2>5. Cardinality({db.cmd[r].gen}) = 1
    BY FS_Singleton
  <2>6. QED
    BY <2>2, <2>4, <2>5
<1>2. ConversationInv => AdoptedIsNotRun
  BY <1>1 DEF AdoptedIsNotRun
<1> QED
  BY <1>2, InvariantHolds, PTL
=============================================================================
