--------------------------- MODULE OperationLedger ---------------------------
(***************************************************************************)
(* The server's ledger of runtime operations for one root run: operation   *)
(* rows with their lease and budget reservation, the root row, and the     *)
(* receipts already stored.  Every action is one database transaction that *)
(* holds the root's row lock, so transactions of one root are serial.      *)
(*                                                                         *)
(* A lease is "none" until a token is issued, then "live", and "expired"   *)
(* from the moment its time has passed; a heartbeat keeps it live.  Only   *)
(* the order of expiry and the transactions matters, so there is no clock. *)
(* The admission callback (policy, grants, approvals, target online) may   *)
(* refuse at any time: a refused transaction changes nothing.              *)
(***************************************************************************)
EXTENDS RuntimeOperation, Naturals, FiniteSetsExt

CONSTANTS
    AgentOps,     \* operations of a child agent, the others are the root's
    Amount,       \* Amount[o]: what o reserves of the root's budget
    Metrics,      \* what the root's budget may be of: see isObserved
    Capacity,     \* the root's budget
    MaxUsage,     \* bound on the usage one settlement reports
    Plans         \* bound: the sets of operations one root asks for

ASSUME LedgerAssumption ==
    /\ IsFiniteSet(Ops)
    /\ AgentOps \subseteq Ops
    /\ Amount \in [Ops -> Nat]
    /\ Metrics \subseteq {"resource", "telemetry"}
    /\ Capacity \in Nat
    /\ MaxUsage \in Nat
    /\ Plans \subseteq SUBSET Ops

VARIABLES
    op,        \* op[o]: the operation's row
    root,      \* the root's row, and whether its run is still active
    receipts,  \* the receipts stored, with their disposition
    budget     \* the root's budget row

ledgerVars == <<op, root, receipts, budget>>

-----------------------------------------------------------------------------
(* State *)

Absent == [Planned EXCEPT !.status = "absent"]

Rows == [snap  : Snapshots \cup {Absent},
         lease : {"none", "live", "expired"},
         resv  : {"none", "held", "settled"}]

\* Receipt identities: 0 is the start request of an operation, 1 and 2 are the
\* facts its device reports.
StartId(o) == <<o, 0>>
FactId(o, k) == <<o, k>>

\* A receipt as the device sends it.  "proof" says that a stop carries the
\* result of a process that really stopped.
Receipt(id, o, sig, proof) == [id |-> id, op |-> o, sig |-> sig, proof |-> proof]

Stored(id, type, disposition) ==
    [id |-> id, type |-> type, disposition |-> disposition]

LedgerTypeOK ==
    /\ op \in [Ops -> Rows]
    /\ root \in [cancel : BOOLEAN, past : BOOLEAN, run : {"live", "over"}]
    /\ budget \in [metric : Metrics, reserved : Nat, spent : Nat]
    /\ \A r \in receipts : r.disposition \in {"applied", "conflict"}

LedgerInit ==
    /\ op = [o \in Ops |-> [snap |-> Absent, lease |-> "none", resv |-> "none"]]
    /\ root = [cancel |-> FALSE, past |-> FALSE, run |-> "live"]
    /\ receipts = {}
    /\ \E m \in Metrics : budget = [metric |-> m, reserved |-> 0, spent |-> 0]

StatusOf(o) == op[o].snap.status
Known(id) == \E r \in receipts : r.id = id

\* isObservedExecutionMetric: time and bytes bound a run; tokens, calls and cost
\* are counted against a capacity that stops nothing.
IsObserved(b) == b.metric = "telemetry"

Overdrawn(b) == ~IsObserved(b) /\ b.reserved + b.spent > Capacity

\* append: one event and the new snapshot.
AppendEvent(row, sig) == [row EXCEPT !.snap = Advance(row.snap, sig)]

\* ensureRootAdmits and assertRun.
RootAdmits == ~root.cancel /\ ~root.past /\ root.run = "live"

-----------------------------------------------------------------------------
(* Cancellation, inside a transaction that holds the root lock *)

\* Kinds whose cancellation before any lease proves that nothing was executed.
ProvesNone == {"process", "changeset", "mcp"}

CancelRow_LeaseIgnored(o, row) ==
    LET asked == IF row.snap.status \in Terminal \cup {"absent"} \/ row.snap.cancel
                 THEN row ELSE AppendEvent(row, Plain("cancel_requested"))
    IN  IF asked.snap.status = "cancel_requested" /\ Capability[o] \in ProvesNone
        THEN [AppendEvent(asked, Stopped("none")) EXCEPT
                !.resv = IF o \in AgentOps THEN "settled" ELSE @]
        ELSE asked

CancelRow(o, row) ==
    LET asked == IF row.snap.status \in Terminal \cup {"absent"} \/ row.snap.cancel
                 THEN row ELSE AppendEvent(row, Plain("cancel_requested"))
    IN  IF /\ asked.snap.status = "cancel_requested"
           /\ row.lease = "none"
           /\ Capability[o] \in ProvesNone
        THEN [AppendEvent(asked, Stopped("none")) EXCEPT
                !.resv = IF o \in AgentOps THEN "settled" ELSE @]
        ELSE asked

CancelOperationRows(rows, S) ==
    [o \in Ops |-> IF o \in S THEN CancelRow(o, rows[o]) ELSE rows[o]]

\* What the rows give back to the budget when they replace the current ones.
Released(rows) ==
    MapThenSumSet(LAMBDA o : Amount[o],
                  {o \in Ops : op[o].resv = "held" /\ rows[o].resv = "settled"})

SaveRows(rows) ==
    /\ op' = rows
    /\ budget' = [budget EXCEPT !.reserved = @ - Released(rows)]

-----------------------------------------------------------------------------
(* Creating, dispatching and starting an operation *)

\* The root may ask for o besides what it has asked for.
Planning(o) == \E plan \in Plans : {o} \cup {p \in Ops : StatusOf(p) # "absent"} \subseteq plan

CreateOperation_Unadmitted(o) ==
    /\ StatusOf(o) = "absent" /\ Planning(o)
    /\ op' = [op EXCEPT ![o] = [AppendEvent([@ EXCEPT !.snap = Planned], Plain("ready"))
                                   EXCEPT !.resv = "held"]]
    /\ budget' = [budget EXCEPT !.reserved = @ + Amount[o]]
    /\ UNCHANGED <<root, receipts>>

\* createOperation: the reservation and the row in one transaction.  Replaying
\* the idempotency key returns the row and changes nothing.
CreateOperation(o) ==
    /\ StatusOf(o) = "absent" /\ Planning(o)
    /\ RootAdmits
    /\ ~Overdrawn([budget EXCEPT !.reserved = @ + Amount[o]])
    /\ \E sig \in {Plain("ready"), Plain("waiting")} :
         op' = [op EXCEPT ![o] = [AppendEvent([@ EXCEPT !.snap = Planned], sig)
                                    EXCEPT !.resv = "held"]]
    /\ budget' = [budget EXCEPT !.reserved = @ + Amount[o]]
    /\ UNCHANGED <<root, receipts>>

\* dispatchLocked for an operation that never had a lease.  A waiting operation
\* becomes ready on the way, when its approval is consumed.
MayDispatch(o) ==
    /\ StatusOf(o) \in Waiting \cup {"ready"}
    /\ op[o].lease = "none"
    /\ op[o].resv = "held"
    /\ RootAdmits

Dispatch(o) ==
    /\ MayDispatch(o)
    /\ op' = [op EXCEPT ![o] =
                 [AppendEvent(IF @.snap.status = "ready" THEN @ ELSE AppendEvent(@, Plain("ready")),
                         Plain("dispatched")) EXCEPT !.lease = "live"]]
    /\ UNCHANGED <<root, receipts, budget>>

\* dispatchLocked for a dispatched operation: a claim whose answer was lost is
\* answered again, with the same lease and no new event.
MayRecover(o) ==
    /\ StatusOf(o) = "dispatched"
    /\ op[o].lease = "live"
    /\ RootAdmits

StartGranted_AnyStatus(o) ==
    /\ op[o].lease # "none"
    /\ ~Known(StartId(o))
    /\ RootAdmits
    /\ StatusOf(o) \in {"dispatched", "unknown"}

\* startOperation says yes once, to the holder of a live lease.
StartGranted(o) ==
    /\ ~Known(StartId(o))
    /\ RootAdmits
    /\ op[o].lease = "live"
    /\ StatusOf(o) = "dispatched"

StartOperation(o) ==
    /\ StartGranted(o)
    /\ op' = [op EXCEPT ![o] = AppendEvent(@, Plain("started"))]
    /\ receipts' = receipts \cup {Stored(StartId(o), "start", "applied")}
    /\ UNCHANGED <<root, budget>>

\* heartbeat answers only while this holds; what it changes is the expiry.
HeartbeatGranted(o) ==
    /\ op[o].lease = "live"
    /\ StatusOf(o) \in {"dispatched", "running"}
    /\ RootAdmits

-----------------------------------------------------------------------------
(* Facts from the device *)

\* A process that stopped without the server asking: the stop evidence is
\* checked, and the missing intent is recorded before the fact.
NeedsStopIntent(r) ==
    /\ r.sig.type = "stopped"
    /\ StatusOf(r.op) = "running"
    /\ Capability[r.op] \in Isolated

SnapshotFor(r) ==
    IF NeedsStopIntent(r) THEN Advance(op[r.op].snap, Plain("cancel_requested"))
                          ELSE op[r.op].snap

\* A replayed receipt is answered as it was stored.
Replayed(r) ==
    IF \E s \in receipts : s.id = r.id /\ s.disposition = "applied"
    THEN "duplicate" ELSE "conflict"

Disposition_LiveLeaseOnly(r) ==
    IF op[r.op].lease # "live" THEN "refused"
    ELSE IF Known(r.id) THEN Replayed(r)
    ELSE IF NeedsStopIntent(r) /\ ~r.proof THEN "refused"
    ELSE IF CanAdvance(SnapshotFor(r), r.sig) THEN "applied" ELSE "conflict"

Disposition_AnyToken(r) ==
    IF Known(r.id) THEN Replayed(r)
    ELSE IF CanAdvance(SnapshotFor(r), r.sig) THEN "applied" ELSE "conflict"

\* recordReceipt: an expired lease may still deliver facts.  A refused receipt
\* leaves no trace, a conflict is stored and changes nothing else.
Disposition(r) ==
    IF op[r.op].lease = "none" THEN "refused"
    ELSE IF Known(r.id) THEN Replayed(r)
    ELSE IF NeedsStopIntent(r) /\ ~r.proof THEN "refused"
    ELSE IF CanAdvance(SnapshotFor(r), r.sig) THEN "applied" ELSE "conflict"

RecordReceipt(r) ==
    /\ ~Known(r.id)
    /\ Disposition(r) \in {"applied", "conflict"}
    /\ op' = IF Disposition(r) = "applied"
             THEN [op EXCEPT ![r.op].snap = Advance(SnapshotFor(r), r.sig)]
             ELSE op
    /\ receipts' = receipts \cup {Stored(r.id, r.sig.type, Disposition(r))}
    /\ UNCHANGED <<root, budget>>

-----------------------------------------------------------------------------
(* Cuts, expiry and settlement *)

\* cancelRoot, and the queue's cut of a run it cancels or fails.
CancelRoot ==
    /\ ~root.cancel
    /\ root' = [root EXCEPT !.cancel = TRUE]
    /\ SaveRows(CancelOperationRows(op, Ops))
    /\ UNCHANGED receipts

\* cancelRuntimeAgentOperationsTransaction: the child's operations only.
CancelAgent ==
    /\ op # CancelOperationRows(op, AgentOps)
    /\ SaveRows(CancelOperationRows(op, AgentOps))
    /\ UNCHANGED <<root, receipts>>

InFlight == {"dispatched", "running", "cancel_requested"}

ExpireRow_Running(row) ==
    IF row.lease = "expired" /\ row.snap.status \in {"running", "cancel_requested"}
    THEN AppendEvent(row, Uncertain) ELSE row

ExpireRow(row) ==
    IF row.lease = "expired" /\ row.snap.status \in InFlight
    THEN AppendEvent(row, Uncertain) ELSE row

\* expireLeases: past the root's deadline everything is canceled first.
ExpireLeases ==
    LET cut  == IF root.past THEN CancelOperationRows(op, Ops) ELSE op
        rows == [o \in Ops |-> ExpireRow(cut[o])]
    IN  /\ rows # op \/ (root.past /\ ~root.cancel)
        /\ root' = [root EXCEPT !.cancel = @ \/ root.past]
        /\ SaveRows(rows)
        /\ UNCHANGED receipts

SettleRows_KeepsHeld(o, used) ==
    [budget |-> [budget EXCEPT !.spent = @ + used], rows |-> [op EXCEPT ![o].resv = "settled"]]

\* settleUsage moves a reservation to what was measured.
SettleRows(o, used) ==
    [budget |-> [budget EXCEPT !.reserved = @ - Amount[o], !.spent = @ + used],
     rows   |-> [op EXCEPT ![o].resv = "settled"]]

\* With a resource over its capacity, the root is canceled in the same transaction.
SettleUsage(o, used) ==
    LET s    == SettleRows(o, used)
        over == Overdrawn(s.budget)
        rows == IF over THEN CancelOperationRows(s.rows, Ops) ELSE s.rows
        back == MapThenSumSet(LAMBDA p : Amount[p],
                    {p \in Ops \ {o} : op[p].resv = "held" /\ rows[p].resv = "settled"})
    IN  /\ op[o].lease # "none"
        /\ op[o].resv = "held"
        /\ StatusOf(o) \in Terminal
        /\ op' = rows
        /\ budget' = [s.budget EXCEPT !.reserved = @ - back]
        /\ root' = [root EXCEPT !.cancel = @ \/ over]
        /\ UNCHANGED receipts

\* Time and the queue, as the ledger sees them.
LeaseRunsOut(o) ==
    /\ op[o].lease = "live"
    /\ op' = [op EXCEPT ![o].lease = "expired"]
    /\ UNCHANGED <<root, receipts, budget>>

DeadlinePasses ==
    /\ ~root.past /\ root' = [root EXCEPT !.past = TRUE]
    /\ UNCHANGED <<op, receipts, budget>>

RunEnds ==
    /\ root.run = "live" /\ root' = [root EXCEPT !.run = "over"]
    /\ UNCHANGED <<op, receipts, budget>>

\* The steps the server takes by itself.  Usage is settled by the cloud
\* executors only, so it is not among them.
LedgerStep ==
    \/ \E o \in Ops : CreateOperation(o) \/ LeaseRunsOut(o)
    \/ CancelRoot \/ CancelAgent \/ ExpireLeases
    \/ DeadlinePasses \/ RunEnds

-----------------------------------------------------------------------------
(* The ledger alone, against a device that may claim and report anything *)

AnyReceipt == {Receipt(FactId(o, k), o, sig, proof) :
                 o \in Ops, k \in {1}, sig \in DeviceSignals, proof \in BOOLEAN}

LedgerNext ==
    \/ LedgerStep
    \/ \E o \in Ops, used \in 0..MaxUsage : SettleUsage(o, used)
    \/ \E o \in Ops : Dispatch(o) \/ StartOperation(o)
    \/ \E r \in AnyReceipt : RecordReceipt(r)

LedgerSpec == LedgerInit /\ [][LedgerNext]_ledgerVars

-----------------------------------------------------------------------------
(* Properties *)

\* The reserved column is exactly the sum of the reservations still held,
\* through creations, settlements and the cancellations that give a child's
\* reservation back, for a resource and for telemetry alike; and a resource is
\* overdrawn only on a root whose admission the same transaction closed.
BudgetAccounts ==
    /\ budget.reserved =
         MapThenSumSet(LAMBDA o : Amount[o], {o \in Ops : op[o].resv = "held"})
    /\ Overdrawn(budget) => root.cancel

\* A result needs a device that held a lease; without one an operation can
\* only be canceled, and it is then never leased.
UnleasedHasNoResult ==
    \A o \in Ops :
        op[o].lease = "none" => StatusOf(o) \notin KnownOutcomes \cup {"unknown"}

\* Once the root is cut, whoever cut it, no operation is created, leased or
\* started any more, and every operation that has not ended knows of the cut.
CutIsFinal ==
    [][root.cancel =>
         /\ root'.cancel
         /\ \A o \in Ops :
              /\ (StatusOf(o) = "absent") = (StatusOf(o)' = "absent")
              /\ op'[o].lease # "none" => op[o].lease # "none"
              /\ StatusOf(o)' = "running" => StatusOf(o) = "running"
              /\ StatusOf(o) \in Terminal \cup {"absent"} \/ op[o].snap.cancel]_ledgerVars
=============================================================================
