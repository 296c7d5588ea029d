-------------------------- MODULE BridgeOperations --------------------------
(***************************************************************************)
(* The ledger on the server, the Bridge client on the user's computer, and *)
(* the HTTP requests between them.  The client handles one operation at a  *)
(* time: it flushes its outbox, claims, journals the dispatch, asks to     *)
(* start, executes, journals the result, flushes again.                    *)
(*                                                                         *)
(* A request may be lost, or answered into the void, or be served after    *)
(* the client has given up on it.  The computer may crash at any point and *)
(* restart from its journal; the user may pause the Bridge at any point.   *)
(* Leases run out, deadlines pass and users cancel at any point.           *)
(***************************************************************************)
EXTENDS OperationLedger, BridgeJournal

CONSTANTS
    None,         \* no operation, request, reply
    MaxLate,      \* requests served late, at a time
    MaxCrashes,   \* crashes of the device
    MaxPauses     \* pauses by the user

ASSUME FaultAssumption == {MaxLate, MaxCrashes, MaxPauses} \subseteq Nat

VARIABLES
    client,   \* where the client is, in memory
    wire,     \* the request the client is waiting on, or None
    reply,    \* the answer to it, or None
    late,     \* requests the client has given up on and the server has not seen
    done,     \* done[o][i]: how often the i-th effect of o really happened
    faults    \* crashes and pauses so far

linkVars  == <<wire, reply, late>>
vars      == <<op, root, receipts, budget, entry, files, outbox,
               client, wire, reply, late, done, faults>>

Idle == [pc |-> "idle", op |-> None, file |-> 0, paused |-> FALSE, back |-> "flush"]
Down == [Idle EXCEPT !.pc = "down"]

Waits == {"claiming", "starting", "acking"}
PCs   == Waits \cup {"down", "idle", "flush", "report", "close", "got", "journaled", "permitted",
                     "acted", "file", "prepared", "commit", "wrote", "record"}

Init ==
    /\ LedgerInit /\ JournalInit
    /\ client = Idle
    /\ wire = None /\ reply = None /\ late = {}
    /\ done = [o \in Ops |-> [i \in Files |-> 0]]
    /\ faults = [crashes |-> 0, pauses |-> 0]

At(pc)  == client.pc = pc
Goto(pc) == client' = [client EXCEPT !.pc = pc]
Op == client.op

-----------------------------------------------------------------------------
(* The link *)

Request(kind, o, r) == [kind |-> kind, op |-> o, receipt |-> r]
Answer(kind, o) == [kind |-> kind, op |-> o]

Send(req) == wire' = req /\ UNCHANGED <<reply, late>>

\* The client reads the answer and is no longer waiting.
Read(kind) ==
    /\ reply # None /\ reply.kind = kind
    /\ reply' = None
    /\ UNCHANGED <<wire, late>>

NothingToRecord(r) == Known(r.id) \/ Disposition(r) = "refused"

\* The operation routes of the device API.  "none" covers an empty queue and
\* every refusal of admission, "error" any error status.  A receipt is
\* acknowledged when it is applied or was before; one that is stored as a
\* conflict is answered with an error, every time.
Handle(req, ans) ==
    \/ /\ req.kind = "next"
       /\ \/ \E o \in Ops : ans = Answer("dispatch", o) /\ Dispatch(o)
          \/ \E o \in Ops : /\ MayRecover(o) /\ ans = Answer("dispatch", o)
                            /\ UNCHANGED ledgerVars
          \/ ans = Answer("none", None) /\ UNCHANGED ledgerVars
    \/ /\ req.kind = "start"
       /\ \/ ans = Answer("granted", req.op) /\ StartOperation(req.op)
          \/ ans = Answer("error", None) /\ UNCHANGED ledgerVars
    \/ /\ req.kind = "receipt"
       /\ ans = IF Disposition(req.receipt) \in {"applied", "duplicate"}
                THEN Answer("ack", None) ELSE Answer("error", None)
       /\ RecordReceipt(req.receipt) \/ (NothingToRecord(req.receipt) /\ UNCHANGED ledgerVars)

Answers == {Answer("none", None), Answer("error", None), Answer("ack", None)}
             \cup {Answer(k, o) : k \in {"dispatch", "granted"}, o \in Ops}

ServeCurrent ==
    /\ wire # None /\ reply = None
    /\ \E ans \in Answers : Handle(wire, ans) /\ reply' = ans
    /\ wire' = None
    /\ UNCHANGED <<late, journalVars, client, done, faults>>

\* Served, but the client will not hear of it.
ServeUnheard ==
    /\ \/ /\ wire # None /\ wire' = None /\ late' = late
          /\ \E ans \in Answers : Handle(wire, ans)
       \/ \E req \in late, ans \in Answers :
            Handle(req, ans) /\ late' = late \ {req} /\ wire' = wire
    /\ UNCHANGED <<reply, journalVars, client, done, faults>>

\* The client gives up on its request, which is lost or only late.
Abandon ==
    /\ wire' = None /\ reply' = None
    /\ \/ late' = late
       \/ wire # None /\ Cardinality(late) < MaxLate /\ late' = late \cup {wire}

-----------------------------------------------------------------------------
(* The client: flush and claim *)

\* pollOnce
PollOnce ==
    /\ At("idle") /\ ~client.paused
    /\ Goto("flush")
    /\ UNCHANGED <<ledgerVars, journalVars, linkVars, done, faults>>

\* A process that ran and whose result is found later; nothing is run again.
ReconcileUnknown ==
    /\ At("flush")
    /\ \E o \in Ops :
         /\ done[o][1] > 0
         /\ \E sig \in {Outcome("succeeded", "none"), Outcome("failed", "none"), Stopped("none")} :
              Reconcile(o, sig)
    /\ UNCHANGED <<ledgerVars, client, linkVars, done, faults>>

\* flush: one receipt at a time, in order; it is kept until acknowledged.
SendReceipt ==
    /\ client.pc \in {"flush", "report", "close"} /\ outbox # <<>>
    /\ client' = [client EXCEPT !.pc = "acking", !.back = client.pc]
    /\ Send(Request("receipt", Head(outbox).op, Head(outbox)))
    /\ UNCHANGED <<ledgerVars, journalVars, done, faults>>

ReceiptAcknowledged ==
    /\ At("acking") /\ Read("ack")
    /\ Acknowledge
    /\ client' = [client EXCEPT !.pc = client.back, !.back = "flush"]
    /\ UNCHANGED <<ledgerVars, done, faults>>

\* An error ends the poll or the last flush before the exit; the receipt stays
\* at the head of the outbox.
PollFails == IF client.back = "close" THEN Down
             ELSE [client EXCEPT !.pc = "idle", !.back = "flush"]

ReceiptRefused ==
    /\ At("acking") /\ Read("error")
    /\ client' = PollFails
    /\ UNCHANGED <<ledgerVars, journalVars, done, faults>>

\* An empty outbox: the end of a poll that had worked or is paused, the exit of
\* a paused Bridge, or the claim of new work.
FlushEnds ==
    /\ outbox = <<>>
    /\ \/ /\ At("report") \/ (At("flush") /\ client.paused)
          /\ client' = [Idle EXCEPT !.paused = client.paused]
       \/ At("close") /\ client' = Down
    /\ UNCHANGED <<ledgerVars, journalVars, linkVars, done, faults>>

Claim ==
    /\ At("flush") /\ ~client.paused /\ outbox = <<>>
    /\ Goto("claiming")
    /\ Send(Request("next", None, None))
    /\ UNCHANGED <<ledgerVars, journalVars, done, faults>>

ClaimAnswered ==
    /\ At("claiming")
    /\ \/ Read("none") /\ Goto("idle")
       \/ Read("dispatch") /\ client' = [client EXCEPT !.pc = "got", !.op = reply.op]
    /\ UNCHANGED <<ledgerVars, journalVars, done, faults>>

RequestTimesOut ==
    /\ client.pc \in {"claiming", "acking"} /\ reply = None
    /\ Abandon
    /\ client' = PollFails
    /\ UNCHANGED <<ledgerVars, journalVars, done, faults>>

-----------------------------------------------------------------------------
(* The client: handle *)

\* receive: a new entry; a duplicate, and nothing is executed; or an error, since
\* the journal, shared by all runs, has no room left.
ReceiveDispatch ==
    /\ At("got")
    /\ \/ Receive(Op) /\ Goto("journaled")
       \/ ~Receivable(Op) /\ Goto("report") /\ UNCHANGED journalVars
       \/ Receivable(Op) /\ Goto("idle") /\ UNCHANGED journalVars
    /\ UNCHANGED <<ledgerVars, linkVars, done, faults>>

\* A conclusion is journalled, and the flush after handle() follows.
ConcludeWith(sig, proof) ==
    /\ Conclude(Op, sig, proof)
    /\ Goto("report")

\* Paused: the client has not executed, and says so.  The PDF reader reports a
\* failure, everything else a stop without the result of a process.
PausedSignal ==
    IF Capability[Op] = "pdf" THEN Outcome("failed", "none") ELSE Stopped("none")

\* Before begin(): paused, no matching grant or runner, or a lease that is over
\* by the clock of the device.
DeclineDispatch ==
    /\ At("journaled")
    /\ IF client.paused
       THEN ConcludeWith(PausedSignal, FALSE)
       ELSE \E sig \in {Outcome("failed", "none"), Uncertain} : ConcludeWith(sig, FALSE)
    /\ UNCHANGED <<ledgerVars, files, linkVars, done, faults>>

BeginOperation ==
    /\ At("journaled") /\ ~client.paused
    /\ Begin(Op)
    /\ Goto("starting")
    /\ Send(Request("start", Op, None))
    /\ UNCHANGED <<ledgerVars, done, faults>>

\* Refused, or no answer: the start may have been recorded, so it is in doubt.
StartDenied ==
    /\ At("starting")
    /\ \/ Read("error")
       \/ reply = None /\ Abandon
    /\ ConcludeWith(Uncertain, FALSE)
    /\ UNCHANGED <<ledgerVars, files, done, faults>>

\* Permission, unless the Bridge was paused meanwhile or the lease is over by
\* the clock of the device.
StartAnswered ==
    /\ At("starting") /\ Read("granted")
    /\ \/ ~client.paused /\ Goto("permitted") /\ UNCHANGED journalVars
       \/ ConcludeWith(Uncertain, FALSE) /\ UNCHANGED files
       \/ /\ client.paused
          /\ ConcludeWith(PausedSignal, FALSE)
          /\ UNCHANGED files
    /\ UNCHANGED <<ledgerVars, done, faults>>

-----------------------------------------------------------------------------
(* The client: execution *)

\* What can be journalled when nothing was executed, by kind; and when it was.
UntouchedSignals(cap) ==
    {Uncertain, Outcome("failed", "none")}
      \cup {Stopped("none") : c \in {"write", "process"} \cap {cap}}

ExecutedSignals_AssumesNone(cap) ==
    IF cap \in Isolated
    THEN {Uncertain, Outcome("succeeded", "none"), Outcome("failed", "none"), Stopped("none")}
    ELSE {Outcome("failed", "none"), Outcome("succeeded", "applied")}

ExecutedSignals(cap) ==
    IF cap \in Isolated
    THEN {Uncertain, Outcome("succeeded", "none"), Outcome("failed", "none"), Stopped("none")}
    ELSE {Uncertain, Outcome("succeeded", "applied")}

NotExecuted ==
    /\ At("permitted") /\ Capability[Op] # "changeset"
    /\ \E sig \in UntouchedSignals(Capability[Op]) : ConcludeWith(sig, Capability[Op] \in Isolated)
    /\ UNCHANGED <<ledgerVars, files, linkVars, done, faults>>

\* The effect itself: nothing durable says so yet.
Execute ==
    /\ At("permitted") /\ Capability[Op] # "changeset"
    /\ done' = [done EXCEPT ![Op][1] = @ + 1]
    /\ Goto("acted")
    /\ UNCHANGED <<ledgerVars, journalVars, linkVars, faults>>

JournalResult_Retries ==
    /\ At("acted")
    /\ \/ /\ \E sig \in ExecutedSignals(Capability[Op]) : ConcludeWith(sig, TRUE)
          /\ UNCHANGED files
       \/ Goto("permitted") /\ UNCHANGED journalVars
    /\ UNCHANGED <<ledgerVars, linkVars, done, faults>>

JournalResult ==
    /\ At("acted")
    /\ \E sig \in ExecutedSignals(Capability[Op]) : ConcludeWith(sig, Capability[Op] \in Isolated)
    /\ UNCHANGED <<ledgerVars, files, linkVars, done, faults>>

-----------------------------------------------------------------------------
(* The client: a changeset, file by file *)

File == client.file

\* Every baseline is verified before any file is touched.
Preflight ==
    /\ At("permitted") /\ Capability[Op] = "changeset"
    /\ \/ client' = [client EXCEPT !.pc = "file", !.file = 1] /\ UNCHANGED files
       \/ \E i \in Files : Checkpoint(Op, i, "conflict") /\ Goto("record")
    /\ UNCHANGED <<ledgerVars, entry, outbox, linkVars, done, faults>>

\* authorize(): a heartbeat answered in time by an operation still running.
Authorized == ~client.paused /\ HeartbeatGranted(Op) /\ StatusOf(Op) = "running"

AuthorizeFile ==
    /\ At("file")
    /\ \/ Authorized /\ Checkpoint(Op, File, "prepared") /\ Goto("prepared")
       \/ Checkpoint(Op, File, "canceled") /\ Goto("record")
    /\ UNCHANGED <<ledgerVars, entry, outbox, linkVars, done, faults>>

\* beforeCommit: authority once more, right before the rename.  Its loss and a
\* changed file are known to have no effect, an I/O error is not.
BeforeCommit ==
    /\ At("prepared")
    /\ \/ Authorized /\ Goto("commit") /\ UNCHANGED files
       \/ \E state \in {"conflict", "unknown"} : Checkpoint(Op, File, state) /\ Goto("record")
    /\ UNCHANGED <<ledgerVars, entry, outbox, linkVars, done, faults>>

WriteTextFile ==
    /\ At("commit")
    /\ \/ /\ done' = [done EXCEPT ![Op][File] = @ + 1]
          /\ Goto("wrote") /\ UNCHANGED files
       \/ Checkpoint(Op, File, "unknown") /\ Goto("record") /\ UNCHANGED done
    /\ UNCHANGED <<ledgerVars, entry, outbox, linkVars, faults>>

FileWritten_OffByOne ==
    /\ At("wrote")
    /\ Checkpoint(Op, File, "applied")
    /\ client' = IF File > NFiles THEN [client EXCEPT !.pc = "record"]
                 ELSE [client EXCEPT !.pc = "file", !.file = @ + 1]
    /\ UNCHANGED <<ledgerVars, entry, outbox, linkVars, done, faults>>

\* The write is checkpointed, or its fsync failed and it stays in doubt.
FileWritten ==
    /\ At("wrote")
    /\ \/ /\ Checkpoint(Op, File, "applied")
          /\ client' = IF File = NFiles THEN [client EXCEPT !.pc = "record"]
                       ELSE [client EXCEPT !.pc = "file", !.file = @ + 1]
       \/ Checkpoint(Op, File, "unknown") /\ Goto("record")
    /\ UNCHANGED <<ledgerVars, entry, outbox, linkVars, done, faults>>

RecordChangeset ==
    /\ At("record")
    /\ ConcludeWith(ChangesetSignal(files[Op]), FALSE)
    /\ UNCHANGED <<ledgerVars, files, linkVars, done, faults>>

-----------------------------------------------------------------------------
(* Pause, crash and restart *)

Pause ==
    /\ ~client.paused /\ ~At("down") /\ faults.pauses < MaxPauses
    /\ client' = [client EXCEPT !.paused = TRUE]
    /\ faults' = [faults EXCEPT !.pauses = @ + 1]
    /\ UNCHANGED <<ledgerVars, journalVars, linkVars, done>>

\* A paused Bridge finishes what it does, flushes once more and closes its journal.
ShutDown ==
    /\ At("idle") /\ client.paused
    /\ Goto("close")
    /\ UNCHANGED <<ledgerVars, journalVars, linkVars, done, faults>>

Crash ==
    /\ ~At("down") /\ faults.crashes < MaxCrashes
    /\ client' = Down
    /\ Abandon
    /\ faults' = [faults EXCEPT !.crashes = @ + 1]
    /\ UNCHANGED <<ledgerVars, journalVars, done>>

Restart ==
    /\ At("down")
    /\ Open
    /\ client' = Idle
    /\ UNCHANGED <<ledgerVars, linkVars, done, faults>>

-----------------------------------------------------------------------------

ServerNext ==
    LedgerStep /\ UNCHANGED <<journalVars, client, linkVars, done, faults>>

ClientNext ==
    \/ PollOnce \/ ReconcileUnknown \/ SendReceipt \/ ReceiptAcknowledged \/ ReceiptRefused
    \/ FlushEnds \/ Claim \/ ClaimAnswered \/ RequestTimesOut
    \/ ReceiveDispatch \/ DeclineDispatch \/ BeginOperation \/ StartDenied \/ StartAnswered
    \/ NotExecuted \/ Execute \/ JournalResult
    \/ Preflight \/ AuthorizeFile \/ BeforeCommit \/ WriteTextFile \/ FileWritten
    \/ RecordChangeset

Next ==
    \/ ServerNext
    \/ ServeCurrent \/ ServeUnheard
    \/ ClientNext
    \/ Pause \/ ShutDown \/ Crash \/ Restart

Spec == Init /\ [][Next]_vars

-----------------------------------------------------------------------------
(* Safety *)

TypeOK ==
    /\ LedgerTypeOK
    /\ entry \in [Ops -> EntryStates]
    /\ files \in [Ops -> [Files -> FileStates]]
    /\ client \in [pc : PCs, op : Ops \cup {None}, file : 0..NFiles,
                   paused : BOOLEAN, back : {"flush", "report", "close"}]
    /\ reply \in Answers \cup {None}
    /\ done \in [Ops -> [Files -> Nat]]
    /\ faults \in [crashes : 0..MaxCrashes, pauses : 0..MaxPauses]

\* The effects an operation consists of.
UnitsOf(o) == IF Capability[o] = "changeset" THEN Files ELSE {1}
Happened(o) == {i \in Files : done[o][i] > 0}

\* Nothing is done twice on the user's computer: not after a repeated dispatch,
\* a lost or late start, a crash between an effect and its journal entry, or a
\* late receipt.
AtMostOnce == \A o \in Ops, i \in Files : done[o][i] <= 1

\* What the ledger says of an operation is what happened on the computer, and
\* stays so: a "none" has no effect behind it, then or later, an "applied" has
\* all of them and a "partial" some.  A process runs in a copy of the folder, so
\* its effects are "none" even when it ran.
TruthfulResult ==
    \A o \in Ops :
        LET e == op[o].snap.effects
        IN  /\ e = "none" => Capability[o] \in Isolated \/ Happened(o) = {}
            /\ e = "applied" => Happened(o) = UnitsOf(o)
            /\ e = "partial" => Happened(o) \notin {{}, UnitsOf(o)}

\* An outcome the device has journalled is never thrown away: whatever the
\* server did meanwhile (a cancellation, an expired lease, a passed deadline, the
\* end of the run), recordReceipt can still apply it.
OutcomeAlwaysLands ==
    \A r \in receipts : r.type = "outcome" => r.disposition = "applied"

-----------------------------------------------------------------------------
(* The promise *)

Verdict(o) ==
    CASE StatusOf(o) \in Terminal -> op[o].snap.effects
      [] StatusOf(o) = "unknown"  -> "doubt"
      [] OTHER                    -> "open"

Promise == INSTANCE OperationPromise WITH
    Units    <- [o \in Ops |-> UnitsOf(o)],
    Isolated <- {o \in Ops : Capability[o] \in Isolated},
    permit   <- [o \in Ops |-> Known(StartId(o))],
    count    <- [o \in Ops |-> [i \in UnitsOf(o) |-> done[o][i]]],
    verdict  <- [o \in Ops |-> Verdict(o)]

\* The ledger, the journal and the client together keep what an operation
\* promises its user.
KeepsThePromise == Promise!Spec

-----------------------------------------------------------------------------
(* Liveness *)

deviceVars == <<journalVars, client, linkVars, done, faults>>

\* The job that waits for an operation calls expireLeases every 300 ms, for as
\* long as it is neither aborted nor past its deadline; nobody else does.  A lease
\* is never extended past the root's deadline, so it runs out.
ServerFairness ==
    /\ WF_vars(RootAdmits /\ ExpireLeases /\ UNCHANGED deviceVars)
    /\ \A o \in Ops : WF_vars(LeaseRunsOut(o) /\ UNCHANGED deviceVars)

\* The client polls in a loop and its awaits return; a connection that is tried
\* for ever works sometimes; the user starts the Bridge again.
ClientFairness ==
    /\ WF_vars(ClientNext) /\ WF_vars(ShutDown) /\ WF_vars(Restart)
    /\ SF_vars(ServeCurrent)
    /\ SF_vars(ReceiptAcknowledged)

FairSpec == Spec /\ ServerFairness /\ ClientFairness

\* An operation that was sent to a device, whatever becomes of the device, ends
\* or is declared unknown, unless the job that waits for it is stopped first.
Settles ==
    \A o \in Ops :
        StatusOf(o) \in {"dispatched", "running"}
            ~> StatusOf(o) \in Terminal \cup {"unknown"} \/ ~RootAdmits

\* The device's next fact is a stop the server does not take: it came before the
\* server asked for one, and no process proves it.
StopRefused ==
    /\ outbox # <<>>
    /\ Head(outbox).sig.type = "stopped"
    /\ Disposition(Head(outbox)) \in {"conflict", "refused"}

\* What a device has journalled reaches the server, for every kind of operation and
\* through crashes and pauses: the outbox is emptied again and again.  Only a stop
\* that is refused for good may block it; an outcome or a doubt never does.
OutboxDrainsOrStopRefused == []<>(outbox = <<>>) \/ <>[]StopRefused
=============================================================================
