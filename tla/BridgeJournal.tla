---------------------------- MODULE BridgeJournal ----------------------------
(***************************************************************************)
(* The durable journal of one Rice Bridge device: an entry per operation,  *)
(* the per-file checkpoints of a changeset, and the outbox of receipts not *)
(* yet acknowledged.  Every operator below is one SQLite transaction.  A   *)
(* transaction that fails poisons the journal, and the device does nothing *)
(* more until it is restarted; that is a crash to everyone else.           *)
(***************************************************************************)
EXTENDS RuntimeOperation, Naturals, Sequences, FiniteSets

CONSTANTS
    NFiles        \* files of a changeset

ASSUME JournalAssumption == NFiles \in Nat \ {0}

VARIABLES
    entry,    \* entry[o]: state of the operation's entry
    files,    \* files[o][i]: the last checkpoint of the changeset's i-th file
    outbox    \* receipts to deliver, oldest first

journalVars == <<entry, files, outbox>>

Files == 1..NFiles

EntryStates == {"absent", "received", "executing", "completed", "unknown"}
FileStates  == {"pending", "prepared", "applied", "conflict", "canceled", "unknown"}

JournalInit ==
    /\ entry = [o \in Ops |-> "absent"]
    /\ files = [o \in Ops |-> [i \in Files |-> "pending"]]
    /\ outbox = <<>>

-----------------------------------------------------------------------------
(* Entries *)

Active(o) == entry[o] \in {"received", "executing"}

\* receive accepts an operation once; a repeated dispatch is a duplicate.
Receivable(o) == entry[o] = "absent"

Receive(o) ==
    /\ Receivable(o)
    /\ entry' = [entry EXCEPT ![o] = "received"]
    /\ UNCHANGED <<files, outbox>>

Begin(o) ==
    /\ entry[o] = "received"
    /\ entry' = [entry EXCEPT ![o] = "executing"]
    /\ UNCHANGED <<files, outbox>>

\* The k-th fact of an operation: a receipt with an identity of its own.
Fact(o, k, sig, proof) == [id |-> <<o, k>>, op |-> o, sig |-> sig, proof |-> proof]

\* outcome, stopped and uncertain: the state and the receipt together.
Conclude(o, sig, proof) ==
    /\ Active(o)
    /\ entry' = [entry EXCEPT ![o] = IF sig.type = "uncertain" THEN "unknown" ELSE "completed"]
    /\ outbox' = Append(outbox, Fact(o, 1, sig, proof))

\* reconcileLocalCommand, reconcileLocalPython, reconcileLocalPdf: a result found
\* later closes an unknown entry with a second receipt.
Reconcile(o, sig) ==
    /\ entry[o] = "unknown"
    /\ Capability[o] \in Isolated
    /\ entry' = [entry EXCEPT ![o] = "completed"]
    /\ outbox' = Append(outbox, Fact(o, 2, sig, TRUE))
    /\ UNCHANGED files

\* changesetCheckpoint: only a prepared file may still change.
Checkpoint(o, i, state) ==
    /\ entry[o] = "executing"
    /\ files[o][i] \in {"pending", "prepared"}
    /\ files' = [files EXCEPT ![o][i] = state]

Acknowledge ==
    /\ outbox' = Tail(outbox)
    /\ UNCHANGED <<entry, files>>

-----------------------------------------------------------------------------
(* What a changeset reports, from its files *)

Applied(fs) == {i \in Files : fs[i] = "applied"}

ChangesetOutcome(fs) ==
    CASE Applied(fs) = Files -> Outcome("succeeded", "applied")
      [] Applied(fs) = {}    -> Outcome("failed", "none")
      [] OTHER               -> Outcome("partial", "partial")

\* At the end of the execution.
ChangesetSignal(fs) ==
    IF \E i \in Files : fs[i] = "unknown" THEN Uncertain
    ELSE IF Applied(fs) = {} /\ (\E i \in Files : fs[i] = "canceled") THEN Stopped("none")
    ELSE ChangesetOutcome(fs)

AfterRestart_Forgets(fs) == [i \in Files |-> IF fs[i] = "prepared" THEN "pending" ELSE fs[i]]

\* A file that was prepared and not concluded may have been written.
AfterRestart(fs) == [i \in Files |-> IF fs[i] = "prepared" THEN "unknown" ELSE fs[i]]

\* What opening the journal concludes about an entry the last process left
\* active: never that it may be executed again.
RestartSignal(o) ==
    IF entry[o] = "received" THEN Outcome("failed", "none")
    ELSE IF Capability[o] # "changeset" THEN Uncertain
    ELSE IF \E i \in Files : AfterRestart(files[o])[i] = "unknown" THEN Uncertain
    ELSE ChangesetOutcome(AfterRestart(files[o]))

\* The client has one operation at a time, so at most one entry is active.
Open ==
    \/ (\A o \in Ops : ~Active(o)) /\ UNCHANGED <<entry, files, outbox>>
    \/ \E o \in Ops : Conclude(o, RestartSignal(o), FALSE) /\ UNCHANGED files
=============================================================================
