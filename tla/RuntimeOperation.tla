-------------------------- MODULE RuntimeOperation --------------------------
(***************************************************************************)
(* The contract of one action attempt, shared by the server's ledger and   *)
(* every executor: the statuses of an operation, the transitions between   *)
(* them, and the projection of one signal onto the snapshot.  A snapshot   *)
(* keeps the status, whether a cancellation was requested, and the effects *)
(* its result claims ("null" while there is no result).  Process           *)
(* identities and evidence texts are left out.                             *)
(***************************************************************************)
CONSTANTS
    Ops,          \* the operations of one root run that a device may execute
    Capability    \* Capability[o]: the kind of action o is bound to

\* "write" stands for the file actions that take effect in one step,
\* "changeset" for a reviewed list of files, "process" for a command or a Python
\* script, "pdf" for the PDF reader, "mcp" for a call of a local MCP server.
Capabilities == {"write", "changeset", "process", "pdf", "mcp"}

\* What runs on a copy and leaves the user's folder as it is.
Isolated == {"process", "pdf"}

ASSUME CapabilityAssumption == Capability \in [Ops -> Capabilities]

Waiting       == {"waiting_user", "waiting_device", "waiting_dependency"}
KnownOutcomes == {"succeeded", "failed", "partial"}
Terminal      == KnownOutcomes \cup {"canceled"}
Statuses      == Terminal \cup Waiting \cup
                 {"planned", "ready", "dispatched", "running",
                  "cancel_requested", "unknown"}
Effects       == {"none", "applied", "partial"}

Snapshots == [status : Statuses, cancel : BOOLEAN,
              effects : Effects \cup {"null"}]

Planned == [status |-> "planned", cancel |-> FALSE, effects |-> "null"]

\* The results a signal may carry: an outcome describes its effects truthfully.
Results ==
    {r \in [status : KnownOutcomes, effects : Effects] :
        /\ r.status = "partial" => r.effects = "partial"
        /\ r.status = "succeeded" => r.effects # "partial"}

Plain(type)   == [type |-> type, status |-> "null", effects |-> "null"]
Outcome(s, e) == [type |-> "outcome", status |-> s, effects |-> e]
Stopped(e)    == [type |-> "stopped", status |-> "null", effects |-> e]
Uncertain     == Plain("uncertain")

\* The facts a device may report; the other signals are the server's own.
DeviceSignals ==
    {Uncertain, Plain("transport_ack"), Plain("started")}
      \cup {Outcome(r.status, r.effects) : r \in Results}
      \cup {Stopped(e) : e \in {"none", "partial"}}

\* The statuses an operation may go to from status s.
Transitions(s) ==
    CASE s = "planned"          -> Waiting \cup {"ready", "cancel_requested"}
      [] s \in Waiting          -> (Waiting \ {s}) \cup {"ready", "cancel_requested"}
      [] s = "ready"            -> Waiting \cup {"dispatched", "cancel_requested"}
      [] s = "dispatched"       -> KnownOutcomes \cup {"running", "unknown", "cancel_requested"}
      [] s = "running"          -> KnownOutcomes \cup {"unknown", "cancel_requested"}
      [] s = "cancel_requested" -> KnownOutcomes \cup {"unknown", "canceled"}
      [] s = "unknown"          -> KnownOutcomes \cup {"canceled"}
      [] OTHER                  -> {}

\* Signals that leave the status as it is: a late start proves no progress, a
\* second doubt adds nothing, and a cancellation of a doubtful or already
\* canceled operation only records the intent.
KeepsStatus(snap, sig) ==
    \/ sig.type = "transport_ack"
    \/ sig.type = "started" /\ snap.status \in {"cancel_requested", "unknown", "running"}
    \/ sig.type = "cancel_requested" /\ snap.status \in {"cancel_requested", "unknown"}
    \/ sig.type = "uncertain" /\ snap.status = "unknown"

TargetStatus(sig) ==
    CASE sig.type = "waiting"          -> "waiting_user"
      [] sig.type = "started"          -> "running"
      [] sig.type = "uncertain"        -> "unknown"
      [] sig.type = "outcome"          -> sig.status
      [] sig.type = "stopped"          -> IF sig.effects = "none" THEN "canceled" ELSE "partial"
      [] OTHER                         -> sig.type

\* advanceRuntimeOperation throws exactly where this is false.
CanAdvance(snap, sig) ==
    KeepsStatus(snap, sig) \/ TargetStatus(sig) \in Transitions(snap.status)

Advance(snap, sig) ==
    [status  |-> IF KeepsStatus(snap, sig) THEN snap.status ELSE TargetStatus(sig),
     cancel  |-> snap.cancel \/ sig.type = "cancel_requested",
     effects |-> IF sig.type \in {"outcome", "stopped"} THEN sig.effects ELSE snap.effects]
=============================================================================
