------------------------- MODULE MCOperationLedger -------------------------
(* OperationLedger on small instances. *)
EXTENDS OperationLedger

\* A child's command and a root write share a budget that fits both exactly.
MCCapability == [o \in Ops |-> IF o \in AgentOps THEN "process" ELSE "write"]
MCAmount == [o \in Ops |-> 1]
=============================================================================
