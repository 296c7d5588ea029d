------------------------- MODULE MCBridgeOperations -------------------------
(* BridgeOperations on small instances. *)
EXTENDS BridgeOperations

CONSTANTS c1, w1, p1, f1, m1     \* a changeset, a write, a process, a PDF reader, an MCP call

MCCapability ==
    [o \in Ops |-> CASE o = c1 -> "changeset" [] o = w1 -> "write"
                     [] o = p1 -> "process"   [] o = m1 -> "mcp"
                     [] o = f1 -> "pdf"]
MCAmount == [o \in Ops |-> 0]
=============================================================================
