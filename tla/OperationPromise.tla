--------------------------- MODULE OperationPromise ---------------------------
(***************************************************************************)
(* What an operation promises to the user whose computer it runs on: it    *)
(* acts only after one permission, each of its effects happens at most     *)
(* once, and a verdict that is given is true and closes the operation.     *)
(* Doubt is allowed: it is not a verdict, and evidence may still follow.   *)
(***************************************************************************)
EXTENDS Naturals

CONSTANTS
    Ops,       \* operations
    Units,     \* Units[o]: the effects o consists of
    Isolated   \* operations that run in a copy and leave the folder alone

VARIABLES
    permit,    \* permit[o]: o has been given its permission to act
    count,     \* count[o][u]: how often the effect u of o happened
    verdict    \* verdict[o]: what the user is told of o

vars == <<permit, count, verdict>>

Final == {"none", "partial", "applied"}

Init ==
    /\ permit = [o \in Ops |-> FALSE]
    /\ count = [o \in Ops |-> [u \in Units[o] |-> 0]]
    /\ verdict = [o \in Ops |-> "open"]

Happened(o) == {u \in Units[o] : count[o][u] > 0}

\* What may truthfully be said of o now.
Truthful(o) ==
    IF o \in Isolated THEN {"none"}
    ELSE {v \in Final : /\ v = "none"    => Happened(o) = {}
                        /\ v = "applied" => Happened(o) = Units[o]
                        /\ v = "partial" => Happened(o) \notin {{}, Units[o]}}

Permit(o) ==
    /\ ~permit[o] /\ verdict[o] = "open"
    /\ permit' = [permit EXCEPT ![o] = TRUE]
    /\ UNCHANGED <<count, verdict>>

Act(o, u) ==
    /\ permit[o] /\ verdict[o] \notin Final
    /\ count[o][u] = 0
    /\ count' = [count EXCEPT ![o][u] = 1]
    /\ UNCHANGED <<permit, verdict>>

\* One server transaction may tell of several operations.
Tell ==
    /\ verdict' \in [Ops -> Final \cup {"open", "doubt"}]
    /\ \A o \in Ops :
         \/ verdict'[o] = verdict[o]
         \/ verdict[o] = "open" /\ verdict'[o] = "doubt"
         \/ verdict[o] \notin Final /\ verdict'[o] \in Truthful(o)
    /\ UNCHANGED <<permit, count>>

Next == Tell \/ \E o \in Ops : Permit(o) \/ \E u \in Units[o] : Act(o, u)

Spec == Init /\ [][Next]_vars
=============================================================================
