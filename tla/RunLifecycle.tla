---------------------------- MODULE RunLifecycle ----------------------------
(***************************************************************************)
(* What the queue promises the user of a run, with no worker, lease, clock *)
(* or log in sight: a run is queued, executes, may be sent back to the     *)
(* queue or wait for its user, and gets one verdict, for good.  Once a     *)
(* stop is recorded, the run starts no further segment and cannot succeed, *)
(* and it is reported canceled only if a stop was recorded.                *)
(***************************************************************************)
CONSTANT Runs

VARIABLES
    state,    \* state[r]: where the run is
    stop,     \* stop[r]: a stop has been recorded
    verdict   \* verdict[r]: the outcome announced, or "none"

vars == <<state, stop, verdict>>

Outcomes == {"succeeded", "failed", "canceled"}
Live     == {"queued", "running", "waiting_approval"}

TypeOK ==
    /\ state \in [Runs -> {"absent"} \cup Live \cup Outcomes]
    /\ stop \in [Runs -> BOOLEAN]
    /\ verdict \in [Runs -> {"none"} \cup Outcomes]

Init ==
    /\ state = [r \in Runs |-> "absent"]
    /\ stop = [r \in Runs |-> FALSE]
    /\ verdict = [r \in Runs |-> "none"]

Move(r, from, to) ==
    /\ state[r] = from /\ state' = [state EXCEPT ![r] = to]
    /\ UNCHANGED <<stop, verdict>>

Submit(r) == Move(r, "absent", "queued")

Begin(r) == ~stop[r] /\ Move(r, "queued", "running")

\* A retry, or a recovered lease: only an unstopped run goes round again.
GiveBack(r) == ~stop[r] /\ Move(r, "running", "queued")

Park(r) == ~stop[r] /\ Move(r, "running", "waiting_approval")

Resume(r) == Move(r, "waiting_approval", "queued")

RequestStop(r) ==
    /\ state[r] # "absent"
    /\ stop' = [stop EXCEPT ![r] = TRUE]
    /\ UNCHANGED <<state, verdict>>

\* The verdict and the final state appear together; a step may record the stop
\* it acts on.
End(r, outcome) ==
    /\ state[r] \in Live
    /\ outcome = "succeeded" => state[r] = "running" /\ ~stop[r]
    /\ \E s \in {stop[r], TRUE} :
         /\ outcome = "canceled" => s
         /\ outcome = "succeeded" => ~s
         /\ stop' = [stop EXCEPT ![r] = s]
    /\ state' = [state EXCEPT ![r] = outcome]
    /\ verdict' = [verdict EXCEPT ![r] = outcome]

Next ==
    \E r \in Runs :
        \/ Submit(r) \/ Begin(r) \/ GiveBack(r) \/ Park(r) \/ Resume(r)
        \/ RequestStop(r) \/ \E o \in Outcomes : End(r, o)

Spec == Init /\ [][Next]_vars
=============================================================================
