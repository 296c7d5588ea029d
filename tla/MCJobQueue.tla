----------------------------- MODULE MCJobQueue -----------------------------
(* Instances of JobQueue for TLC. *)
EXTENDS JobQueue, TLC

CONSTANTS j1, j2, w1, w2, web, q1, q2

\* All hosts agree with the database clock.
NoSkew == [h \in Hosts |-> 0]

\* One worker runs ahead of the database, the other behind it.
SkewedHosts == [h \in Hosts |-> CASE h = w1 -> 1 [] h = w2 -> -1 [] OTHER -> 0]

\* Workers with the same clock are interchangeable.
WorkerSymmetry == Permutations(Workers)
=============================================================================
