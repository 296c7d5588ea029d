--------------------------- MODULE MCLeaseLockRetry ---------------------------
(* The instances of LeaseLockRetry that TLC checks. *)
EXTENDS LeaseLockRetry

\* A host behind the database's clock, with it and ahead of it.
HostSkews == {-1, 0, 1}
===============================================================================
