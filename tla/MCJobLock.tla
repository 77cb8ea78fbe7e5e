----------------------------- MODULE MCJobLock -----------------------------
(***************************************************************************)
(* Two worker replicas, p and q.  The first may run the scheduled scrape,  *)
(* its retry and the notification job; the second a job of each kind.  A   *)
(* cfg picks the slots in use and at least one connection for each process.*)
(***************************************************************************)
EXTENDS JobLock

CONSTANTS p, q, scheduled, retry, notify, other_scrape, other_notify, c1, c2, c3, d1, d2

Placement == [t \in Runs |-> IF t \in {other_scrape, other_notify} THEN q ELSE p]
Work      == [t \in Runs |-> IF t \in {notify, other_notify} THEN "notify" ELSE "scrape"]
Opener    == [c \in Conns |-> IF c \in {d1, d2} THEN q ELSE p]
=============================================================================
