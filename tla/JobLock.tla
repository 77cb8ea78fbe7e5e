------------------------------ MODULE JobLock ------------------------------
(***************************************************************************)
(* The advisory locks that guard the two background jobs, and the          *)
(* connection pool under them.  A run of a job (app/workers/               *)
(* notification_worker.py, scraper_worker.py) asks PostgreSQL for the lock *)
(* of its job on the connection its session happens to hold, works, and    *)
(* releases the lock on the connection it holds then.  The lock belongs to *)
(* the connection, not to the run: a session gives its connection back to  *)
(* the pool of its process at every commit, and takes the one that has     *)
(* been idle longest at its next statement (app/db/session.py).            *)
(*                                                                         *)
(* A notification pass commits after each claim and each outcome; a scrape *)
(* commits once, after it has released its lock.  Statements are modelled  *)
(* one per step; what a run reads and writes is in the modules of the jobs.*)
(***************************************************************************)
EXTENDS Integers, Sequences

CONSTANTS
  Null,
  Processes,      \* worker replicas and run_once commands
  Runs,           \* job slots: the scheduled, startup and retry jobs of a process
  Conns,          \* connections a process may open
  RunsIn,         \* RunsIn[t]: the process of slot t
  JobOf,          \* JobOf[t]: the job slot t runs
  Home,           \* Home[c]: the process that opens c
  MaxDepth,       \* bound on re-entrant acquisitions of a lock
  MaxFaults       \* bound on failed statements, lost connections and crashes

Jobs == {"scrape", "notify"}

ASSUME JobLockAssumption ==
  /\ RunsIn \in [Runs -> Processes]
  /\ JobOf \in [Runs -> Jobs]
  /\ Home \in [Conns -> Processes]
  /\ Null \notin Conns
  /\ MaxDepth \in Nat \ {0} /\ MaxFaults \in Nat

VARIABLES
  pc,             \* where each run stands
  conn,           \* the connection its session holds
  pool,           \* pool[p]: idle connections, the longest idle first
  old,            \* connections past pool_recycle
  dead,           \* connections the server has dropped
  lock,           \* lock[j]: which connection holds the lock of j, how deep
  faults

vars == <<pc, conn, pool, old, dead, lock, faults>>

\* skip: the lock was taken.  body: it was acquired and the session is in a
\* transaction; between: in the body, between two transactions.  unlocked: the
\* lock has been released and the last transaction is still open.
Stages == {"idle", "skip", "body", "between", "unlocked"}
Inside(t) == pc[t] \in {"body", "between"}
Free   == [holder |-> Null, depth |-> 0]

Init ==
  /\ pc = [t \in Runs |-> "idle"]
  /\ conn = [t \in Runs |-> Null]
  /\ pool = [p \in Processes |-> <<>>]
  /\ old = {}
  /\ dead = {}
  /\ lock = [j \in Jobs |-> Free]
  /\ faults = 0

----------------------------------------------------------------------------
(* The pool.                                                               *)

Unopened(p) ==
  {c \in Conns : /\ Home[c] = p
                 /\ \A i \in 1 .. Len(pool[p]) : pool[p][i] # c
                 /\ \A t \in Runs : conn[t] # c}

\* A connection of the pool, or a new one when none is idle.
Offered(p) == IF pool[p] = <<>> THEN Unopened(p) ELSE {Head(pool[p])}

\* PostgreSQL frees the locks of connections that close.
Released(C) == [j \in Jobs |-> IF lock[j].holder \in C THEN Free ELSE lock[j]]

\* A connection that is too old or does not answer the ping is replaced.
Checkout(t, c) ==
  /\ c \in Offered(RunsIn[t])
  /\ conn' = [conn EXCEPT ![t] = c]
  /\ pool' = [pool EXCEPT ![RunsIn[t]] = IF @ = <<>> THEN @ ELSE Tail(@)]
  /\ old' = old \ {c}
  /\ dead' = dead \ {c}

Refreshed(c) == IF c \in old \cup dead THEN Released({c}) ELSE lock

\* Mutant: the pool hands out the connection used last (pool_use_lifo).
CheckinFirst(t) ==
  /\ conn' = [conn EXCEPT ![t] = Null]
  /\ pool' = [pool EXCEPT ![RunsIn[t]] = <<conn[t]>> \o @]

Checkin(t) ==
  /\ conn' = [conn EXCEPT ![t] = Null]
  /\ pool' = [pool EXCEPT ![RunsIn[t]] = Append(@, conn[t])]

----------------------------------------------------------------------------
(* A run of a job.                                                         *)

Goto(t, stage) == pc' = [pc EXCEPT ![t] = stage]

\* pg_try_advisory_lock is re-entrant: the connection that holds a lock gets
\* it again.
Acquire(t) ==
  /\ pc[t] = "idle"
  /\ \E c \in Conns :
       /\ Checkout(t, c)
       /\ LET held == Refreshed(c)[JobOf[t]]
          IN  /\ held.holder \in {Null, c}
              /\ held.depth < MaxDepth
              /\ lock' = [Refreshed(c) EXCEPT ![JobOf[t]] =
                            [holder |-> c, depth |-> held.depth + 1]]
  /\ Goto(t, "body")
  /\ UNCHANGED faults

Skip(t) ==
  /\ pc[t] = "idle"
  /\ \E c \in Conns :
       /\ Checkout(t, c)
       /\ Refreshed(c)[JobOf[t]].holder \notin {Null, c}
       /\ lock' = Refreshed(c)
  /\ Goto(t, "skip")
  /\ UNCHANGED faults

\* Mutant: a scrape commits during its run (a run row committed up front).
CommitAny(t) ==
  /\ pc[t] = "body"
  /\ conn[t] \notin dead
  /\ Checkin(t)
  /\ Goto(t, "between")
  /\ UNCHANGED <<old, dead, lock, faults>>

\* A notification pass commits in the middle of its work.
Commit(t) ==
  /\ pc[t] = "body"
  /\ JobOf[t] = "notify"
  /\ conn[t] \notin dead
  /\ Checkin(t)
  /\ Goto(t, "between")
  /\ UNCHANGED <<old, dead, lock, faults>>

\* Its next statement, which may be the one that releases the lock.
Resume(t) ==
  /\ pc[t] = "between"
  /\ \E c \in Conns :
       /\ Checkout(t, c)
       /\ lock' = Refreshed(c)
  /\ Goto(t, "body")
  /\ UNCHANGED faults

\* Mutant: the depth of the lock goes down whoever holds it.
UnlockUnchecked(t) ==
  /\ pc[t] = "body"
  /\ conn[t] \notin dead
  /\ lock' = [lock EXCEPT ![JobOf[t]].depth = @ - 1]
  /\ Goto(t, "unlocked")
  /\ UNCHANGED <<conn, pool, old, dead, faults>>

\* pg_advisory_unlock does nothing, and reports it in a result nobody reads,
\* when the connection does not hold the lock.
Unlock(t) ==
  LET held == lock[JobOf[t]]
  IN  /\ pc[t] = "body"
      /\ conn[t] \notin dead
      /\ lock' = IF held.holder # conn[t] THEN lock
                 ELSE [lock EXCEPT ![JobOf[t]] =
                         IF held.depth = 1 THEN Free
                         ELSE [held EXCEPT !.depth = @ - 1]]
      /\ Goto(t, "unlocked")
      /\ UNCHANGED <<conn, pool, old, dead, faults>>

\* session_scope commits (or fails to, on a dead connection) and closes.
Close(t) ==
  /\ pc[t] \in {"skip", "unlocked"}
  /\ Checkin(t)
  /\ Goto(t, "idle")
  /\ UNCHANGED <<old, dead, lock, faults>>

\* A statement of the body fails: the transaction is aborted, the release in
\* the finally clause fails too, and the session rolls back and closes.
FailBody(t) ==
  /\ pc[t] = "body"
  /\ \/ /\ conn[t] \in dead
        /\ UNCHANGED faults
     \/ /\ faults < MaxFaults
        /\ faults' = faults + 1
  /\ Checkin(t)
  /\ Goto(t, "idle")
  /\ UNCHANGED <<old, dead, lock>>

RunStep(t) ==
  \/ Acquire(t) \/ Skip(t) \/ Commit(t) \/ Resume(t) \/ Unlock(t) \/ Close(t) \/ FailBody(t)

----------------------------------------------------------------------------
(* The environment.                                                        *)

Opened == {c \in Conns : c \notin Unopened(Home[c])}

\* pool_recycle seconds have passed since c was opened.
Age(c) ==
  /\ c \in Opened
  /\ old' = old \cup {c}
  /\ UNCHANGED <<pc, conn, pool, dead, lock, faults>>

\* The server or the network drops a connection.
Drop(c) ==
  /\ c \in Opened \ dead
  /\ faults < MaxFaults
  /\ faults' = faults + 1
  /\ dead' = dead \cup {c}
  /\ lock' = Released({c})
  /\ UNCHANGED <<pc, conn, pool, old>>

\* A process dies and is started again; all its connections close.
Crash(p) ==
  LET gone == {c \in Conns : Home[c] = p}
  IN  /\ faults < MaxFaults
      /\ faults' = faults + 1
      /\ pc' = [t \in Runs |-> IF RunsIn[t] = p THEN "idle" ELSE pc[t]]
      /\ conn' = [t \in Runs |-> IF RunsIn[t] = p THEN Null ELSE conn[t]]
      /\ pool' = [pool EXCEPT ![p] = <<>>]
      /\ old' = old \ gone
      /\ dead' = dead \ gone
      /\ lock' = Released(gone)

Next ==
  \/ \E t \in Runs : RunStep(t)
  \/ \E c \in Conns : Age(c) \/ Drop(c)
  \/ \E p \in Processes : Crash(p)

Spec == Init /\ [][Next]_vars

\* The scheduler starts every job again and again, every statement returns, a
\* pass has finitely many deliveries, and connections grow old.
Fairness ==
  /\ \A t \in Runs : WF_vars(RunStep(t)) /\ SF_vars(Unlock(t) \/ FailBody(t))
  /\ \A c \in Conns : WF_vars(Age(c))
FairSpec == Spec /\ Fairness

----------------------------------------------------------------------------
(* Properties.                                                             *)

Locks == [holder : Conns \cup {Null}, depth : 0 .. MaxDepth]

TypeOK ==
  /\ pc \in [Runs -> Stages]
  /\ conn \in [Runs -> Conns \cup {Null}]
  /\ pool \in [Processes -> Seq(Conns)]
  /\ old \subseteq Conns
  /\ dead \subseteq Conns
  /\ lock \in [Jobs -> Locks]
  /\ faults \in 0 .. MaxFaults

Scraping(t) == JobOf[t] = "scrape" /\ Inside(t) /\ conn[t] \notin dead

(* Exactly one scrape at a time, however many replicas and jobs of one     *)
(* replica start one, through failures, recycled connections and crashes   *)
(* (scraper_worker.py).  A scrape whose connection was dropped can write   *)
(* nothing and does not count.                                             *)
ScrapesExclusive == \A t, u \in Runs : Scraping(t) /\ Scraping(u) => t = u

(* Unless something failed, the lock of the scrape is held for a scrape    *)
(* that runs: a start that is turned away is turned away by one.           *)
ScrapeLockInUse ==
  lock["scrape"].holder # Null /\ faults = 0 =>
    \E t \in Runs : JobOf[t] = "scrape" /\ Inside(t) /\ conn[t] = lock["scrape"].holder

(* A lock that was left on an idle connection, by a pass that released it  *)
(* on another one, by a failed run or by a crash, does not wedge its job:  *)
(* each job is run again and again by some process.                        *)
NeverWedged == \A j \in Jobs : []<>(\E t \in Runs : JobOf[t] = j /\ Inside(t))

=============================================================================
