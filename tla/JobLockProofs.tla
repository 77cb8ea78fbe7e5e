--------------------------- MODULE JobLockProofs ---------------------------
(***************************************************************************)
(* Proofs about the job locks, for any processes, job slots, connections   *)
(* and bounds: types, that scrapes exclude one another, and that the lock  *)
(* of the scrape is in use.                                                *)
(***************************************************************************)
EXTENDS JobLock, SequenceTheorems, TLAPS

(***************************************************************************)
(* The inductive invariant.  A connection is held by one session, or idle  *)
(* in one place of the pool of the process that opened it; a session holds *)
(* one exactly outside of its pauses, and a scrape never pauses.  So a     *)
(* scrape keeps the connection it took the lock on, and the lock names it. *)
(***************************************************************************)
Holds(t) == pc[t] \in {"skip", "body", "unlocked"}

ConnInv ==
  /\ \A t \in Runs : conn[t] # Null <=> Holds(t)
  /\ \A t \in Runs : conn[t] # Null => Home[conn[t]] = RunsIn[t]
  /\ \A t, u \in Runs : t # u /\ conn[t] # Null => conn[t] # conn[u]

PoolInv ==
  /\ \A p \in Processes : \A i \in 1 .. Len(pool[p]) : Home[pool[p][i]] = p
  /\ \A p \in Processes : \A i, j \in 1 .. Len(pool[p]) : i # j => pool[p][i] # pool[p][j]
  /\ \A p \in Processes : \A i \in 1 .. Len(pool[p]) : \A t \in Runs : pool[p][i] # conn[t]

LockInv ==
  /\ \A j \in Jobs : lock[j].holder = Null <=> lock[j].depth = 0
  /\ \A t \in Runs : JobOf[t] = "scrape" => pc[t] # "between"
  /\ \A t \in Runs : JobOf[t] = "scrape" /\ pc[t] = "body" /\ conn[t] \notin dead =>
       lock["scrape"].holder = conn[t]

UseInv ==
  faults = 0 =>
    /\ dead = {}
    /\ lock["scrape"].holder # Null =>
         /\ lock["scrape"].depth = 1
         /\ \E t \in Runs : JobOf[t] = "scrape" /\ pc[t] = "body" /\ conn[t] = lock["scrape"].holder

JobLockInv == TypeOK /\ ConnInv /\ PoolInv /\ LockInv /\ UseInv

USE JobLockAssumption DEF Jobs, Stages, Free

-----------------------------------------------------------------------------
LEMMA InitInv == Init => JobLockInv
<1> SUFFICES ASSUME Init PROVE JobLockInv
  OBVIOUS
<1>1. TypeOK
  BY DEF Init, TypeOK, Locks
<1>2. ConnInv /\ PoolInv /\ LockInv /\ UseInv
  BY DEF Init, ConnInv, PoolInv, LockInv, UseInv, Holds
<1> QED
  BY <1>1, <1>2 DEF JobLockInv

(* A connection that is handed out was nobody's, and leaves the pool.      *)
LEMMA CheckoutFree ==
  ASSUME TypeOK, ConnInv, PoolInv, NEW t \in Runs, NEW c \in Conns, conn[t] = Null, Checkout(t, c)
  PROVE  /\ Home[c] = RunsIn[t] /\ c # Null
         /\ \A u \in Runs : conn[u] # c
         /\ pool' \in [Processes -> Seq(Conns)] /\ conn' \in [Runs -> Conns \cup {Null}]
         /\ conn'[t] = c /\ \A u \in Runs \ {t} : conn'[u] = conn[u]
         /\ old' \subseteq Conns /\ dead' = dead \ {c}
         /\ PoolInv'
<1> DEFINE p == RunsIn[t]
           rest == IF pool[p] = <<>> THEN <<>> ELSE Tail(pool[p])
<1>1. /\ p \in Processes /\ pool[p] \in Seq(Conns) /\ c # Null
      /\ conn \in [Runs -> Conns \cup {Null}] /\ pool \in [Processes -> Seq(Conns)]
      /\ old \subseteq Conns
  BY DEF TypeOK
<1>2. /\ pool' = [pool EXCEPT ![p] = rest] /\ conn' = [conn EXCEPT ![t] = c]
      /\ dead' = dead \ {c} /\ old' = old \ {c}
  BY <1>1 DEF Checkout
<1>3. \/ pool[p] # <<>> /\ c = pool[p][1]
      \/ pool[p] = <<>> /\ c \in Unopened(p)
  BY <1>1 DEF Checkout, Offered
<1>4. /\ Home[c] = p
      /\ \A u \in Runs : conn[u] # c
  <2>1. CASE pool[p] # <<>> /\ c = pool[p][1]
    BY <1>1, <2>1 DEF PoolInv
  <2>2. CASE pool[p] = <<>> /\ c \in Unopened(p)
    BY <2>2 DEF Unopened
  <2> QED
    BY <1>3, <2>1, <2>2
<1>5. /\ rest \in Seq(Conns)
      /\ \A i \in 1 .. Len(rest) : i + 1 \in 1 .. Len(pool[p]) /\ rest[i] = pool[p][i + 1]
  <2>1. CASE pool[p] = <<>>
    BY <2>1
  <2>2. CASE pool[p] # <<>>
    BY <2>2, <1>1
  <2> QED
    BY <2>1, <2>2
<1>6. \A i \in 1 .. Len(rest) : rest[i] # c
  <2> SUFFICES ASSUME NEW i \in 1 .. Len(rest) PROVE rest[i] # c
    OBVIOUS
  <2>1. pool[p] # <<>> /\ c = pool[p][1] /\ 1 \in 1 .. Len(pool[p]) /\ i + 1 \in 1 .. Len(pool[p])
        /\ i + 1 # 1
    BY <1>1, <1>3, <1>5
  <2> QED
    BY <1>1, <1>5, <2>1 DEF PoolInv
<1> HIDE DEF p, rest
<1>7. /\ pool'[p] = rest /\ \A q \in Processes \ {p} : pool'[q] = pool[q]
      /\ pool' \in [Processes -> Seq(Conns)]
  BY <1>1, <1>2, <1>5
<1>8. /\ conn'[t] = c /\ \A u \in Runs \ {t} : conn'[u] = conn[u]
      /\ conn' \in [Runs -> Conns \cup {Null}]
  BY <1>1, <1>2
<1>9. ASSUME NEW q \in Processes, NEW i \in 1 .. Len(pool'[q])
      PROVE  /\ Home[pool'[q][i]] = q
             /\ \A j \in 1 .. Len(pool'[q]) : i # j => pool'[q][i] # pool'[q][j]
             /\ \A u \in Runs : pool'[q][i] # conn'[u]
  <2>1. CASE q = p
    <3>1. i \in 1 .. Len(rest) /\ pool'[q] = rest
      BY <1>7, <1>9, <2>1
    <3>2. i + 1 \in 1 .. Len(pool[p]) /\ rest[i] = pool[p][i + 1]
      BY <1>5, <3>1
    <3>3. \A j \in 1 .. Len(rest) : i # j => rest[i] # rest[j]
      BY <1>1, <1>5, <3>1, <3>2 DEF PoolInv
    <3> QED
      BY <1>1, <1>6, <1>8, <2>1, <3>1, <3>2, <3>3 DEF PoolInv
  <2>2. CASE q # p
    <3>1. pool'[q] = pool[q]
      BY <1>7, <2>2
    <3>2. pool[q][i] # c
      BY <1>4, <1>9, <2>2, <3>1 DEF PoolInv
    <3> QED
      BY <1>8, <1>9, <3>1, <3>2 DEF PoolInv
  <2> QED
    BY <2>1, <2>2
<1> QED
  BY <1>1, <1>2, <1>4, <1>7, <1>8, <1>9 DEF p, PoolInv

(* What the connection handed out held before the server saw it close is   *)
(* free; every other lock stays as it is.                                  *)
LEMMA RefreshedLocks ==
  ASSUME TypeOK, LockInv, NEW c \in Conns
  PROVE  /\ Refreshed(c) \in [Jobs -> Locks]
         /\ \A j \in Jobs : Refreshed(c)[j].holder = Null <=> Refreshed(c)[j].depth = 0
         /\ \A j \in Jobs : lock[j].holder # c => Refreshed(c)[j] = lock[j]
         /\ \A j \in Jobs : Refreshed(c)[j] # lock[j] => Refreshed(c)[j] = Free
<1>1. lock \in [Jobs -> Locks] /\ Free \in Locks
  BY DEF TypeOK, Locks
<1>2. Refreshed(c) = lock \/ Refreshed(c) = Released({c})
  BY DEF Refreshed
<1>3. /\ Released({c}) \in [Jobs -> Locks]
      /\ \A j \in Jobs : Released({c})[j] = IF lock[j].holder = c THEN Free ELSE lock[j]
  BY <1>1 DEF Released
<1> QED
  BY <1>1, <1>2, <1>3 DEF LockInv

(* A run that takes a connection and leaves the locks others hold alone    *)
(* keeps the invariant, if what it does to the scrape's lock is right.     *)
LEMMA CheckoutStep ==
  ASSUME JobLockInv, NEW t \in Runs, NEW c \in Conns, Checkout(t, c), conn[t] = Null,
         NEW stage \in {"skip", "body"}, pc' = [pc EXCEPT ![t] = stage], UNCHANGED faults,
         lock' \in [Jobs -> Locks],
         \A j \in Jobs : lock'[j].holder = Null <=> lock'[j].depth = 0,
         \A u \in Runs \ {t} : conn[u] # Null /\ lock["scrape"].holder = conn[u] =>
            lock'["scrape"] = lock["scrape"],
         stage = "body" /\ JobOf[t] = "scrape" => lock'["scrape"].holder = c,
         faults = 0 /\ lock'["scrape"].holder # Null =>
            \/ lock'["scrape"] = lock["scrape"]
            \/ /\ lock'["scrape"].depth = 1 /\ lock'["scrape"].holder = c
               /\ JobOf[t] = "scrape" /\ stage = "body"
  PROVE  JobLockInv'
<1>t. TypeOK /\ ConnInv /\ PoolInv /\ LockInv /\ UseInv
  BY DEF JobLockInv
<1>1. /\ Home[c] = RunsIn[t] /\ c # Null /\ \A u \in Runs : conn[u] # c
      /\ pool' \in [Processes -> Seq(Conns)] /\ conn' \in [Runs -> Conns \cup {Null}]
      /\ conn'[t] = c /\ \A u \in Runs \ {t} : conn'[u] = conn[u]
      /\ old' \subseteq Conns /\ dead' = dead \ {c}
      /\ PoolInv'
  BY <1>t, CheckoutFree
<1>2. pc'[t] = stage /\ \A u \in Runs \ {t} : pc'[u] = pc[u]
  BY <1>t DEF TypeOK
<1>3. TypeOK'
  BY <1>t, <1>1 DEF TypeOK
<1>4. ConnInv'
  <2>1. ASSUME NEW u \in Runs
        PROVE  (conn[u] # Null <=> Holds(u))' /\ (conn[u] # Null => Home[conn[u]] = RunsIn[u])'
    BY <1>t, <1>1, <1>2 DEF ConnInv, Holds
  <2>2. ASSUME NEW u \in Runs, NEW v \in Runs, u # v, conn'[u] # Null
        PROVE  conn'[u] # conn'[v]
    <3>1. CASE u = t
      BY <1>1, <2>2, <3>1
    <3>2. CASE v = t
      BY <1>1, <2>2, <3>2
    <3>3. CASE u # t /\ v # t
      <4>1. conn'[u] = conn[u] /\ conn'[v] = conn[v]
        BY <1>1, <3>3
      <4> QED
        BY <1>t, <2>2, <4>1 DEF ConnInv
    <3> QED
      BY <3>1, <3>2, <3>3
  <2> QED
    BY <2>1, <2>2 DEF ConnInv
<1>5. LockInv'
  <2>1. ASSUME NEW u \in Runs, JobOf[u] = "scrape"
        PROVE  /\ pc'[u] # "between"
               /\ pc'[u] = "body" /\ conn'[u] \notin dead' => lock'["scrape"].holder = conn'[u]
    <3>1. CASE u = t
      BY <1>1, <1>2, <2>1, <3>1
    <3>2. CASE u # t
      <4>1. pc'[u] = pc[u] /\ conn'[u] = conn[u] /\ conn[u] # c
        BY <1>1, <1>2, <3>2
      <4>2. pc[u] = "body" => conn[u] # Null
        BY <1>t DEF ConnInv, Holds
      <4> QED
        BY <1>t, <1>1, <2>1, <3>2, <4>1, <4>2 DEF LockInv
    <3> QED
      BY <3>1, <3>2
  <2> QED
    BY <2>1 DEF LockInv
<1>6. UseInv'
  <2> SUFFICES ASSUME faults = 0 PROVE UseInv'
    BY DEF UseInv
  <2>1. dead' = {}
    BY <1>t, <1>1 DEF UseInv
  <2>2. ASSUME lock'["scrape"].holder # Null
        PROVE  /\ lock'["scrape"].depth = 1
               /\ \E u \in Runs : JobOf[u] = "scrape" /\ pc'[u] = "body" /\ conn'[u] = lock'["scrape"].holder
    <3>1. CASE lock'["scrape"] = lock["scrape"]
      <4>1. PICK u \in Runs : JobOf[u] = "scrape" /\ pc[u] = "body" /\ conn[u] = lock["scrape"].holder
        BY <1>t, <2>2, <3>1 DEF UseInv
      <4>2. u # t
        BY <2>2, <3>1, <4>1
      <4> QED
        BY <1>t, <1>1, <1>2, <2>2, <3>1, <4>1, <4>2 DEF UseInv
    <3>2. CASE lock'["scrape"] # lock["scrape"]
      BY <1>1, <1>2, <2>2, <3>2
    <3> QED
      BY <3>1, <3>2
  <2> QED
    BY <2>1, <2>2 DEF UseInv
<1> QED
  BY <1>1, <1>3, <1>4, <1>5, <1>6 DEF JobLockInv

(* A connection that is given back is nobody's, and idle in one place.     *)
LEMMA CheckinFree ==
  ASSUME TypeOK, ConnInv, PoolInv, NEW t \in Runs, conn[t] # Null, Checkin(t)
  PROVE  /\ pool' \in [Processes -> Seq(Conns)] /\ conn' \in [Runs -> Conns \cup {Null}]
         /\ conn'[t] = Null /\ \A u \in Runs \ {t} : conn'[u] = conn[u]
         /\ PoolInv'
<1> DEFINE p == RunsIn[t]
           c == conn[t]
<1>1. /\ p \in Processes /\ pool[p] \in Seq(Conns) /\ c \in Conns /\ Home[c] = p
      /\ conn \in [Runs -> Conns \cup {Null}] /\ pool \in [Processes -> Seq(Conns)]
  BY DEF TypeOK, ConnInv
<1>2. /\ pool' = [pool EXCEPT ![p] = Append(pool[p], c)] /\ conn' = [conn EXCEPT ![t] = Null]
      /\ \A u \in Runs \ {t} : conn[u] # c
      /\ \A i \in 1 .. Len(pool[p]) : pool[p][i] # c
  BY <1>1 DEF Checkin, ConnInv, PoolInv
<1> HIDE DEF p, c
<1>3. /\ Append(pool[p], c) \in Seq(Conns) /\ Len(Append(pool[p], c)) = Len(pool[p]) + 1
      /\ Append(pool[p], c)[Len(pool[p]) + 1] = c
      /\ \A i \in 1 .. Len(pool[p]) : Append(pool[p], c)[i] = pool[p][i]
  BY <1>1
<1>4. /\ pool'[p] = Append(pool[p], c) /\ \A q \in Processes \ {p} : pool'[q] = pool[q]
      /\ pool' \in [Processes -> Seq(Conns)]
  BY <1>1, <1>2, <1>3
<1>5. /\ conn'[t] = Null /\ \A u \in Runs \ {t} : conn'[u] = conn[u]
      /\ conn' \in [Runs -> Conns \cup {Null}]
  BY <1>1, <1>2
<1>6. ASSUME NEW q \in Processes, NEW i \in 1 .. Len(pool'[q])
      PROVE  /\ Home[pool'[q][i]] = q
             /\ \A j \in 1 .. Len(pool'[q]) : i # j => pool'[q][i] # pool'[q][j]
             /\ \A u \in Runs : pool'[q][i] # conn'[u]
  <2>1. CASE q = p
    <3>1. Len(pool'[q]) = Len(pool[p]) + 1 /\ Len(pool[p]) \in Nat
      BY <1>1, <1>3, <1>4, <2>1
    <3>2. CASE i = Len(pool[p]) + 1
      BY <1>1, <1>2, <1>3, <1>4, <1>5, <2>1, <3>1, <3>2
    <3>3. CASE i \in 1 .. Len(pool[p])
      <4>1. pool'[q][i] = pool[p][i] /\ pool[p][i] # c /\ pool[p][i] \in Conns
        BY <1>1, <1>2, <1>3, <1>4, <2>1, <3>3
      <4>2. ASSUME NEW j \in 1 .. Len(pool'[q]), i # j
            PROVE  pool'[q][i] # pool'[q][j]
        <5>1. CASE j = Len(pool[p]) + 1
          BY <1>3, <1>4, <2>1, <4>1, <5>1
        <5>2. CASE j \in 1 .. Len(pool[p])
          <6>1. pool'[q][j] = pool[p][j]
            BY <1>3, <1>4, <2>1, <5>2
          <6> QED
            BY <1>1, <3>3, <4>1, <4>2, <5>2, <6>1 DEF PoolInv
        <5> QED
          BY <3>1, <4>2, <5>1, <5>2
      <4> QED
        BY <1>1, <1>5, <2>1, <3>3, <4>1, <4>2 DEF PoolInv
    <3> QED
      BY <1>6, <3>1, <3>2, <3>3
  <2>2. CASE q # p
    <3>1. pool'[q] = pool[q]
      BY <1>4, <2>2
    <3>2. pool[q][i] \in Conns
      BY <1>1, <1>6, <3>1
    <3> QED
      BY <1>5, <1>6, <3>1, <3>2 DEF PoolInv
  <2> QED
    BY <2>1, <2>2
<1> QED
  BY <1>4, <1>5, <1>6 DEF PoolInv

LEMMA CheckinStep ==
  ASSUME JobLockInv, NEW t \in Runs, conn[t] # Null, Checkin(t),
         NEW stage \in {"between", "idle"}, pc' = [pc EXCEPT ![t] = stage],
         UNCHANGED <<old, dead, lock>>, faults' \in 0 .. MaxFaults, faults' >= faults,
         stage = "between" => JobOf[t] # "scrape",
         \/ stage = "between" \/ pc[t] # "body" \/ faults' > 0
  PROVE  JobLockInv'
<1>t. TypeOK /\ ConnInv /\ PoolInv /\ LockInv /\ UseInv
  BY DEF JobLockInv
<1>1. /\ pool' \in [Processes -> Seq(Conns)] /\ conn' \in [Runs -> Conns \cup {Null}]
      /\ conn'[t] = Null /\ \A u \in Runs \ {t} : conn'[u] = conn[u]
      /\ PoolInv'
  BY <1>t, CheckinFree
<1>2. pc'[t] = stage /\ \A u \in Runs \ {t} : pc'[u] = pc[u]
  BY <1>t DEF TypeOK
<1>3. TypeOK'
  BY <1>t, <1>1 DEF TypeOK
<1>4. ConnInv'
  <2>1. ASSUME NEW u \in Runs
        PROVE  (conn[u] # Null <=> Holds(u))' /\ (conn[u] # Null => Home[conn[u]] = RunsIn[u])'
    <3>1. CASE u = t
      BY <1>1, <1>2, <3>1 DEF Holds
    <3>2. CASE u # t
      <4>1. conn'[u] = conn[u] /\ pc'[u] = pc[u]
        BY <1>1, <1>2, <3>2
      <4> QED
        BY <1>t, <4>1 DEF ConnInv, Holds
    <3> QED
      BY <3>1, <3>2
  <2>2. ASSUME NEW u \in Runs, NEW v \in Runs, u # v, conn'[u] # Null
        PROVE  conn'[u] # conn'[v]
    <3>1. u # t /\ conn'[u] = conn[u]
      <4>1. conn'[t] = Null
        BY <1>1
      <4>2. u # t
        BY <2>2, <4>1
      <4> QED
        BY <1>1, <4>2
    <3>2. conn[u] # conn[v]
      BY <1>t, <2>2, <3>1 DEF ConnInv
    <3>3. conn'[v] \in {Null, conn[v]}
      BY <1>1
    <3> QED
      BY <2>2, <3>1, <3>2, <3>3
  <2> QED
    BY <2>1, <2>2 DEF ConnInv
<1>5. LockInv'
  <2>1. ASSUME NEW u \in Runs, JobOf[u] = "scrape"
        PROVE  /\ pc'[u] # "between"
               /\ pc'[u] = "body" /\ conn'[u] \notin dead' => lock'["scrape"].holder = conn'[u]
    BY <1>t, <1>1, <1>2, <2>1 DEF LockInv
  <2> QED
    BY <1>t, <2>1 DEF LockInv
<1>6. UseInv'
  <2> SUFFICES ASSUME faults' = 0 PROVE UseInv'
    BY DEF UseInv
  <2>0. faults = 0 /\ dead' = {}
    BY <1>t DEF UseInv, TypeOK
  <2>1. ASSUME lock["scrape"].holder # Null
        PROVE  /\ lock["scrape"].depth = 1
               /\ \E u \in Runs : JobOf[u] = "scrape" /\ pc'[u] = "body" /\ conn'[u] = lock["scrape"].holder
    <3>1. PICK u \in Runs : JobOf[u] = "scrape" /\ pc[u] = "body" /\ conn[u] = lock["scrape"].holder
      BY <1>t, <2>0, <2>1 DEF UseInv
    <3>2. u # t
      BY <3>1
    <3> QED
      BY <1>t, <1>1, <1>2, <2>0, <2>1, <3>1, <3>2 DEF UseInv
  <2> QED
    BY <2>0, <2>1 DEF UseInv
<1> QED
  BY <1>1, <1>3, <1>4, <1>5, <1>6 DEF JobLockInv

-----------------------------------------------------------------------------
LEMMA AcquireSkipResume ==
  ASSUME JobLockInv, NEW t \in Runs, Acquire(t) \/ Skip(t) \/ Resume(t)
  PROVE  JobLockInv'
<1>t. TypeOK /\ ConnInv /\ LockInv /\ lock \in [Jobs -> Locks] /\ JobOf[t] \in Jobs
  BY DEF JobLockInv, TypeOK
<1>n. conn[t] = Null
  BY <1>t DEF ConnInv, Holds, Acquire, Skip, Resume
<1>1. ASSUME Acquire(t) PROVE JobLockInv'
  <2>1. PICK c \in Conns :
          /\ Checkout(t, c)
          /\ Refreshed(c)[JobOf[t]].holder \in {Null, c}
          /\ Refreshed(c)[JobOf[t]].depth < MaxDepth
          /\ lock' = [Refreshed(c) EXCEPT ![JobOf[t]] =
                        [holder |-> c, depth |-> Refreshed(c)[JobOf[t]].depth + 1]]
    BY <1>1 DEF Acquire
  <2>2. /\ pc' = [pc EXCEPT ![t] = "body"] /\ UNCHANGED faults
    BY <1>1 DEF Acquire, Goto
  <2> DEFINE held == Refreshed(c)
             mine == [holder |-> c, depth |-> held[JobOf[t]].depth + 1]
  <2>3. /\ held \in [Jobs -> Locks]
        /\ \A j \in Jobs : held[j].holder = Null <=> held[j].depth = 0
        /\ \A j \in Jobs : lock[j].holder # c => held[j] = lock[j]
        /\ \A j \in Jobs : held[j] # lock[j] => held[j] = Free
    BY <1>t, RefreshedLocks
  <2>4. \A u \in Runs : conn[u] # c
    BY <1>n, <2>1, CheckoutFree DEF JobLockInv
  <2> HIDE DEF held
  <2>5. /\ mine \in Locks /\ mine.holder = c /\ mine.depth \in 1 .. MaxDepth /\ c # Null
        /\ lock' = [held EXCEPT ![JobOf[t]] = mine]
    BY <1>t, <2>1, <2>3 DEF Locks, held
  <2> HIDE DEF mine
  <2>6. /\ lock' \in [Jobs -> Locks] /\ lock'[JobOf[t]] = mine
        /\ \A j \in Jobs \ {JobOf[t]} : lock'[j] = held[j]
    BY <1>t, <2>3, <2>5
  <2>7. \A j \in Jobs : lock'[j].holder = Null <=> lock'[j].depth = 0
    BY <2>3, <2>5, <2>6
  <2>8. ASSUME NEW u \in Runs \ {t}, conn[u] # Null, lock["scrape"].holder = conn[u]
        PROVE  lock'["scrape"] = lock["scrape"]
    <3>1. held["scrape"] = lock["scrape"] /\ held["scrape"].holder \notin {Null, c}
      BY <2>3, <2>4, <2>8
    <3>2. JobOf[t] # "scrape"
      BY <2>1, <3>1 DEF held
    <3> QED
      BY <2>6, <3>1, <3>2
  <2>9. ASSUME faults = 0, lock'["scrape"].holder # Null
        PROVE  \/ lock'["scrape"] = lock["scrape"]
               \/ /\ lock'["scrape"].depth = 1 /\ lock'["scrape"].holder = c
                  /\ JobOf[t] = "scrape"
    <3>1. lock["scrape"].holder # c
      BY <2>4, <2>5, <2>9 DEF JobLockInv, UseInv
    <3>2. held["scrape"] = lock["scrape"]
      BY <2>3, <3>1
    <3>3. CASE JobOf[t] = "scrape"
      <4>1. held["scrape"].holder = Null
        BY <2>1, <3>1, <3>2, <3>3 DEF held
      <4>2. held["scrape"].depth = 0
        BY <2>3, <4>1
      <4> QED
        BY <2>5, <2>6, <3>3, <4>2 DEF mine
    <3>4. CASE JobOf[t] # "scrape"
      BY <2>6, <3>2, <3>4
    <3> QED
      BY <3>3, <3>4
  <2>10. JobOf[t] = "scrape" => lock'["scrape"].holder = c
    BY <2>5, <2>6
  <2> QED
    BY <1>n, <2>1, <2>2, <2>6, <2>7, <2>8, <2>9, <2>10, CheckoutStep
<1>2. ASSUME Skip(t) \/ Resume(t) PROVE JobLockInv'
  <2>1. PICK c \in Conns : Checkout(t, c) /\ lock' = Refreshed(c)
    BY <1>2 DEF Skip, Resume
  <2>2. PICK stage \in {"skip", "body"} :
          /\ pc' = [pc EXCEPT ![t] = stage] /\ UNCHANGED faults
          /\ stage = "body" => pc[t] = "between"
    BY <1>2 DEF Skip, Resume, Goto
  <2>3. /\ lock' \in [Jobs -> Locks]
        /\ \A j \in Jobs : lock'[j].holder = Null <=> lock'[j].depth = 0
        /\ \A j \in Jobs : lock[j].holder # c => lock'[j] = lock[j]
        /\ \A j \in Jobs : lock'[j] # lock[j] => lock'[j] = Free
    BY <1>t, <2>1, RefreshedLocks
  <2>4. \A u \in Runs : conn[u] # c
    BY <1>n, <2>1, CheckoutFree DEF JobLockInv
  <2>5. ~(stage = "body" /\ JobOf[t] = "scrape")
    BY <1>t, <2>2 DEF LockInv
  <2>6. lock'["scrape"].holder # Null => lock'["scrape"] = lock["scrape"]
    BY <2>3
  <2>7. \A u \in Runs \ {t} : conn[u] # Null /\ lock["scrape"].holder = conn[u] =>
          lock'["scrape"] = lock["scrape"]
    BY <2>3, <2>4
  <2> QED
    BY <1>n, <2>1, <2>2, <2>3, <2>5, <2>6, <2>7, CheckoutStep
<1> QED
  BY <1>1, <1>2

LEMMA CommitCloseFail ==
  ASSUME JobLockInv, NEW t \in Runs, Commit(t) \/ Close(t) \/ FailBody(t)
  PROVE  JobLockInv'
<1>t. TypeOK /\ ConnInv /\ UseInv
  BY DEF JobLockInv
<1>1. conn[t] # Null
  BY <1>t DEF ConnInv, Holds, Commit, Close, FailBody
<1>2. CASE Commit(t)
  <2>1. /\ Checkin(t) /\ pc' = [pc EXCEPT ![t] = "between"] /\ UNCHANGED <<old, dead, lock>>
        /\ JobOf[t] # "scrape"
    BY <1>2 DEF Commit, Goto
  <2>2. faults' \in 0 .. MaxFaults /\ faults' >= faults
    BY <1>t, <1>2 DEF Commit, TypeOK
  <2> QED
    BY <1>1, <2>1, <2>2, CheckinStep
<1>3. CASE Close(t)
  <2>1. /\ Checkin(t) /\ pc' = [pc EXCEPT ![t] = "idle"] /\ UNCHANGED <<old, dead, lock>>
        /\ pc[t] # "body"
    BY <1>3 DEF Close, Goto
  <2>2. faults' \in 0 .. MaxFaults /\ faults' >= faults
    BY <1>t, <1>3 DEF Close, TypeOK
  <2> QED
    BY <1>1, <2>1, <2>2, CheckinStep
<1>4. CASE FailBody(t)
  <2>1. faults' \in 0 .. MaxFaults /\ faults' >= faults /\ faults' > 0
    BY <1>t, <1>4 DEF FailBody, TypeOK, UseInv
  <2> QED
    BY <1>1, <1>4, <2>1, CheckinStep DEF FailBody, Goto
<1> QED
  BY <1>2, <1>3, <1>4

LEMMA UnlockKeeps ==
  ASSUME JobLockInv, NEW t \in Runs, Unlock(t)
  PROVE  JobLockInv'
<1>t. TypeOK /\ ConnInv /\ PoolInv /\ LockInv /\ UseInv /\ lock \in [Jobs -> Locks] /\ JobOf[t] \in Jobs
  BY DEF JobLockInv, TypeOK
<1>1. /\ pc[t] = "body" /\ conn[t] \notin dead /\ conn[t] # Null
      /\ pc' = [pc EXCEPT ![t] = "unlocked"] /\ UNCHANGED <<conn, pool, old, dead, faults>>
  BY <1>t DEF Unlock, Goto, ConnInv, Holds
<1>2. pc'[t] = "unlocked" /\ \A u \in Runs \ {t} : pc'[u] = pc[u]
  BY <1>1, <1>t DEF TypeOK
<1> DEFINE held == lock[JobOf[t]]
           less == IF held.depth = 1 THEN Free ELSE [held EXCEPT !.depth = held.depth - 1]
<1>3. lock' = IF held.holder # conn[t] THEN lock ELSE [lock EXCEPT ![JobOf[t]] = less]
  BY DEF Unlock
<1>4. held \in Locks /\ (held.holder = Null <=> held.depth = 0)
  BY <1>t DEF LockInv
<1> HIDE DEF held
<1>5. held.holder = conn[t] =>
        /\ less \in Locks /\ (less.holder = Null <=> less.depth = 0)
        /\ held.depth = 1 => less.holder = Null
  BY <1>1, <1>4 DEF Locks
<1> HIDE DEF less
<1>6. /\ lock' \in [Jobs -> Locks]
      /\ \A j \in Jobs : lock'[j].holder = Null <=> lock'[j].depth = 0
      /\ \A j \in Jobs : lock[j].holder # conn[t] => lock'[j] = lock[j]
  BY <1>t, <1>3, <1>4, <1>5 DEF LockInv, held
<1>7. TypeOK'
  BY <1>t, <1>1, <1>6 DEF TypeOK
<1>8. ConnInv' /\ PoolInv'
  BY <1>t, <1>1, <1>2 DEF ConnInv, PoolInv, Holds
<1>9. LockInv'
  <2>1. ASSUME NEW u \in Runs, JobOf[u] = "scrape"
        PROVE  /\ pc'[u] # "between"
               /\ pc'[u] = "body" /\ conn'[u] \notin dead' => lock'["scrape"].holder = conn'[u]
    <3>1. CASE u = t
      BY <1>2, <3>1
    <3>2. CASE u # t
      <4>1. pc[u] = "body" => conn[u] # Null /\ conn[u] # conn[t]
        BY <1>t, <3>2 DEF ConnInv, Holds
      <4> QED
        BY <1>t, <1>1, <1>2, <1>6, <2>1, <3>2, <4>1 DEF LockInv
    <3> QED
      BY <3>1, <3>2
  <2> QED
    BY <1>6, <2>1 DEF LockInv
<1>10. UseInv'
  <2> SUFFICES ASSUME faults = 0 PROVE UseInv'
    BY <1>1 DEF UseInv
  <2>0. dead' = {}
    BY <1>t, <1>1 DEF UseInv
  <2>1. ASSUME lock'["scrape"].holder # Null
        PROVE  /\ lock'["scrape"].depth = 1
               /\ \E u \in Runs : JobOf[u] = "scrape" /\ pc'[u] = "body" /\ conn'[u] = lock'["scrape"].holder
    <3>1. CASE lock["scrape"].holder = conn[t]
      <4>1. lock["scrape"].depth = 1
        BY <1>t, <1>1, <3>1 DEF UseInv
      <4>2. PICK u \in Runs : JobOf[u] = "scrape" /\ pc[u] = "body" /\ conn[u] = conn[t]
        BY <1>t, <1>1, <3>1 DEF UseInv
      <4>3. JobOf[t] = "scrape"
        BY <1>t, <1>1, <4>2 DEF ConnInv
      <4>4. lock'["scrape"].holder = Null
        BY <1>t, <1>3, <1>5, <3>1, <4>1, <4>3 DEF held
      <4> QED
        BY <2>1, <4>4
    <3>2. CASE lock["scrape"].holder # conn[t]
      <4>1. lock'["scrape"] = lock["scrape"]
        BY <1>6, <3>2
      <4>2. PICK u \in Runs : JobOf[u] = "scrape" /\ pc[u] = "body" /\ conn[u] = lock["scrape"].holder
        BY <1>t, <2>1, <4>1 DEF UseInv
      <4>3. u # t
        BY <3>2, <4>2
      <4> QED
        BY <1>t, <1>1, <1>2, <2>1, <4>1, <4>2, <4>3 DEF UseInv
    <3> QED
      BY <3>1, <3>2
  <2> QED
    BY <2>0, <2>1 DEF UseInv
<1> QED
  BY <1>7, <1>8, <1>9, <1>10 DEF JobLockInv

LEMMA EnvironmentKeeps ==
  ASSUME JobLockInv, (\E c \in Conns : Age(c) \/ Drop(c)) \/ (\E p \in Processes : Crash(p))
  PROVE  JobLockInv'
<1>t. TypeOK /\ ConnInv /\ PoolInv /\ LockInv /\ UseInv /\ lock \in [Jobs -> Locks]
  BY DEF JobLockInv, TypeOK
<1>1. ASSUME NEW C \in SUBSET Conns
      PROVE  /\ Released(C) \in [Jobs -> Locks]
             /\ \A j \in Jobs : Released(C)[j] = IF lock[j].holder \in C THEN Free ELSE lock[j]
  BY <1>t DEF Released, Locks
<1>2. ASSUME NEW c \in Conns, Age(c) PROVE JobLockInv'
  BY <1>t, <1>2 DEF Age, JobLockInv, TypeOK, ConnInv, Holds, PoolInv, LockInv, UseInv
<1>3. ASSUME NEW c \in Conns, Drop(c) PROVE JobLockInv'
  <2>1. /\ UNCHANGED <<pc, conn, pool, old>> /\ dead' = dead \cup {c}
        /\ faults' \in 1 .. MaxFaults /\ lock' = Released({c})
    BY <1>t, <1>3 DEF Drop, TypeOK
  <2>2. /\ lock' \in [Jobs -> Locks]
        /\ \A j \in Jobs : lock'[j] = IF lock[j].holder \in {c} THEN Free ELSE lock[j]
    BY <1>1, <2>1
  <2>3. TypeOK'
    BY <1>t, <2>1, <2>2 DEF TypeOK
  <2>4. ConnInv'
    BY <1>t, <2>1 DEF ConnInv, Holds
  <2>5. PoolInv'
    BY <1>t, <2>1 DEF PoolInv
  <2>6. UseInv'
    BY <2>1 DEF UseInv
  <2>7. LockInv'
    <3>1. \A j \in Jobs : lock'[j].holder = Null <=> lock'[j].depth = 0
      BY <1>t, <2>2 DEF LockInv
    <3>2. ASSUME NEW u \in Runs, JobOf[u] = "scrape"
          PROVE  /\ pc'[u] # "between"
                 /\ pc'[u] = "body" /\ conn'[u] \notin dead' => lock'["scrape"].holder = conn'[u]
      BY <1>t, <2>1, <2>2, <3>2 DEF LockInv
    <3> QED
      BY <3>1, <3>2 DEF LockInv
  <2> QED
    BY <2>3, <2>4, <2>5, <2>6, <2>7 DEF JobLockInv
<1>4. ASSUME NEW p \in Processes, Crash(p) PROVE JobLockInv'
  <2> DEFINE gone == {c \in Conns : Home[c] = p}
  <2>1. /\ pc' = [t \in Runs |-> IF RunsIn[t] = p THEN "idle" ELSE pc[t]]
        /\ conn' = [t \in Runs |-> IF RunsIn[t] = p THEN Null ELSE conn[t]]
        /\ pool' = [pool EXCEPT ![p] = <<>>]
        /\ old' = old \ gone /\ dead' = dead \ gone /\ lock' = Released(gone)
        /\ faults' \in 1 .. MaxFaults
    BY <1>t, <1>4 DEF Crash, TypeOK
  <2>2. /\ lock' \in [Jobs -> Locks]
        /\ \A j \in Jobs : lock'[j] = IF lock[j].holder \in gone THEN Free ELSE lock[j]
    BY <1>1, <2>1
  <2>3. TypeOK'
    BY <1>t, <2>1, <2>2 DEF TypeOK
  <2>4. ConnInv'
    BY <1>t, <2>1 DEF ConnInv, Holds
  <2>5. PoolInv'
    <3>1. pool'[p] = <<>> /\ \A q \in Processes \ {p} : pool'[q] = pool[q]
      BY <1>t, <2>1 DEF TypeOK
    <3>2. \A t \in Runs : conn'[t] \in {Null, conn[t]}
      BY <2>1
    <3>3. \A q \in Processes : \A i \in 1 .. Len(pool[q]) : pool[q][i] \in Conns
      BY <1>t DEF TypeOK
    <3> QED
      BY <1>t, <3>1, <3>2, <3>3 DEF PoolInv
  <2>6. LockInv'
    <3>1. ASSUME NEW u \in Runs, JobOf[u] = "scrape"
          PROVE  /\ pc'[u] # "between"
                 /\ pc'[u] = "body" /\ conn'[u] \notin dead' => lock'["scrape"].holder = conn'[u]
      <4>1. CASE RunsIn[u] = p
        BY <2>1, <4>1
      <4>2. CASE RunsIn[u] # p
        <5>1. pc'[u] = pc[u] /\ conn'[u] = conn[u]
          BY <2>1, <4>2
        <5>2. pc[u] = "body" => conn[u] # Null /\ conn[u] \notin gone
          BY <1>t, <4>2 DEF ConnInv, Holds
        <5> QED
          BY <1>t, <2>1, <2>2, <3>1, <5>1, <5>2 DEF LockInv
      <4> QED
        BY <4>1, <4>2
    <3> QED
      BY <1>t, <2>2, <3>1 DEF LockInv
  <2>7. UseInv'
    BY <2>1 DEF UseInv
  <2> QED
    BY <2>3, <2>4, <2>5, <2>6, <2>7 DEF JobLockInv
<1> QED
  BY <1>2, <1>3, <1>4

-----------------------------------------------------------------------------
\* Whoever runs, fails, is dropped or dies: a connection is one session's or
\* idle, and the scrape's lock names the connection of the scrape.
THEOREM LockInvariant == Spec => []JobLockInv
<1>1. JobLockInv /\ [Next]_vars => JobLockInv'
  <2> SUFFICES ASSUME JobLockInv, [Next]_vars PROVE JobLockInv'
    OBVIOUS
  <2>1. CASE UNCHANGED vars
    BY <2>1 DEF vars, JobLockInv, TypeOK, ConnInv, Holds, PoolInv, LockInv, UseInv
  <2>2. ASSUME NEW t \in Runs, RunStep(t) PROVE JobLockInv'
    BY <2>2, AcquireSkipResume, CommitCloseFail, UnlockKeeps DEF RunStep
  <2> QED
    BY <2>1, <2>2, EnvironmentKeeps DEF Next
<1> QED
  BY <1>1, InitInv, PTL DEF Spec

\* Every reachable state of pool, connections and locks is well typed.
THEOREM LockTypes == Spec => []TypeOK
<1>1. JobLockInv => TypeOK
  BY DEF JobLockInv
<1> QED
  BY <1>1, LockInvariant, PTL

\* There is one scrape at a time, for any number of replicas, job slots and
\* connections, through re-entrant locks, recycling, drops and crashes.
THEOREM OneScrapeAtATime == Spec => []ScrapesExclusive
<1>1. JobLockInv => ScrapesExclusive
  <2> SUFFICES ASSUME JobLockInv, NEW t \in Runs, NEW u \in Runs, Scraping(t), Scraping(u)
               PROVE  t = u
    BY DEF ScrapesExclusive
  <2>1. pc[t] = "body" /\ pc[u] = "body"
    BY DEF JobLockInv, LockInv, Scraping, Inside
  <2>2. conn[t] = conn[u] /\ conn[t] # Null
    BY <2>1 DEF JobLockInv, LockInv, ConnInv, Scraping, Holds
  <2> QED
    BY <2>2 DEF JobLockInv, ConnInv
<1> QED
  BY <1>1, LockInvariant, PTL

\* As long as nothing failed, a scrape turned away is turned away by a scrape.
THEOREM LockIsUsed == Spec => []ScrapeLockInUse
<1>1. JobLockInv => ScrapeLockInUse
  BY DEF JobLockInv, UseInv, ScrapeLockInUse, Inside
<1> QED
  BY <1>1, LockInvariant, PTL
=============================================================================
