----------------------------- MODULE RateLimit -----------------------------
(***************************************************************************)
(* RateLimitMiddleware of one API container: the times of the requests     *)
(* let through in the last Window, for each client and path.  dispatch has *)
(* no await before it hands the request on, so a decision is one step.     *)
(*                                                                         *)
(* Time is counted in ticks, PerSecond of them to a second: the clock is   *)
(* finer than the whole seconds of Retry-After.                            *)
(***************************************************************************)
EXTENDS Integers, Sequences, SequencesExt, FiniteSets

CONSTANTS
  PerSecond,
  WindowSeconds,
  Limit,       \* rate_limit_auth_per_minute
  PruneAt,     \* keys held before idle ones are dropped
  MaxTime      \* bound of the clock

ASSUME RateLimitAssumption ==
  /\ {PerSecond, WindowSeconds, Limit, PruneAt} \subseteq Nat \ {0}
  /\ MaxTime \in Nat

VARIABLES
  now,
  hits,        \* key -> times, oldest first
  admitted     \* history: key -> every time it was let through

limitVars == <<now, hits, admitted>>

Window == PerSecond * WindowSeconds

LimitInit ==
  /\ now = 0
  /\ hits = [key \in {} |-> <<>>]
  /\ admitted = [key \in {} |-> <<>>]

Of(times, key) == IF key \in DOMAIN times THEN times[key] ELSE <<>>

Expired(t) == now - t > Window

\* Hits leave from the front until one is recent enough.
Stops(queue) ==
  {n \in 0..Len(queue) : /\ \A i \in 1..n : Expired(queue[i])
                         /\ n < Len(queue) => ~Expired(queue[n + 1])}

Gone(queue) == CHOOSE n \in Stops(queue) : TRUE

Live(key) == SubSeq(Of(hits, key), Gone(Of(hits, key)) + 1, Len(Of(hits, key)))

HasRoom(key) == Len(Live(key)) < Limit

\* Rounded down, an answer may come back up to a second early.
floor_only(key) == (Window - (now - Head(Live(key)))) \div PerSecond

retry_after(key) == (Window - (now - Head(Live(key)))) \div PerSecond + 1

\* A full dictionary is emptied.
clear(h) ==
  IF Cardinality(DOMAIN h) < PruneAt THEN h ELSE [key \in {} |-> <<>>]

_prune(h) ==
  IF Cardinality(DOMAIN h) < PruneAt THEN h
  ELSE LET kept == {key \in DOMAIN h : h[key] # <<>> /\ ~Expired(Last(h[key]))}
       IN  [key \in kept |-> h[key]]

With(times, key, value) ==
  [k \in DOMAIN times \union {key} |-> IF k = key THEN value ELSE times[k]]

Admit(key) ==
  /\ HasRoom(key)
  /\ hits' = _prune(With(hits, key, Append(Live(key), now)))
  /\ admitted' = With(admitted, key, Append(Of(admitted, key), now))
  /\ UNCHANGED now

\* A refused request is not counted.
Refuse(key) ==
  /\ ~HasRoom(key)
  /\ hits' = With(hits, key, Live(key))
  /\ UNCHANGED <<now, admitted>>

Tick ==
  /\ now < MaxTime
  /\ now' = now + 1
  /\ UNCHANGED <<hits, admitted>>

-----------------------------------------------------------------------------
\* No span of a whole window holds more than Limit requests that were let
\* through for one client and path, whatever was pruned in between
\* (RateLimitMiddleware.dispatch and _prune).
WindowRespected ==
  \A key \in DOMAIN admitted :
    \A i \in 1..(Len(admitted[key]) - Limit) : admitted[key][i + Limit] - admitted[key][i] > Window
=============================================================================
