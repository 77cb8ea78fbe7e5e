-------------------------- MODULE OutboundProofs --------------------------
(***************************************************************************)
(* Proofs about what the worker sends out: the GETs of a scrape, for any   *)
(* retries, answers and confidences, and the POSTs of an alert, for any    *)
(* devices, provider and channel.                                          *)
(***************************************************************************)
EXTENDS Outbound, SequenceTheorems, WellFoundedInduction, TLAPS

USE FetchAssumption

Sources == {"feed", "page"}

\* The record of a fetch.  How long it slept does not matter.
FetchRecords(slept, url) ==
  [step : {"get", "sleep", "extract", "done"}, source : Sources, attempt : Nat \ {0},
   slept : {slept}, url : {url}, feed : Confidences \union {-1}, found : BOOLEAN, page : Confidences \union {-1},
   result : {"none", "failed", "unexpected"} \union Sources]

FetchTypes ==
  /\ fetch \in FetchRecords(fetch.slept, fetch.url)
  /\ replies \in [Sources -> Seq(Nat)]

\* The reply that ended a URL, or is being read, is the last one of its source.
RetryInv ==
  /\ fetch.attempt <= attempts
  /\ fetch.step = "sleep" => fetch.attempt < attempts
  /\ fetch.step = "get" => Len(replies[fetch.source]) = fetch.attempt - 1
  /\ fetch.step \in {"sleep", "extract"} => Len(replies[fetch.source]) = fetch.attempt
  /\ \A s \in Sources : Len(replies[s]) <= attempts
  /\ \A s \in Sources : \A i \in 1..Len(replies[s]) :
       i < Len(replies[s]) \/ (s = fetch.source /\ fetch.step \in {"get", "sleep"}) => Transient(replies[s][i])
  /\ fetch.source = "feed" => replies["page"] = <<>>

\* The feed was read, found to hold records and understood.
Trusted == fetch.found /\ fetch.feed >= MinConfidence

\* What is known of the two sources when the page is asked for.
SourceInv ==
  /\ fetch.source = "page" => replies["feed"] # <<>>
  /\ fetch.step # "done" => fetch.result = "none" /\ fetch.page = -1
  /\ fetch.step # "done" /\ fetch.source = "feed" => fetch.feed = -1
  /\ fetch.step # "done" => ~Trusted
  /\ SourceChosen

FetchInv == FetchTypes /\ RetryInv /\ SourceInv /\ ReportOfTheYear

-----------------------------------------------------------------------------
LEMMA FinancialYear ==
  ASSUME NEW date, date.year \in Nat, date.month \in 1..12
  PROVE  LET fy == financial_year(date)
             m == 12 * date.year + date.month
         IN  /\ m \in (12 * fy[1] + 4)..(12 * (fy[1] + 1) + 3)
             /\ fy[2] = (fy[1] + 1) % 100
<1>1. CASE date.month >= 4
  BY <1>1 DEF financial_year
<1>2. CASE ~(date.month >= 4)
  <2>1. financial_year(date) = <<date.year - 1, date.year % 100>>
    BY <1>2 DEF financial_year
  <2>2. (date.year - 1) + 1 = date.year
    OBVIOUS
  <2> QED
    BY <1>2, <2>1, <2>2
<1> QED
  BY <1>1, <1>2

LEMMA FetchInitInv == FetchInit => FetchInv
<1> SUFFICES ASSUME FetchInit PROVE FetchInv
  OBVIOUS
<1>1. PICK date \in Dates :
        fetch = [step |-> "get", source |-> "feed", attempt |-> 1, slept |-> 0,
                 url |-> [date |-> date, fy |-> financial_year(date)],
                 feed |-> -1, found |-> FALSE, page |-> -1, result |-> "none"]
  BY DEF FetchInit
<1>2. replies = [s \in Sources |-> <<>>]
  BY DEF FetchInit, Sources
<1>3. FetchTypes /\ RetryInv /\ SourceInv
  BY <1>1, <1>2 DEF FetchTypes, FetchRecords, RetryInv, SourceInv, Trusted, SourceChosen, Sources, attempts
<1>4. ReportOfTheYear
  BY <1>1, FinancialYear DEF ReportOfTheYear
<1> QED
  BY <1>3, <1>4 DEF FetchInv

(* On to the page.                                                         *)
LEMMA TurnedPage ==
  ASSUME NEW slept, NEW url, NEW f \in FetchRecords(slept, url)
  PROVE  LET g == [f EXCEPT !.source = "page", !.attempt = 1, !.step = "get"]
         IN  g \in FetchRecords(g.slept, g.url)
<1> DEFINE f1 == [f EXCEPT !.source = "page"]
           f2 == [f1 EXCEPT !.attempt = 1]
           f3 == [f2 EXCEPT !.step = "get"]
<1>1. f1 \in FetchRecords(slept, url)
  BY DEF FetchRecords, Sources
<1>2. f2 \in FetchRecords(slept, url)
  <2> HIDE DEF f1
  <2> QED
    BY <1>1 DEF FetchRecords
<1>3. f3 \in FetchRecords(slept, url)
  <2> HIDE DEF f2
  <2> QED
    BY <1>2 DEF FetchRecords
<1>4. f3.slept = slept /\ f3.url = url
  <2> HIDE DEF f3
  <2> QED
    BY <1>3 DEF FetchRecords
<1> QED
  BY <1>3, <1>4

(* The history after a GET, whatever becomes of the fetch.                 *)
LEMMA Asked ==
  ASSUME FetchInv, NEW reply \in Statuses \union {0}, Get(reply)
  PROVE  /\ fetch.step = "get" /\ replies' \in [Sources -> Seq(Nat)]
         /\ \A s \in Sources : s # fetch.source => replies'[s] = replies[s]
         /\ Len(replies'[fetch.source]) = fetch.attempt
         /\ replies'[fetch.source][fetch.attempt] = reply
         /\ \A s \in Sources : replies[s] # <<>> => replies'[s] # <<>>
         /\ \A s \in Sources : Len(replies'[s]) <= attempts /\ Len(replies'[s]) \in Nat
         /\ \A s \in Sources : \A i \in 1..Len(replies'[s]) :
              i < Len(replies'[s]) => Transient(replies'[s][i])
<1> DEFINE s == fetch.source
<1>1. /\ fetch.step = "get" /\ s \in Sources /\ Len(replies[s]) = fetch.attempt - 1
      /\ replies \in [Sources -> Seq(Nat)] /\ fetch.attempt \in Nat /\ reply \in Nat /\ attempts \in Nat
      /\ replies' = [replies EXCEPT ![s] = Append(@, reply)] /\ fetch.attempt <= attempts
  BY DEF FetchInv, Get, FetchTypes, FetchRecords, RetryInv, attempts
<1>2. \A u \in Sources : Len(replies[u]) <= attempts
  BY DEF FetchInv, RetryInv
<1>3. \A u \in Sources : \A i \in 1..Len(replies[u]) :
        i < Len(replies[u]) \/ u = s => Transient(replies[u][i])
  BY <1>1 DEF FetchInv, RetryInv
<1> HIDE DEF s
<1>4. /\ replies' \in [Sources -> Seq(Nat)]
      /\ \A u \in Sources : u # s => replies'[u] = replies[u]
      /\ replies'[s] = Append(replies[s], reply)
  BY <1>1
<1>5. replies[s] \in Seq(Nat)
  BY <1>1
<1>6. /\ Len(replies'[s]) = fetch.attempt
      /\ replies'[s][fetch.attempt] = reply
      /\ \A i \in 1..(fetch.attempt - 1) : replies'[s][i] = replies[s][i]
  BY <1>1, <1>4, <1>5
<1>7. ASSUME NEW u \in Sources
      PROVE  /\ Len(replies'[u]) <= attempts /\ Len(replies'[u]) \in Nat /\ (replies[u] # <<>> => replies'[u] # <<>>)
             /\ \A i \in 1..Len(replies'[u]) : i < Len(replies'[u]) => Transient(replies'[u][i])
  <2>1. CASE u = s
    BY <1>1, <1>3, <1>4, <1>5, <1>6, <2>1
  <2>2. CASE u # s
    BY <1>2, <1>3, <1>4, <2>2
  <2> QED
    BY <2>1, <2>2
<1> QED
  BY <1>1, <1>4, <1>6, <1>7 DEF s

LEMMA GetInv ==
  ASSUME FetchInv, NEW reply \in Statuses \union {0}, Get(reply)
  PROVE  FetchTypes' /\ RetryInv' /\ SourceInv'
<1>0. /\ fetch.step = "get" /\ replies' \in [Sources -> Seq(Nat)]
      /\ \A s \in Sources : s # fetch.source => replies'[s] = replies[s]
      /\ Len(replies'[fetch.source]) = fetch.attempt
      /\ replies'[fetch.source][fetch.attempt] = reply
      /\ \A s \in Sources : replies[s] # <<>> => replies'[s] # <<>>
      /\ \A s \in Sources : Len(replies'[s]) <= attempts /\ Len(replies'[s]) \in Nat
      /\ \A s \in Sources : \A i \in 1..Len(replies'[s]) :
           i < Len(replies'[s]) => Transient(replies'[s][i])
  BY Asked
<1>1. /\ FetchTypes /\ fetch.source \in Sources /\ fetch.attempt \in Nat \ {0} /\ fetch.attempt <= attempts /\ (fetch.source = "feed" => replies["page"] = <<>>)
      /\ fetch.step = "get" /\ attempts \in Nat \ {0} /\ replies' \in [Sources -> Seq(Nat)]
  BY SMTT(20), <1>0 DEF FetchInv, RetryInv, attempts, FetchTypes, FetchRecords
<1>2. /\ fetch.page = -1 /\ fetch.result = "none" /\ (fetch.source = "feed" => fetch.feed = -1)
      /\ (fetch.source = "page" => replies'["feed"] # <<>>) /\ ~Trusted
  BY <1>0, <1>1 DEF FetchInv, SourceInv, Sources
<1>3. replies'[fetch.source] # <<>>
  BY <1>0, <1>1 DEF FetchTypes, FetchRecords
<1>4. CASE IsSuccess(reply)
  <2>1. fetch' = [fetch EXCEPT !.step = "extract"]
    BY <1>4 DEF Get
  <2>2. FetchTypes'
    BY <1>0, <1>1, <2>1 DEF FetchTypes, FetchRecords
  <2>3. fetch'.step = "extract" /\ fetch'.source = fetch.source /\ fetch'.attempt = fetch.attempt
    BY <1>0, <1>1, <2>1 DEF FetchTypes, FetchRecords
  <2>4. RetryInv'
    BY <1>0, <1>1, <2>3 DEF RetryInv, Sources
  <2>5. fetch'.result = "none" /\ fetch'.page = -1 /\ fetch'.feed = fetch.feed /\ fetch'.found = fetch.found
    BY <1>0, <1>1, <1>2, <2>1 DEF FetchTypes, FetchRecords
  <2> QED
    BY <1>0, <1>1, <1>2, <2>2, <2>3, <2>4, <2>5 DEF SourceInv, SourceChosen, Trusted
<1>5. CASE ~IsSuccess(reply) /\ Transient(reply) /\ fetch.attempt < attempts
  <2>1. fetch' = [fetch EXCEPT !.step = "sleep"]
    BY <1>5 DEF Get
  <2>2. FetchTypes'
    BY <1>0, <1>1, <2>1 DEF FetchTypes, FetchRecords
  <2>3. fetch'.step = "sleep" /\ fetch'.source = fetch.source /\ fetch'.attempt = fetch.attempt
    BY <1>0, <1>1, <2>1 DEF FetchTypes, FetchRecords
  <2>4. ASSUME NEW i \in 1..Len(replies'[fetch.source]) PROVE Transient(replies'[fetch.source][i])
    BY <1>0, <1>1, <1>5
  <2>5. RetryInv'
    BY <1>0, <1>1, <1>5, <2>3, <2>4 DEF RetryInv, Sources
  <2>6. fetch'.result = "none" /\ fetch'.page = -1 /\ fetch'.feed = fetch.feed /\ fetch'.found = fetch.found
    BY <1>0, <1>1, <1>2, <2>1 DEF FetchTypes, FetchRecords
  <2> QED
    BY <1>0, <1>1, <1>2, <2>2, <2>3, <2>5, <2>6 DEF SourceInv, SourceChosen, Trusted
<1>6. CASE ~IsSuccess(reply) /\ ~(Transient(reply) /\ fetch.attempt < attempts) /\ fetch.source = "feed"
  <2>1. fetch' = [fetch EXCEPT !.source = "page", !.attempt = 1, !.step = "get"]
    BY <1>6 DEF Get, Fails
  <2>2. replies'["page"] = <<>> /\ Len(<<>>) = 0
    BY <1>0, <1>1, <1>6 DEF Sources
  <2>3. FetchTypes'
    BY <1>1, <2>1, TurnedPage DEF FetchTypes
  <2>4. fetch'.step = "get" /\ fetch'.source = "page" /\ fetch'.attempt = 1
    BY <1>0, <1>1, <2>1 DEF FetchTypes, FetchRecords
  <2>5. RetryInv'
    BY <1>0, <1>1, <2>2, <2>4 DEF RetryInv, Sources
  <2>6. fetch'.result = "none" /\ fetch'.page = -1 /\ fetch'.feed = fetch.feed /\ fetch'.found = fetch.found
    BY <1>0, <1>1, <1>2, <2>1 DEF FetchTypes, FetchRecords
  <2> QED
    BY <1>0, <1>1, <1>2, <1>3, <1>6, <2>3, <2>4, <2>5, <2>6 DEF SourceInv, SourceChosen, Trusted
<1>7. CASE ~IsSuccess(reply) /\ ~(Transient(reply) /\ fetch.attempt < attempts) /\ fetch.source # "feed"
  <2>1. fetch' = [fetch EXCEPT !.step = "done", !.result = "failed"] /\ fetch.source = "page"
    BY <1>0, <1>1, <1>7 DEF Get, Fails, FetchTypes, FetchRecords, Sources
  <2>2. FetchTypes'
    BY <1>0, <1>1, <2>1 DEF FetchTypes, FetchRecords
  <2>3. fetch'.step = "done" /\ fetch'.source = "page" /\ fetch'.attempt = fetch.attempt /\ fetch'.result = "failed"
        /\ fetch'.feed = fetch.feed /\ fetch'.found = fetch.found
    BY <1>0, <1>1, <2>1 DEF FetchTypes, FetchRecords
  <2>4. RetryInv'
    BY <1>0, <1>1, <2>3 DEF RetryInv, Sources
  <2> QED
    BY <1>0, <1>1, <1>2, <1>3, <2>1, <2>2, <2>3, <2>4 DEF SourceInv, SourceChosen, Trusted
<1> QED
  BY <1>4, <1>5, <1>6, <1>7

LEMMA SleepInv ==
  ASSUME FetchInv, Sleep
  PROVE  FetchTypes' /\ RetryInv' /\ SourceInv'
<1>1. /\ fetch.step = "sleep" /\ replies' = replies /\ FetchTypes
      /\ fetch' = [fetch EXCEPT !.step = "get", !.attempt = @ + 1, !.slept = @ + Doubling(fetch.attempt)]
  BY DEF FetchInv, Sleep
<1>2. FetchTypes'
  <2> DEFINE f1 == [fetch EXCEPT !.step = "get"]
             f2 == [f1 EXCEPT !.attempt = @ + 1]
             s2 == fetch.slept + Doubling(fetch.attempt)
             f3 == [f2 EXCEPT !.slept = s2]
  <2>1. f1 \in FetchRecords(fetch.slept, fetch.url)
    BY <1>1 DEF FetchTypes, FetchRecords
  <2>2. f2 \in FetchRecords(fetch.slept, fetch.url)
    <3> HIDE DEF f1
    <3> QED
      BY <2>1 DEF FetchRecords
  <2>3. f3 \in FetchRecords(s2, fetch.url)
    <3> HIDE DEF f2, s2
    <3> QED
      BY <2>2 DEF FetchRecords
  <2>4. f3.slept = s2 /\ f3.url = fetch.url
    <3> HIDE DEF f3, s2
    <3> QED
      BY <2>3 DEF FetchRecords
  <2>5. fetch' = f3
    BY <1>1 DEF FetchTypes, FetchRecords
  <2> HIDE DEF f3
  <2> QED
    BY <1>1, <2>3, <2>4, <2>5 DEF FetchTypes
<1>3. /\ fetch'.step = "get" /\ fetch'.source = fetch.source /\ fetch'.attempt = fetch.attempt + 1
      /\ fetch'.result = fetch.result /\ fetch'.page = fetch.page /\ fetch'.feed = fetch.feed
      /\ fetch'.found = fetch.found
  BY <1>1 DEF FetchTypes, FetchRecords
<1>4. RetryInv'
  BY <1>1, <1>3 DEF FetchInv, FetchTypes, FetchRecords, RetryInv, attempts
<1> QED
  BY <1>1, <1>2, <1>3, <1>4 DEF FetchInv, SourceInv, SourceChosen, Trusted

LEMMA EscapesInv ==
  ASSUME FetchInv, Escapes
  PROVE  FetchTypes' /\ RetryInv' /\ SourceInv'
<1>1. /\ fetch.step \in {"get", "extract"} /\ replies' = replies /\ FetchTypes
      /\ fetch' = [fetch EXCEPT !.step = "done", !.result = "unexpected"]
  BY DEF FetchInv, Escapes
<1>2. FetchTypes'
  BY <1>1 DEF FetchTypes, FetchRecords
<1>3. /\ fetch'.step = "done" /\ fetch'.source = fetch.source /\ fetch'.attempt = fetch.attempt
      /\ fetch'.result = "unexpected" /\ fetch'.feed = fetch.feed /\ fetch'.found = fetch.found
  BY <1>1 DEF FetchTypes, FetchRecords
<1>4. RetryInv'
  BY <1>1, <1>3 DEF FetchInv, RetryInv
<1> QED
  BY <1>1, <1>2, <1>3, <1>4 DEF FetchInv, SourceInv, SourceChosen, Trusted

LEMMA ExtractInv ==
  ASSUME FetchInv, NEW c \in Confidences, NEW found \in BOOLEAN, Extract(c, found)
  PROVE  FetchTypes' /\ RetryInv' /\ SourceInv'
<1>1. fetch.step = "extract" /\ replies' = replies /\ fetch.page = -1 /\ c \in Nat /\ FetchTypes
      /\ (fetch.source = "page" => replies["feed"] # <<>>)
      /\ (fetch.source = "feed" => fetch.feed = -1) /\ fetch.result = "none"
      /\ ~Trusted /\ (fetch.source = "feed" => replies["page"] = <<>>)
  BY DEF Extract, FetchInv, SourceInv, RetryInv
<1>2. CASE fetch.source = "page"
  <2> DEFINE best == IF fetch.feed = -1 THEN "page" ELSE Better(fetch.feed, c)
  <2>1. fetch' = [fetch EXCEPT !.page = c, !.step = "done", !.result = best]
    BY <1>2 DEF Extract
  <2>2. best \in Sources
    BY DEF Better, Sources
  <2>3. fetch.feed \in Nat \union {-1}
    BY <1>1 DEF FetchTypes, FetchRecords
  <2>4. /\ best = "feed" => fetch.feed \in Nat /\ c <= fetch.feed
        /\ best = "page" => fetch.feed < c
    BY <1>1, <2>3 DEF Better
  <2> HIDE DEF best
  <2>5. FetchTypes'
    BY <1>1, <2>1, <2>2 DEF FetchTypes, FetchRecords
  <2>6. /\ fetch'.step = "done" /\ fetch'.source = "page" /\ fetch'.attempt = fetch.attempt
        /\ fetch'.result = best /\ fetch'.page = c /\ fetch'.feed = fetch.feed
        /\ fetch'.found = fetch.found
    BY <1>1, <1>2, <2>1 DEF FetchTypes, FetchRecords
  <2>7. RetryInv'
    BY <1>1, <1>2, <2>6 DEF FetchInv, RetryInv
  <2>8. SourceChosen'
    BY <1>1, <2>2, <2>3, <2>4, <2>6 DEF SourceChosen, Sources, Trusted
  <2> QED
    BY <1>1, <1>2, <2>5, <2>6, <2>7, <2>8 DEF SourceInv
<1>3. CASE fetch.source = "feed" /\ found /\ c >= MinConfidence
  <2>1. fetch' = [fetch EXCEPT !.feed = c, !.found = found, !.step = "done", !.result = "feed"]
    BY <1>3 DEF Extract
  <2>2. FetchTypes'
    BY <1>1, <2>1 DEF FetchTypes, FetchRecords, Sources
  <2>3. /\ fetch'.step = "done" /\ fetch'.source = "feed" /\ fetch'.attempt = fetch.attempt
        /\ fetch'.result = "feed" /\ fetch'.feed = c /\ fetch'.found = found
    BY <1>1, <1>3, <2>1 DEF FetchTypes, FetchRecords
  <2>4. RetryInv'
    BY <1>1, <1>3, <2>3 DEF FetchInv, RetryInv
  <2> QED
    BY <1>1, <1>3, <2>2, <2>3, <2>4 DEF SourceInv, SourceChosen, Trusted
<1>4. CASE fetch.source = "feed" /\ ~(found /\ c >= MinConfidence)
  <2>1. fetch' = [fetch EXCEPT !.feed = c, !.found = found, !.source = "page", !.attempt = 1, !.step = "get"]
    BY <1>4 DEF Extract
  <2>2. replies["feed"] # <<>> /\ replies["page"] = <<>> /\ Len(<<>>) = 0
    BY <1>1, <1>4 DEF FetchInv, FetchTypes, FetchRecords, RetryInv, Sources
  <2>3. FetchTypes'
    <3> DEFINE read == [fetch EXCEPT !.feed = c, !.found = found]
    <3>1. read \in FetchRecords(fetch.slept, fetch.url)
      BY <1>1 DEF FetchTypes, FetchRecords
    <3>2. fetch' = [read EXCEPT !.source = "page", !.attempt = 1, !.step = "get"]
      BY <2>1
    <3> QED
      BY <1>1, <3>1, <3>2, TurnedPage DEF FetchTypes
  <2>4. /\ fetch'.step = "get" /\ fetch'.source = "page" /\ fetch'.attempt = 1
        /\ fetch'.result = "none" /\ fetch'.page = -1 /\ fetch'.feed = c /\ fetch'.found = found
    BY <1>1, <2>1 DEF FetchTypes, FetchRecords
  <2>5. RetryInv'
    BY <1>1, <1>4, <2>2, <2>4 DEF FetchInv, RetryInv, attempts
  <2> QED
    BY <1>1, <1>4, <2>2, <2>3, <2>4, <2>5 DEF SourceInv, SourceChosen, Trusted
<1> QED
  BY <1>1, <1>2, <1>3, <1>4 DEF FetchTypes, FetchRecords, Sources

-----------------------------------------------------------------------------
HIDE FetchAssumption

(* Induction, over a set.                                                  *)
LEMMA SetInduction ==
  ASSUME NEW T, 0 \in T, \A n \in Nat : n \in T => n + 1 \in T
  PROVE  \A n \in Nat : n \in T
<1> SUFFICES ASSUME NEW x \in Nat, x \notin T PROVE FALSE
  OBVIOUS
<1>1. PICK n \in Nat \ T : \A m \in Nat \ T : <<m, n>> \notin OpToRel(<, Nat)
  <2>1. Nat \ T # {} /\ Nat \ T \subseteq Nat
    OBVIOUS
  <2> QED
    BY <2>1, NatLessThanWellFounded, WFMin
<1>2. n \in Nat /\ n \notin T /\ n # 0
  OBVIOUS
<1>3. n - 1 \in Nat /\ n - 1 < n /\ (n - 1) + 1 = n
  BY <1>2
<1>4. n - 1 \in T
  BY <1>1, <1>3 DEF OpToRel
<1> QED
  BY <1>2, <1>3, <1>4

Devices(fleet) == [token : {d.token : d \in ToSet(fleet)}, platform : {"ANDROID", "IOS", "WEB"}]

\* The devices of the channel among the first n.
Kept(fleet, channel, kept, n) ==
  IF n = 0 THEN <<>>
  ELSE IF channel = "LOG" \/ fleet[n].platform \in Platforms(channel)
       THEN Append(kept[n - 1], fleet[n]) ELSE kept[n - 1]

(* The loop over the devices has a result.                                 *)
LEMMA KeptExists ==
  ASSUME NEW fleet, NEW channel, NEW m \in Nat
  PROVE  \E kept : kept = [n \in 0..m |-> Kept(fleet, channel, kept, n)]
<1> DEFINE Loop(g, k) == g = [n \in 0..k |-> Kept(fleet, channel, g, n)]
           T == {k \in Nat : \E g : Loop(g, k)}
<1>1. 0 \in T
  <2>1. Loop([n \in 0..0 |-> <<>>], 0)
    BY DEF Kept
  <2> QED
    BY <2>1
<1>2. ASSUME NEW k \in Nat, k \in T PROVE k + 1 \in T
  <2>1. PICK g : Loop(g, k)
    BY <1>2
  <2> DEFINE h == [n \in 0..(k + 1) |-> IF n = k + 1 THEN Kept(fleet, channel, g, n) ELSE g[n]]
  <2>2. ASSUME NEW n \in 0..(k + 1) PROVE h[n] = Kept(fleet, channel, h, n)
    <3>1. CASE n = 0
      BY <2>1, <3>1 DEF Kept
    <3>2. CASE n # 0
      <4>1. n - 1 \in 0..k /\ h[n - 1] = g[n - 1]
        BY <3>2
      <4>2. h[n] = Kept(fleet, channel, g, n)
        BY <2>1
      <4> HIDE DEF h
      <4> QED
        BY <3>2, <4>1, <4>2 DEF Kept
    <3> QED
      BY <3>1, <3>2
  <2>3. h = [n \in 0..(k + 1) |-> Kept(fleet, channel, h, n)]
    <3>1. h = [n \in 0..(k + 1) |-> h[n]]
      OBVIOUS
    <3> HIDE DEF h
    <3> QED
      BY <2>2, <3>1
  <2> HIDE DEF h
  <2> QED
    BY <2>3
<1> HIDE DEF T
<1>3. m \in T
  BY <1>1, <1>2, SetInduction
<1> QED
  BY <1>3 DEF T

(* The targets are devices of the user, each once.                         *)
LEMMA Targets ==
  ASSUME NEW fleet \in Fleets, NEW channel
  PROVE  LET t == _targets_for(fleet, channel)
         IN  /\ t \in Seq(Devices(fleet))
             /\ \A i, j \in 1..Len(t) : t[i].token = t[j].token => i = j
<1>0. /\ fleet \in Seq(Devices(fleet)) /\ Len(fleet) \in Nat
      /\ \A i, j \in 1..Len(fleet) : fleet[i].token = fleet[j].token => i = j
  <2>1. fleet \in Seq(Devices(fleet)) /\ \A i, j \in DOMAIN fleet : fleet[i].token = fleet[j].token => i = j
    BY FleetAssumption DEF Devices
  <2>2. fleet \in Seq(Devices(fleet)) => Len(fleet) \in Nat /\ DOMAIN fleet = 1..Len(fleet)
    BY LenProperties
  <2> QED
    BY <2>1, <2>2
<1> DEFINE kept == CHOOSE g : g = [n \in 0..Len(fleet) |-> Kept(fleet, channel, g, n)]
<1>1. kept = [n \in 0..Len(fleet) |-> Kept(fleet, channel, kept, n)]
  BY SMTT(20), <1>0, KeptExists
<1>2. _targets_for(fleet, channel) = kept[Len(fleet)]
  BY DEF _targets_for, Kept
<1> HIDE DEF kept
<1> DEFINE D == Devices(fleet)
           Chosen(n) ==
             /\ kept[n] \in Seq(D)
             /\ \A i \in 1..Len(kept[n]) : \E j \in 1..n : kept[n][i] = fleet[j]
             /\ \A i, j \in 1..Len(kept[n]) : kept[n][i].token = kept[n][j].token => i = j
           T == {n \in Nat : n <= Len(fleet) => Chosen(n)}
<1>3. 0 \in T
  <2>1. kept[0] = <<>>
    BY <1>0, <1>1 DEF Kept
  <2>2. <<>> \in Seq(D) /\ Len(<<>>) = 0
    BY EmptySeq
  <2> HIDE DEF D
  <2>3. Chosen(0)
    BY <2>1, <2>2
  <2> HIDE DEF Chosen
  <2> QED
    BY <2>3
<1>4. ASSUME NEW n \in Nat, n \in T PROVE n + 1 \in T
  <2>0. SUFFICES ASSUME n + 1 <= Len(fleet) PROVE Chosen(n + 1)
    <3>1. n + 1 \in Nat
      OBVIOUS
    <3> HIDE DEF Chosen
    <3> QED
      BY <3>1
  <2>c. Chosen(n)
    <3>1. n <= Len(fleet)
      BY <1>0, <2>0
    <3>2. n <= Len(fleet) => Chosen(n)
      <4> HIDE DEF Chosen
      <4> QED
        BY <1>4
    <3> QED
      BY <3>1, <3>2
  <2> HIDE DEF D, T
  <2>1. /\ kept[n] \in Seq(D) /\ Len(kept[n]) \in Nat
        /\ \A i \in 1..Len(kept[n]) : \E j \in 1..n : kept[n][i] = fleet[j]
        /\ \A i, j \in 1..Len(kept[n]) : kept[n][i].token = kept[n][j].token => i = j
    <3>1. kept[n] \in Seq(D) => Len(kept[n]) \in Nat
      BY LenProperties
    <3> QED
      BY <2>c, <3>1, Zenon
  <2>2. kept[n + 1] = kept[n] \/ kept[n + 1] = Append(kept[n], fleet[n + 1])
    <3>1. n + 1 \in 0..Len(fleet) /\ n + 1 # 0 /\ (n + 1) - 1 = n
      BY <1>0, <2>0
    <3>2. kept[n + 1] = Kept(fleet, channel, kept, n + 1)
      BY <1>1, <3>1
    <3> QED
      BY <3>1, <3>2 DEF Kept
  <2>3. CASE kept[n + 1] = kept[n]
    <3>1. \A j \in 1..n : j \in 1..(n + 1)
      OBVIOUS
    <3> QED
      BY <2>1, <2>3, <3>1
  <2>4. CASE kept[n + 1] = Append(kept[n], fleet[n + 1])
    <3> DEFINE s == kept[n]
               t == kept[n + 1]
               x == fleet[n + 1]
    <3>1. x \in D
      BY <1>0, <2>0 DEF D
    <3> HIDE DEF s, t, x
    <3>2. t \in Seq(D) /\ Len(t) = Len(s) + 1 /\ t[Len(s) + 1] = x /\ \A i \in 1..Len(s) : t[i] = s[i]
      BY <2>1, <2>4, <3>1 DEF s, t, x
    <3>3. \A i \in 1..Len(s) : t[i].token # x.token
      <4> SUFFICES ASSUME NEW i \in 1..Len(s) PROVE t[i].token # x.token
        OBVIOUS
      <4>1. PICK j \in 1..n : s[i] = fleet[j]
        BY <2>1 DEF s
      <4>2. j \in 1..Len(fleet) /\ n + 1 \in 1..Len(fleet) /\ j # n + 1
        BY <1>0, <2>0
      <4> QED
        BY <1>0, <3>2, <4>1, <4>2 DEF x
    <3>4. \A i \in 1..Len(t) : \E j \in 1..(n + 1) : t[i] = fleet[j]
      <4> SUFFICES ASSUME NEW i \in 1..Len(t) PROVE \E j \in 1..(n + 1) : t[i] = fleet[j]
        OBVIOUS
      <4>1. CASE i = Len(s) + 1
        <5>1. n + 1 \in 1..(n + 1)
          OBVIOUS
        <5> QED
          BY <3>2, <4>1, <5>1 DEF x
      <4>2. CASE i \in 1..Len(s)
        BY <2>1, <3>2, <4>2 DEF s
      <4> QED
        BY <2>1, <3>2, <4>1, <4>2 DEF s
    <3>5. \A i, j \in 1..Len(t) : t[i].token = t[j].token => i = j
      <4> SUFFICES ASSUME NEW i \in 1..Len(t), NEW j \in 1..Len(t), t[i].token = t[j].token PROVE i = j
        OBVIOUS
      <4>1. (i \in 1..Len(s) \/ i = Len(s) + 1) /\ (j \in 1..Len(s) \/ j = Len(s) + 1)
        BY <2>1, <3>2 DEF s
      <4>2. \A a, b \in 1..Len(s) : s[a].token = s[b].token => a = b
        BY <2>1 DEF s
      <4> QED
        BY <3>2, <3>3, <4>1, <4>2
    <3> QED
      BY <3>2, <3>4, <3>5 DEF t
  <2> QED
    BY <2>2, <2>3, <2>4
<1> HIDE DEF Chosen
<1>5. Chosen(Len(fleet))
  <2> HIDE DEF T
  <2>1. Len(fleet) \in T
    BY <1>0, <1>3, <1>4, SetInduction
  <2> QED
    BY <1>0, <2>1 DEF T
<1> QED
  BY <1>0, <1>2, <1>5 DEF Chosen

-----------------------------------------------------------------------------
Tokens == UNION {{d.token : d \in ToSet(fleet)} : fleet \in Fleets}
AllDevices == [token : Tokens, platform : {"ANDROID", "IOS", "WEB"}]

DispatchRecords ==
  [step : {"prepare", "post", "result", "done"}, provider : {"fcm", "webpush", "log"},
   held_off : SUBSET Tokens, targets : Seq(AllDevices), todo : Seq(AllDevices), raised : BOOLEAN, sent : Nat,
   invalid : Seq(Tokens), status : {"PENDING", "SENT", "FAILED", "SKIPPED"}]

DispatchTypes == dispatch \in DispatchRecords /\ tried \in Seq(Tokens)

\* What was tried and what is left make up the targets, in order.
OrderInv ==
  /\ \A i, j \in 1..Len(dispatch.targets) :
       dispatch.targets[i].token = dispatch.targets[j].token => i = j
  /\ dispatch.provider # "log" /\ ~dispatch.raised =>
       /\ Len(tried) + Len(dispatch.todo) = Len(dispatch.targets)
       /\ \A i \in 1..Len(tried) : tried[i] = dispatch.targets[i].token
       /\ \A i \in 1..Len(dispatch.todo) : dispatch.todo[i] = dispatch.targets[Len(tried) + i]
       /\ dispatch.step = "done" => dispatch.todo = <<>>

\* What the counts and lists of the pass say of the world.
OutcomeInv ==
  /\ dispatch.raised => dispatch.step = "done"
  /\ dispatch.step = "post" => dispatch.provider # "log"
  /\ dispatch.step = "result" => dispatch.provider = "log"
  /\ ~dispatch.raised =>
       /\ dispatch.provider # "log" => (dispatch.sent > 0 <=> received # {})
       /\ dispatch.step = "done" => (dispatch.status = "SENT" <=> dispatch.sent > 0)
       /\ dispatch.step # "done" => dead \subseteq ToSet(dispatch.invalid)
       /\ dispatch.step = "done" => dead \intersect active \subseteq dispatch.held_off

DispatchInv == DispatchTypes /\ OrderInv /\ OutcomeInv

LEMMA ToSetAppend ==
  ASSUME NEW S, NEW s \in Seq(S), NEW x \in S
  PROVE  ToSet(Append(s, x)) = ToSet(s) \union {x}
<1>1. DOMAIN s = 1..Len(s) /\ Len(s) \in Nat
  OBVIOUS
<1>2. /\ DOMAIN Append(s, x) = 1..(Len(s) + 1)
      /\ Append(s, x)[Len(s) + 1] = x
      /\ \A i \in 1..Len(s) : Append(s, x)[i] = s[i]
  OBVIOUS
<1>3. 1..(Len(s) + 1) = (1..Len(s)) \union {Len(s) + 1}
  BY <1>1
<1> QED
  BY <1>1, <1>2, <1>3 DEF ToSet

LEMMA DispatchInitInv == DispatchInit => DispatchInv
<1> SUFFICES ASSUME DispatchInit PROVE DispatchInv
  OBVIOUS
<1>1. PICK fleet \in Fleets, name \in Providers, configured \in BOOLEAN, channel \in Channels :
        LET targets == _targets_for(fleet, channel)
        IN  /\ \E held_off \in SUBSET {d.token : d \in ToSet(targets)} :
                 dispatch = [step |-> IF targets = <<>> THEN "done" ELSE "prepare",
                             provider |-> get_provider(name, configured), targets |-> targets, todo |-> targets,
                             held_off |-> held_off, raised |-> FALSE, sent |-> 0, invalid |-> <<>>,
                             status |-> IF targets = <<>> THEN "SKIPPED" ELSE "PENDING"]
            /\ active = {fleet[i].token : i \in DOMAIN fleet}
            /\ received = {} /\ dead = {} /\ tried = <<>>
  BY DEF DispatchInit
<1> DEFINE t == _targets_for(fleet, channel)
<1>2. t \in Seq(AllDevices) /\ \A i, j \in 1..Len(t) : t[i].token = t[j].token => i = j
  <2>1. Devices(fleet) \subseteq AllDevices
    BY DEF Devices, AllDevices, Tokens
  <2>2. t \in Seq(Devices(fleet)) /\ \A i, j \in 1..Len(t) : t[i].token = t[j].token => i = j
    BY Targets
  <2> HIDE DEF t
  <2> QED
    BY <2>1, <2>2, SeqMonotonic
<1>3. get_provider(name, configured) \in {"fcm", "webpush", "log"}
  BY DEF get_provider
<1>4. PICK held_off \in SUBSET {d.token : d \in ToSet(t)} :
        dispatch = [step |-> IF t = <<>> THEN "done" ELSE "prepare",
                    provider |-> get_provider(name, configured), targets |-> t, todo |-> t,
                    held_off |-> held_off, raised |-> FALSE, sent |-> 0, invalid |-> <<>>,
                    status |-> IF t = <<>> THEN "SKIPPED" ELSE "PENDING"]
  BY <1>1
<1>4a. received = {} /\ dead = {} /\ tried = <<>>
  BY <1>1
<1> HIDE DEF t
<1>5. <<>> \in Seq(Tokens) /\ Len(<<>>) = 0 /\ Len(t) \in Nat
  BY <1>2
<1>5a. held_off \in SUBSET Tokens
  <2>0. \A i \in DOMAIN t : t[i] \in AllDevices
    BY <1>2
  <2>1. \A d \in ToSet(t) : d.token \in Tokens
    BY <2>0 DEF ToSet, AllDevices
  <2> QED
    BY <2>1
<1>6. DispatchTypes
  BY <1>2, <1>3, <1>4, <1>4a, <1>5, <1>5a DEF DispatchTypes, DispatchRecords
<1>7. OrderInv
  BY <1>2, <1>4, <1>4a, <1>5 DEF OrderInv
<1>8. OutcomeInv
  BY <1>4, <1>4a DEF OutcomeInv
<1> QED
  BY <1>6, <1>7, <1>8 DEF DispatchInv

LEMMA PrepareInv ==
  ASSUME DispatchInv, Prepare
  PROVE  DispatchInv'
<1>1. /\ dispatch.step = "prepare" /\ dispatch \in DispatchRecords /\ tried' = tried /\ dead' = dead
      /\ tried \in Seq(Tokens) /\ received' = received /\ active' = active
  BY DEF DispatchInv, Prepare, DispatchTypes
<1>2. CASE dispatch.provider = "log"
  <2>1. dispatch' = [dispatch EXCEPT !.step = "result", !.sent = 1, !.todo = <<>>]
    BY <1>2 DEF Prepare
  <2>2. dispatch' \in DispatchRecords
    <3> DEFINE d1 == [dispatch EXCEPT !.step = "result"]
               d2 == [d1 EXCEPT !.sent = 1]
    <3>1. d1 \in DispatchRecords
      BY <1>1 DEF DispatchRecords
    <3>2. d2 \in DispatchRecords
      <4> HIDE DEF d1
      <4> QED
        BY <3>1 DEF DispatchRecords
    <3>3. dispatch' = [d2 EXCEPT !.todo = <<>>]
      BY <2>1
    <3>4. <<>> \in Seq(AllDevices)
      OBVIOUS
    <3> HIDE DEF d2
    <3> QED
      BY <3>2, <3>3, <3>4 DEF DispatchRecords
  <2>3. /\ dispatch'.step = "result" /\ dispatch'.provider = "log" /\ dispatch'.targets = dispatch.targets
        /\ dispatch'.raised = dispatch.raised /\ dispatch'.invalid = dispatch.invalid
    BY <1>1, <1>2, <2>1 DEF DispatchRecords
  <2> QED
    BY <1>1, <2>2, <2>3 DEF DispatchInv, DispatchTypes, OrderInv, OutcomeInv
<1>3. CASE dispatch.provider # "log"
  <2>1. dispatch' = [dispatch EXCEPT !.step = "post"]
    BY <1>3 DEF Prepare
  <2>2. dispatch' \in DispatchRecords
    BY <1>1, <2>1 DEF DispatchRecords
  <2>3. /\ dispatch'.step = "post" /\ dispatch'.provider = dispatch.provider
        /\ dispatch'.targets = dispatch.targets /\ dispatch'.todo = dispatch.todo
        /\ dispatch'.raised = dispatch.raised /\ dispatch'.invalid = dispatch.invalid
        /\ dispatch'.sent = dispatch.sent
    BY <1>1, <2>1 DEF DispatchRecords
  <2> QED
    BY <1>1, <1>3, <2>2, <2>3 DEF DispatchInv, DispatchTypes, OrderInv, OutcomeInv
<1> QED
  BY <1>2, <1>3

LEMMA RaisesInv ==
  ASSUME DispatchInv, dispatch' = Raises, tried' \in Seq(Tokens)
  PROVE  DispatchInv'
<1>1. dispatch \in DispatchRecords /\ dispatch' = [dispatch EXCEPT !.step = "done", !.status = "FAILED", !.raised = TRUE]
  BY DEF DispatchInv, DispatchTypes, Raises
<1>2. dispatch' \in DispatchRecords
  BY <1>1 DEF DispatchRecords
<1>3. dispatch'.raised /\ dispatch'.step = "done" /\ dispatch'.targets = dispatch.targets
  BY <1>1 DEF DispatchRecords
<1> QED
  BY <1>2, <1>3 DEF DispatchInv, DispatchTypes, OrderInv, OutcomeInv

(* One more device tried.                                                  *)
LEMMA Advance ==
  ASSUME DispatchInv, dispatch.todo # <<>>, dispatch.provider # "log", ~dispatch.raised
  PROVE  LET target == Head(dispatch.todo)
             after == Append(tried, target.token)
         IN  /\ target \in AllDevices /\ target.token \in Tokens
             /\ after \in Seq(Tokens) /\ Tail(dispatch.todo) \in Seq(AllDevices)
             /\ Len(after) + Len(Tail(dispatch.todo)) = Len(dispatch.targets)
             /\ \A i \in 1..Len(after) : after[i] = dispatch.targets[i].token
             /\ \A i \in 1..Len(Tail(dispatch.todo)) :
                  Tail(dispatch.todo)[i] = dispatch.targets[Len(after) + i]
<1> DEFINE todo == dispatch.todo
           targets == dispatch.targets
           target == Head(todo)
           after == Append(tried, target.token)
<1>1. todo \in Seq(AllDevices) /\ tried \in Seq(Tokens) /\ todo # <<>>
  BY DEF DispatchInv, DispatchTypes, DispatchRecords
<1>2. /\ Len(tried) + Len(todo) = Len(targets)
      /\ \A i \in 1..Len(tried) : tried[i] = targets[i].token
      /\ \A i \in 1..Len(todo) : todo[i] = targets[Len(tried) + i]
  BY DEF DispatchInv, OrderInv
<1> HIDE DEF todo, targets
<1>3. /\ Len(todo) \in Nat \ {0} /\ Len(tried) \in Nat /\ target = todo[1] /\ target \in AllDevices
      /\ Tail(todo) \in Seq(AllDevices) /\ Len(Tail(todo)) = Len(todo) - 1
      /\ \A i \in 1..(Len(todo) - 1) : Tail(todo)[i] = todo[i + 1]
  BY <1>1
<1>4. target.token \in Tokens
  BY <1>3 DEF AllDevices
<1> HIDE DEF target
<1>5. /\ after \in Seq(Tokens) /\ Len(after) = Len(tried) + 1 /\ after[Len(tried) + 1] = target.token
      /\ \A i \in 1..Len(tried) : after[i] = tried[i]
  BY <1>1, <1>4
<1> HIDE DEF after
<1>6. target = targets[Len(tried) + 1]
  BY <1>2, <1>3
<1>7. ASSUME NEW i \in 1..Len(after) PROVE after[i] = targets[i].token
  BY <1>2, <1>3, <1>5, <1>6
<1>8. ASSUME NEW i \in 1..Len(Tail(todo)) PROVE Tail(todo)[i] = targets[Len(after) + i]
  <2>1. i + 1 \in 1..Len(todo) /\ Tail(todo)[i] = todo[i + 1] /\ Len(tried) + (i + 1) = Len(after) + i
    BY <1>3, <1>5
  <2> QED
    BY <1>2, <2>1
<1>9. Len(after) + Len(Tail(todo)) = Len(targets)
  BY <1>2, <1>3, <1>5
<1> QED
  BY <1>3, <1>4, <1>5, <1>7, <1>8, <1>9 DEF target, after, todo, targets

LEMMA PostInv ==
  ASSUME DispatchInv, NEW reply, Post(reply)
  PROVE  DispatchInv'
<1> DEFINE target == Head(dispatch.todo)
           p == dispatch.provider
<1>1. /\ dispatch \in DispatchRecords /\ dispatch.step = "post" /\ dispatch.todo # <<>>
      /\ p # "log" /\ ~dispatch.raised /\ reply \in Replies(p, target)
  BY DEF DispatchInv, DispatchTypes, OutcomeInv, Post
<1>2. /\ dispatch' = [dispatch EXCEPT !.todo = Tail(@),
                       !.sent = IF reply = "200" THEN @ + 1 ELSE @,
                       !.invalid = IF TokenIsDead(p, reply) THEN Append(@, target.token) ELSE @]
      /\ received' = IF reply = "200" THEN received \union {target.token} ELSE received
      /\ dead' = IF Native(p, target) /\ reply \in {"400", "403", "404", "410", "malformed"} THEN dead \union {target.token} ELSE dead
      /\ tried' = Append(tried, target.token)
  BY DEF Post, Remaining
<1>3. /\ target.token \in Tokens
      /\ tried' \in Seq(Tokens) /\ Tail(dispatch.todo) \in Seq(AllDevices)
      /\ Len(tried') + Len(Tail(dispatch.todo)) = Len(dispatch.targets)
      /\ \A i \in 1..Len(tried') : tried'[i] = dispatch.targets[i].token
      /\ \A i \in 1..Len(Tail(dispatch.todo)) :
           Tail(dispatch.todo)[i] = dispatch.targets[Len(tried') + i]
  BY <1>1, <1>2, Advance
<1> DEFINE sent == IF reply = "200" THEN dispatch.sent + 1 ELSE dispatch.sent
           invalid == IF TokenIsDead(p, reply) THEN Append(dispatch.invalid, target.token) ELSE dispatch.invalid
           rest == Tail(dispatch.todo)
<1>4. dispatch' = [dispatch EXCEPT !.todo = rest, !.sent = sent, !.invalid = invalid]
  BY <1>1, <1>2 DEF DispatchRecords
<1>5. /\ sent \in Nat /\ dispatch.sent \in Nat /\ dispatch.invalid \in Seq(Tokens)
      /\ invalid \in Seq(Tokens) /\ rest \in Seq(AllDevices)
  BY <1>1, <1>3 DEF DispatchRecords
<1>6. Native(p, target) /\ reply \in {"400", "403", "404", "410", "malformed"} => TokenIsDead(p, reply)
  BY <1>1 DEF Replies, TokenIsDead, DispatchRecords
<1>7. TokenIsDead(p, reply) => ToSet(invalid) = ToSet(dispatch.invalid) \union {target.token}
  BY <1>3, <1>5, ToSetAppend
<1>8. /\ sent > 0 <=> received' # {}
      /\ dead' \subseteq ToSet(invalid)
  <2>1. (dispatch.sent > 0 <=> received # {}) /\ dead \subseteq ToSet(dispatch.invalid)
    BY <1>1 DEF DispatchInv, OutcomeInv
  <2>2. sent > 0 <=> received' # {}
    <3>1. CASE reply = "200"
      <4>1. sent = dispatch.sent + 1 /\ received' = received \union {target.token}
        BY <1>2, <3>1
      <4> QED
        BY SMTT(20), <1>5, <4>1
    <3>2. CASE reply # "200"
      <4>1. sent = dispatch.sent /\ received' = received
        BY <1>2, <3>2
      <4> QED
        BY <2>1, <4>1
    <3> QED
      BY <3>1, <3>2
  <2>3. dead' \subseteq ToSet(invalid)
    <3>1. CASE TokenIsDead(p, reply)
      BY <1>2, <1>7, <2>1, <3>1
    <3>2. CASE ~TokenIsDead(p, reply)
      BY <1>2, <1>6, <2>1, <3>2
    <3> QED
      BY <3>1, <3>2
  <2> QED
    BY <2>2, <2>3
<1> HIDE DEF sent, invalid, rest, target
<1>9. dispatch' \in DispatchRecords
  BY <1>1, <1>4, <1>5 DEF DispatchRecords
<1>10. /\ dispatch'.step = "post" /\ dispatch'.provider = dispatch.provider
       /\ dispatch'.targets = dispatch.targets /\ dispatch'.todo = rest
       /\ dispatch'.raised = dispatch.raised /\ dispatch'.invalid = invalid /\ dispatch'.sent = sent
  BY <1>1, <1>4, <1>5 DEF DispatchRecords
<1>11. OrderInv'
  BY <1>3, <1>10 DEF DispatchInv, OrderInv, rest
<1>12. OutcomeInv'
  BY <1>1, <1>8, <1>10 DEF OutcomeInv
<1> QED
  BY <1>3, <1>9, <1>11, <1>12 DEF DispatchInv, DispatchTypes

LEMMA ReportInv ==
  ASSUME DispatchInv, Report
  PROVE  DispatchInv'
<1> DEFINE status == IF Success(dispatch) THEN "SENT" ELSE "FAILED"
<1>1. /\ dispatch \in DispatchRecords /\ tried \in Seq(Tokens)
      /\ dispatch.step = "result" \/ (dispatch.step = "post" /\ dispatch.todo = <<>>)
      /\ dispatch' = [dispatch EXCEPT !.step = "done", !.status = status]
      /\ active' = active \ (ToSet(dispatch.invalid) \ dispatch.held_off)
      /\ received' = received /\ dead' = dead /\ tried' = tried
  BY DEF DispatchInv, DispatchTypes, Report
<1>2. status \in {"SENT", "FAILED"} /\ (status = "SENT" <=> dispatch.sent > 0)
  BY DEF Success
<1> HIDE DEF status
<1>3. dispatch' \in DispatchRecords
  BY <1>1, <1>2 DEF DispatchRecords
<1>4. /\ dispatch'.step = "done" /\ dispatch'.provider = dispatch.provider
      /\ dispatch'.targets = dispatch.targets /\ dispatch'.todo = dispatch.todo
      /\ dispatch'.raised = dispatch.raised /\ dispatch'.status = status /\ dispatch'.sent = dispatch.sent
      /\ dispatch'.held_off = dispatch.held_off
  BY <1>1 DEF DispatchRecords
<1>5. ~dispatch.raised /\ dead \subseteq ToSet(dispatch.invalid)
      /\ (dispatch.provider # "log" => (dispatch.sent > 0 <=> received # {}) /\ dispatch.todo = <<>>)
  BY <1>1 DEF DispatchInv, OutcomeInv
<1>6. OrderInv'
  BY <1>1, <1>4, <1>5 DEF DispatchInv, OrderInv
<1>7. OutcomeInv'
  BY <1>1, <1>2, <1>4, <1>5 DEF OutcomeInv
<1> QED
  BY <1>1, <1>3, <1>6, <1>7 DEF DispatchInv, DispatchTypes

LEMMA DispatchStep ==
  ASSUME DispatchInv, [DispatchNext]_dispatchVars
  PROVE  DispatchInv'
<1>1. CASE Prepare
  BY <1>1, PrepareInv
<1>2. CASE PrepareFails
  BY <1>2, RaisesInv DEF PrepareFails, DispatchInv, DispatchTypes
<1>3. ASSUME NEW reply, Post(reply) PROVE DispatchInv'
  BY <1>3, PostInv
<1>4. CASE PostEscapes
  <2>1. dispatch.step = "post" /\ dispatch.todo # <<>> /\ tried' = Append(tried, Head(dispatch.todo).token)
    BY <1>4 DEF PostEscapes
  <2>2. dispatch.provider # "log" /\ ~dispatch.raised
    BY <2>1 DEF DispatchInv, OutcomeInv
  <2>3. tried' \in Seq(Tokens)
    BY <2>1, <2>2, Advance
  <2> QED
    BY <1>4, <2>3, RaisesInv DEF PostEscapes
<1>5. CASE Report
  BY <1>5, ReportInv
<1>6. CASE UNCHANGED dispatchVars
  BY <1>6 DEF dispatchVars, DispatchInv, DispatchTypes, OrderInv, OutcomeInv
<1> QED
  BY <1>1, <1>2, <1>3, <1>4, <1>5, <1>6 DEF DispatchNext

(* Every source asked, retried and chosen as it should be.                 *)
LEMMA FetchStep ==
  ASSUME FetchInv, [FetchNext]_fetchVars
  PROVE  FetchInv'
<1>1. ASSUME NEW reply \in Statuses \union {0}, Get(reply) PROVE FetchInv'
  <2>1. fetch'.url = fetch.url
    BY <1>1 DEF Get, Fails, FetchInv, FetchTypes, FetchRecords
  <2> QED
    BY <1>1, <2>1, GetInv DEF FetchInv, ReportOfTheYear
<1>2. CASE Sleep
  <2>1. fetch'.url = fetch.url
    BY <1>2 DEF Sleep, FetchInv, FetchTypes, FetchRecords
  <2> QED
    BY <1>2, <2>1, SleepInv DEF FetchInv, ReportOfTheYear
<1>3. CASE Escapes
  <2>1. fetch'.url = fetch.url
    BY <1>3 DEF Escapes, FetchInv, FetchTypes, FetchRecords
  <2> QED
    BY <1>3, <2>1, EscapesInv DEF FetchInv, ReportOfTheYear
<1>4. ASSUME NEW c \in Confidences, NEW found \in BOOLEAN, Extract(c, found) PROVE FetchInv'
  <2>1. fetch'.url = fetch.url
    BY <1>4 DEF Extract, FetchInv, FetchTypes, FetchRecords
  <2> QED
    BY <1>4, <2>1, ExtractInv DEF FetchInv, ReportOfTheYear
<1>5. CASE UNCHANGED fetchVars
  BY <1>5 DEF fetchVars, FetchInv, FetchTypes, RetryInv, SourceInv, Trusted, SourceChosen, ReportOfTheYear
<1> QED
  BY <1>1, <1>2, <1>3, <1>4, <1>5 DEF FetchNext

LEMMA OutboundStep == FetchInv /\ DispatchInv /\ [Next]_vars => FetchInv' /\ DispatchInv'
BY FetchStep, DispatchStep DEF Next, vars, fetchVars, dispatchVars

(* What is known of a fetch and of an alert on its way, whatever the site, *)
(* the providers and the other of the two jobs do.                         *)
THEOREM OutboundInvariant == Spec => [](FetchInv /\ DispatchInv)
<1>1. Init => FetchInv /\ DispatchInv
  BY FetchInitInv, DispatchInitInv DEF Init
<1> QED
  BY <1>1, OutboundStep, PTL DEF Spec

(* A permanent error is final, and a source is asked at most MaxRetries    *)
(* times again, for any MaxRetries and answers (ScraperHTTPClient.fetch).  *)
THEOREM RetriesTransient == Spec => []OnlyTransientRetried
<1>1. FetchInv => OnlyTransientRetried
  <2> SUFFICES ASSUME FetchInv, NEW s \in DOMAIN replies
               PROVE /\ Len(replies[s]) <= MaxRetries + 1
                     /\ \A i \in 1..Len(replies[s]) - 1 : replies[s][i] \in {0, 408, 425, 429} \union 500..599
    BY DEF OnlyTransientRetried
  <2>1. s \in Sources /\ Len(replies[s]) \in Nat
    BY DEF FetchInv, FetchTypes
  <2>2. Len(replies[s]) <= MaxRetries + 1
    BY <2>1 DEF FetchInv, RetryInv, attempts
  <2>3. \A i \in 1..Len(replies[s]) - 1 : Transient(replies[s][i])
    BY <2>1 DEF FetchInv, RetryInv
  <2>4. \A r : Transient(r) => r \in {0, 408, 425, 429} \union 500..599
    BY DEF Transient, RETRYABLE_STATUS
  <2> QED
    BY <2>2, <2>3, <2>4
<1> QED
  BY <1>1, OutboundInvariant, PTL

(* A trusted feed is kept and the page not asked; otherwise the page wins  *)
(* exactly when it was understood better, and "failed" means both were     *)
(* asked; an error that is no FetchError ends the run before that, for any *)
(* confidences and answers (_fetch_and_extract).                           *)
THEOREM BestSource == Spec => []SourceChosen
<1>1. FetchInv => SourceChosen
  BY DEF FetchInv, SourceInv
<1> QED
  BY <1>1, OutboundInvariant, PTL

(* The report of every date is the one of its financial year.              *)
THEOREM RightReport == Spec => []ReportOfTheYear
<1>1. FetchInv => ReportOfTheYear
  BY DEF FetchInv
<1> QED
  BY <1>1, OutboundInvariant, PTL

(* SENT means that a device got the alert, for any devices and providers.  *)
THEOREM SentIsReceived == Spec => []ResultTellsTruth
<1>1. DispatchInv => ResultTellsTruth
  BY DEF DispatchInv, OutcomeInv, ResultTellsTruth, Returned
<1> QED
  BY <1>1, OutboundInvariant, PTL

(* A token its own platform refused for good is retired, whatever the      *)
(* others do, unless the session of the pass held it as already off.       *)
THEOREM GoneRetired == Spec => []DeadRetired
<1>1. DispatchInv => DeadRetired
  BY DEF DispatchInv, OutcomeInv, DeadRetired, Returned
<1> QED
  BY <1>1, OutboundInvariant, PTL

(* Every device of the channel is tried once, for any number of devices.   *)
THEOREM AllTried == Spec => []EveryTargetTried
<1>1. DispatchInv => EveryTargetTried
  <2> DEFINE targets == dispatch.targets
  <2> SUFFICES ASSUME DispatchInv, Returned, dispatch.provider # "log"
               PROVE  IsInjective(tried) /\ ToSet(tried) = {d.token : d \in ToSet(targets)}
    BY DEF EveryTargetTried
  <2>1. tried \in Seq(Tokens) /\ targets \in Seq(AllDevices) /\ Len(<<>>) = 0
    BY DEF DispatchInv, DispatchTypes, DispatchRecords
  <2>2. /\ Len(tried) + Len(<<>>) = Len(targets)
        /\ \A i \in 1..Len(tried) : tried[i] = targets[i].token
        /\ \A i, j \in 1..Len(targets) : targets[i].token = targets[j].token => i = j
    BY DEF DispatchInv, OrderInv, Returned
  <2> HIDE DEF targets
  <2>3. DOMAIN tried = 1..Len(targets) /\ DOMAIN targets = 1..Len(targets) /\ Len(tried) = Len(targets)
    BY <2>1, <2>2
  <2>4. IsInjective(tried)
    BY <2>2, <2>3 DEF IsInjective
  <2>5. ToSet(tried) = {d.token : d \in ToSet(targets)}
    BY <2>2, <2>3 DEF ToSet
  <2> QED
    BY <2>4, <2>5
<1> QED
  BY <1>1, OutboundInvariant, PTL

-----------------------------------------------------------------------------
(* What the notification engine makes of a call to its provider.           *)

Handed == {d.token : d \in ToSet(dispatch.targets)}

\* Send and Settle of NotificationEngine: some of the devices that were handed
\* over are retired, and not all of them when the alert was sent.
EngineSend ==
  /\ dispatch.step # "done" /\ Handed # {} /\ dispatch'.targets = dispatch.targets
  /\ dispatch'.step # "done" => dispatch'.status = dispatch.status /\ active' = active
  /\ dispatch'.step = "done" =>
       \E bad \in SUBSET Handed, outcome \in {"SENT", "FAILED"} :
         /\ outcome = "SENT" => bad # Handed
         /\ dispatch'.status = outcome
         /\ active' = active \ bad

\* Only tokens that were posted to are reported gone, and not the accepted ones.
CallInv ==
  /\ dispatch.step # "done" => dispatch.targets # <<>>
  /\ dispatch.provider = "log" => dispatch.invalid = <<>>
  /\ ~dispatch.raised => ToSet(dispatch.invalid) \subseteq {tried[i] : i \in 1..Len(tried)}
  /\ dispatch.provider # "log" /\ ~dispatch.raised /\ dispatch.sent > 0 =>
       \E i \in 1..Len(tried) : tried[i] \notin ToSet(dispatch.invalid)

(* Nothing is reported before the first POST.                              *)
LEMMA CallInitInv == DispatchInit => CallInv
<1> SUFFICES ASSUME DispatchInit PROVE CallInv
  OBVIOUS
<1>1. dispatch.step # "done" => dispatch.targets # <<>>
  BY DEF DispatchInit
<1>2. dispatch.invalid = <<>> /\ dispatch.sent = 0
  BY DEF DispatchInit
<1>3. ToSet(<<>>) = {}
  BY DEF ToSet
<1> QED
  BY <1>1, <1>2, <1>3 DEF CallInv

(* The token that is posted to is a target, and was not posted to before.  *)
LEMMA NextToken ==
  ASSUME DispatchInv, dispatch.todo # <<>>, dispatch.provider # "log", ~dispatch.raised
  PROVE  LET token == Head(dispatch.todo).token
         IN  token \in Handed /\ \A i \in 1..Len(tried) : tried[i] # token
<1> DEFINE targets == dispatch.targets
           after == Append(tried, Head(dispatch.todo).token)
           token == Head(dispatch.todo).token
<1>1. /\ targets \in Seq(AllDevices) /\ tried \in Seq(Tokens) /\ dispatch.todo \in Seq(AllDevices)
      /\ Len(tried) + Len(dispatch.todo) = Len(targets)
      /\ \A i \in 1..Len(tried) : tried[i] = targets[i].token
      /\ \A i, j \in 1..Len(targets) : targets[i].token = targets[j].token => i = j
  BY DEF DispatchInv, DispatchTypes, DispatchRecords, OrderInv
<1>2. Len(dispatch.todo) \in Nat \ {0} /\ Len(tried) \in Nat /\ Head(dispatch.todo) = dispatch.todo[1]
  BY <1>1
<1>3. dispatch.todo[1] = targets[Len(tried) + 1]
  BY <1>2 DEF DispatchInv, OrderInv
<1>4. token = targets[Len(tried) + 1].token
  BY <1>2, <1>3
<1> HIDE DEF targets, token
<1>5. Len(tried) + 1 \in 1..Len(targets) /\ DOMAIN targets = 1..Len(targets)
  BY <1>1, <1>2
<1>6. token \in Handed
  BY <1>4, <1>5 DEF Handed, ToSet, targets
<1>7. ASSUME NEW i \in 1..Len(tried) PROVE tried[i] # token
  <2>1. i \in 1..Len(targets) /\ i # Len(tried) + 1 /\ tried[i] = targets[i].token
    BY <1>1, <1>2
  <2>2. targets[i].token # targets[Len(tried) + 1].token
    BY <1>1, <1>5, <2>1, Zenon
  <2> QED
    BY <1>4, <2>1, <2>2
<1> QED
  BY <1>6, <1>7 DEF token

(* One more token accepted, or reported gone.                              *)
LEMMA CallPost ==
  ASSUME DispatchInv, CallInv, NEW reply, Post(reply)
  PROVE  CallInv'
<1> DEFINE token == Head(dispatch.todo).token
           p == dispatch.provider
           gone == TokenIsDead(p, reply)
           invalid == IF gone THEN Append(dispatch.invalid, token) ELSE dispatch.invalid
<1>1. /\ dispatch \in DispatchRecords /\ dispatch.step = "post" /\ dispatch.todo # <<>>
      /\ p # "log" /\ ~dispatch.raised /\ tried \in Seq(Tokens)
  BY DEF DispatchInv, DispatchTypes, OutcomeInv, Post
<1>2. /\ dispatch' = [dispatch EXCEPT !.todo = Tail(@),
                       !.sent = IF reply = "200" THEN @ + 1 ELSE @,
                       !.invalid = IF TokenIsDead(p, reply) THEN Append(@, token) ELSE @]
      /\ tried' = Append(tried, token)
  BY DEF Post, Remaining
<1>3. /\ token \in Tokens /\ token \in Handed /\ \A i \in 1..Len(tried) : tried[i] # token
  BY <1>1, Advance, NextToken
<1>4. /\ dispatch'.step = "post" /\ dispatch'.provider = p /\ dispatch'.targets = dispatch.targets
      /\ dispatch'.raised = dispatch.raised /\ dispatch'.invalid = invalid
      /\ dispatch'.sent = IF reply = "200" THEN dispatch.sent + 1 ELSE dispatch.sent
  BY <1>1, <1>2 DEF DispatchRecords
<1>5. dispatch.invalid \in Seq(Tokens) /\ Handed' = Handed
  BY <1>1, <1>4 DEF DispatchRecords, Handed
<1>6. reply = "200" => ~gone
  BY DEF TokenIsDead
<1> HIDE DEF token, gone
<1>7. gone => ToSet(invalid) = ToSet(dispatch.invalid) \union {token}
  BY <1>3, <1>5, ToSetAppend
<1>8. dispatch.targets # <<>> /\ ToSet(dispatch.invalid) \subseteq {tried[i] : i \in 1..Len(tried)}
  BY <1>1 DEF CallInv
<1>9. /\ Len(tried) \in Nat /\ Len(tried') = Len(tried) + 1 /\ tried'[Len(tried) + 1] = token
      /\ \A i \in 1..Len(tried) : tried'[i] = tried[i]
  BY <1>1, <1>2, <1>3
<1>10. ToSet(invalid) \subseteq {tried'[i] : i \in 1..Len(tried')}
  <2>1. Len(tried) + 1 \in 1..Len(tried') /\ \A i \in 1..Len(tried) : i \in 1..Len(tried')
    BY <1>9
  <2> QED
    BY <1>7, <1>8, <1>9, <2>1
<1>11. ASSUME dispatch'.sent > 0 PROVE \E i \in 1..Len(tried') : tried'[i] \notin ToSet(invalid)
  <2>1. CASE reply = "200"
    <3>1. Len(tried) + 1 \in 1..Len(tried')
      BY <1>9
    <3>2. token \notin ToSet(dispatch.invalid)
      BY <1>3, <1>8
    <3>3. invalid = dispatch.invalid
      BY <1>6, <2>1
    <3> HIDE DEF invalid
    <3> QED
      BY <1>9, <3>1, <3>2, <3>3
  <2>2. ASSUME NEW i \in 1..Len(tried), tried[i] \notin ToSet(dispatch.invalid)
        PROVE  \E j \in 1..Len(tried') : tried'[j] \notin ToSet(invalid)
    <3>1. i \in 1..Len(tried') /\ tried'[i] = tried[i] /\ tried[i] # token
      BY <1>3, <1>9
    <3>2. tried[i] \notin ToSet(invalid)
      BY <1>7, <2>2, <3>1
    <3> QED
      BY <3>1, <3>2
  <2>3. reply # "200" => \E i \in 1..Len(tried) : tried[i] \notin ToSet(dispatch.invalid)
    BY <1>1, <1>4, <1>11 DEF CallInv
  <2> QED
    BY <2>1, <2>2, <2>3
<1> QED
  BY <1>1, <1>4, <1>8, <1>10, <1>11 DEF CallInv


(* Every step keeps what the engine relies on.                             *)
LEMMA CallStep ==
  ASSUME DispatchInv, CallInv, [DispatchNext]_dispatchVars
  PROVE  CallInv'
<1>0. dispatch \in DispatchRecords
  BY DEF DispatchInv, DispatchTypes
<1>1. CASE Prepare
  <2>1. /\ dispatch.step = "prepare" /\ tried' = tried
        /\ \/ dispatch.provider = "log"
              /\ dispatch' = [dispatch EXCEPT !.step = "result", !.sent = 1, !.todo = <<>>]
           \/ dispatch' = [dispatch EXCEPT !.step = "post"]
    BY <1>1 DEF Prepare
  <2>2. /\ dispatch'.provider = dispatch.provider /\ dispatch'.targets = dispatch.targets
        /\ dispatch'.raised = dispatch.raised /\ dispatch'.invalid = dispatch.invalid
        /\ dispatch.provider = "log" \/ dispatch'.sent = dispatch.sent
    BY <1>0, <2>1 DEF DispatchRecords
  <2> QED
    BY <2>1, <2>2 DEF CallInv
<1>2. CASE dispatch' = Raises /\ dispatch.provider # "log"
  <2>1. /\ dispatch'.step = "done" /\ dispatch'.raised /\ dispatch'.provider = dispatch.provider
    BY <1>0, <1>2 DEF Raises, DispatchRecords
  <2> QED
    BY <1>2, <2>1 DEF CallInv
<1>3. ASSUME NEW reply, Post(reply) PROVE CallInv'
  BY <1>3, CallPost
<1>4. CASE Report
  <2>1. /\ dispatch' = [dispatch EXCEPT !.step = "done", !.status = IF Success(dispatch) THEN "SENT" ELSE "FAILED"]
        /\ tried' = tried
    BY <1>4 DEF Report
  <2>2. /\ dispatch'.step = "done" /\ dispatch'.provider = dispatch.provider
        /\ dispatch'.raised = dispatch.raised /\ dispatch'.invalid = dispatch.invalid
        /\ dispatch'.sent = dispatch.sent
    BY <1>0, <2>1 DEF DispatchRecords
  <2> QED
    BY <2>1, <2>2 DEF CallInv
<1>5. CASE UNCHANGED dispatchVars
  BY <1>5 DEF dispatchVars, CallInv
<1>6. PostEscapes => dispatch' = Raises /\ dispatch.provider # "log"
  BY DEF PostEscapes, DispatchInv, OutcomeInv
<1> QED
  BY <1>1, <1>2, <1>3, <1>4, <1>5, <1>6 DEF DispatchNext, PrepareFails

(* There is a device to call.                                              *)
LEMMA TargetsThere ==
  ASSUME dispatch.targets \in Seq(AllDevices), dispatch.targets # <<>>
  PROVE  Handed # {}
<1> DEFINE targets == dispatch.targets
<1>1. Len(targets) \in Nat \ {0} /\ DOMAIN targets = 1..Len(targets)
  OBVIOUS
<1>2. 1 \in DOMAIN targets
  BY <1>1
<1> QED
  BY <1>2 DEF Handed, ToSet

(* Only devices that were handed over are posted to.                       *)
LEMMA TriedAsked ==
  ASSUME DispatchInv, dispatch.provider # "log", ~dispatch.raised
  PROVE  \A i \in 1..Len(tried) : tried[i] \in Handed
<1> DEFINE targets == dispatch.targets
<1>1. /\ targets \in Seq(AllDevices) /\ tried \in Seq(Tokens) /\ dispatch.todo \in Seq(AllDevices)
      /\ Len(tried) + Len(dispatch.todo) = Len(targets)
      /\ \A i \in 1..Len(tried) : tried[i] = targets[i].token
  BY DEF DispatchInv, DispatchTypes, DispatchRecords, OrderInv
<1>2. Len(tried) <= Len(targets) /\ DOMAIN targets = 1..Len(targets)
  BY <1>1
<1>3. ASSUME NEW i \in 1..Len(tried) PROVE i \in DOMAIN targets /\ tried[i] = targets[i].token
  BY <1>1, <1>2
<1> QED
  BY <1>3 DEF Handed, ToSet

(* What the provider reports, when it returns.                             *)
LEMMA CallReports ==
  ASSUME DispatchInv, CallInv, Report
  PROVE  EngineSend
<1>1. /\ dispatch \in DispatchRecords /\ tried \in Seq(Tokens)
      /\ dispatch.step = "result" \/ (dispatch.step = "post" /\ dispatch.todo = <<>>)
      /\ dispatch' = [dispatch EXCEPT !.step = "done", !.status = IF Success(dispatch) THEN "SENT" ELSE "FAILED"]
      /\ active' = active \ (ToSet(dispatch.invalid) \ dispatch.held_off)
  BY DEF DispatchInv, DispatchTypes, Report
<1>2. ~dispatch.raised /\ dispatch.targets # <<>> /\ dispatch.targets \in Seq(AllDevices) /\ dispatch.sent \in Nat
  BY <1>1 DEF DispatchInv, OutcomeInv, CallInv, DispatchRecords
<1>3. /\ dispatch'.step = "done" /\ dispatch'.targets = dispatch.targets
      /\ dispatch'.status \in {"SENT", "FAILED"} /\ (dispatch'.status = "SENT" => dispatch.sent > 0)
  BY <1>1 DEF DispatchRecords, Success
<1>4. Handed # {}
  BY <1>2, TargetsThere
<1>5. CASE dispatch.provider = "log"
  <2>1. dispatch.invalid = <<>>
    BY <1>5 DEF CallInv
  <2>2. ToSet(<<>>) = {}
    BY DEF ToSet
  <2>3. active' = active \ {} /\ {} \in SUBSET Handed /\ {} # Handed
    BY <1>1, <1>4, <2>1, <2>2
  <2> QED
    BY <1>1, <1>3, <1>4, <2>3 DEF EngineSend
<1>6. CASE dispatch.provider # "log"
  <2> DEFINE bad == ToSet(dispatch.invalid) \ dispatch.held_off
  <2>1. \A i \in 1..Len(tried) : tried[i] \in Handed
    BY <1>2, <1>6, TriedAsked
  <2>2. bad \subseteq {tried[i] : i \in 1..Len(tried)}
    BY <1>2 DEF CallInv
  <2>3. dispatch.sent > 0 => \E i \in 1..Len(tried) : tried[i] \notin bad
    BY <1>2, <1>6 DEF CallInv
  <2>4. active' = active \ bad
    BY <1>1
  <2> HIDE DEF bad
  <2>5. bad \in SUBSET Handed /\ (dispatch'.status = "SENT" => bad # Handed)
    BY <1>3, <2>1, <2>2, <2>3
  <2> QED
    BY <1>1, <1>3, <1>4, <2>4, <2>5 DEF EngineSend
<1> QED
  BY <1>5, <1>6

(* What its exception comes to.                                            *)
LEMMA CallRaises ==
  ASSUME DispatchInv, CallInv, dispatch' = Raises, dispatch.step # "done", active' = active
  PROVE  EngineSend
<1>1. /\ dispatch \in DispatchRecords /\ dispatch' = [dispatch EXCEPT !.step = "done", !.status = "FAILED", !.raised = TRUE]
  BY DEF DispatchInv, DispatchTypes, Raises
<1>2. /\ dispatch'.step = "done" /\ dispatch'.status = "FAILED" /\ dispatch'.targets = dispatch.targets
      /\ dispatch.targets # <<>> /\ dispatch.targets \in Seq(AllDevices)
  BY <1>1 DEF DispatchRecords, CallInv
<1>3. Handed # {}
  BY <1>2, TargetsThere
<1>4. {} \in SUBSET Handed /\ active' = active \ {}
  OBVIOUS
<1> QED
  BY <1>2, <1>3, <1>4 DEF EngineSend

(* A call tells the engine nothing before its end, and then no more than   *)
(* the engine makes of it: FAILED and no token when it raises, else tokens *)
(* of devices that it was handed, and not all of them when it is SENT, for *)
(* any devices, providers and answers (engine._dispatch, SendResult).      *)
THEOREM MeetsEngine == Spec => [][EngineSend]_dispatchVars
<1>1. Init => DispatchInv /\ CallInv
  BY DispatchInitInv, CallInitInv DEF Init
<1>2. DispatchInv /\ CallInv /\ [Next]_vars => DispatchInv' /\ CallInv'
  BY DispatchStep, CallStep DEF Next, vars, dispatchVars
<1>3. ASSUME DispatchInv, CallInv, [Next]_vars PROVE [EngineSend]_dispatchVars
  <2>1. ASSUME NEW reply, Post(reply) PROVE EngineSend
    <3>1. /\ dispatch \in DispatchRecords /\ dispatch.step = "post" /\ active' = active
          /\ dispatch.targets # <<>> /\ dispatch.targets \in Seq(AllDevices)
      BY <1>3, <2>1 DEF DispatchInv, DispatchTypes, DispatchRecords, CallInv, Post
    <3>2. /\ dispatch'.step = dispatch.step /\ dispatch'.targets = dispatch.targets
          /\ dispatch'.status = dispatch.status
      BY <2>1, <3>1 DEF Post, DispatchRecords
    <3>3. Handed # {}
      BY <3>1, TargetsThere
    <3> QED
      BY <3>1, <3>2, <3>3 DEF EngineSend
  <2>2. CASE Prepare
    <3>1. /\ dispatch \in DispatchRecords /\ dispatch.step = "prepare" /\ active' = active
          /\ dispatch.targets # <<>> /\ dispatch.targets \in Seq(AllDevices)
      BY <1>3, <2>2 DEF DispatchInv, DispatchTypes, DispatchRecords, CallInv, Prepare
    <3>2. /\ dispatch'.step # "done" /\ dispatch'.targets = dispatch.targets
          /\ dispatch'.status = dispatch.status
      BY <2>2, <3>1 DEF Prepare, DispatchRecords
    <3>3. Handed # {}
      BY <3>1, TargetsThere
    <3> QED
      BY <3>1, <3>2, <3>3 DEF EngineSend
  <2>3. CASE PrepareFails \/ PostEscapes
    BY <1>3, <2>3, CallRaises DEF PrepareFails, PostEscapes
  <2>4. CASE Report
    BY <1>3, <2>4, CallReports
  <2>5. DispatchNext \/ UNCHANGED dispatchVars
    BY <1>3 DEF Next, vars
  <2> QED
    BY <2>1, <2>2, <2>3, <2>4, <2>5 DEF DispatchNext
<1> QED
  BY <1>1, <1>2, <1>3, PTL DEF Spec

=============================================================================
