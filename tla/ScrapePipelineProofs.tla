------------------------ MODULE ScrapePipelineProofs ------------------------
(***************************************************************************)
(* Proofs about the scrapes, for any jobs, identities, responses, modes    *)
(* and bounds: types, the retry, and that the tables are those of          *)
(* IpoStore, whatever overlaps, fails or dies.                             *)
(***************************************************************************)
EXTENDS ScrapePipeline, FiniteSetTheorems, TLAPS

(***************************************************************************)
(* The inductive invariant.  A job between its start and the release of    *)
(* its lock holds the lock, and is alone unless it overlaps; what it has   *)
(* read of its batch is still so; what it has written is the merge of its  *)
(* batch with the rows as they are, which no other job writes.             *)
(***************************************************************************)
RecordLists == {resp.records : resp \in Responses} \cup {<<>>}
Changes     == UNION {[S -> [old : Values \cup {Null}, new : Values \cup {Null}]] :
                        S \in SUBSET TRACKED_FIELDS}
Chosen      == [source : {"none", "api", "page"}, confidence : 0 .. 100, mapping : Mappings,
                records : RecordLists]
Sessions    == [run : 0 .. MaxRuns, overlapping : BOOLEAN, chosen : Chosen,
                warned : BOOLEAN, confidence : 0 .. 100, existing : MaybeRow, writes : MaybeRow,
                changes : [Ids -> Changes], status : RunStatus, keep : BOOLEAN,
                expired : 0 .. MaxRuns]

SessionsOK ==
  /\ runs \in [Run -> RunRows \cup {Null}]
  /\ ipos \in MaybeRow
  /\ snapshots \in [Ids -> Seq([run : Run, changes : Changes])]
  /\ pc \in [Jobs -> Stages]
  /\ work \in [Jobs -> Sessions]
  /\ started \in 0 .. MaxRuns
  /\ \A r \in Run : r > started => runs[r] = Null

Working(j) == pc[j] \notin {"idle", "commit"}
Written(j) == work[j].status # "FAILED"

RunInv(j) ==
  /\ pc[j] = "idle" => work[j] = NoWork
  /\ pc[j] # "idle" => work[j].run \in 1 .. started /\ runs[work[j].run] = Null
  /\ Working(j) => lock = j
  /\ Written(j) => pc[j] \in {"complete", "unlock", "commit"}
  /\ Written(j) \/ pc[j] \in {"load", "flush"} =>
       /\ Trusted(work[j].chosen)
       /\ work[j].confidence =
            compute_confidence(work[j].chosen.confidence, work[j].chosen.records)

MergeInv(j) ==
  /\ Written(j) \/ pc[j] = "flush" =>
       \A i \in Batch(j) : /\ work[j].existing[i] # Null => ipos[i] # Null
                           /\ ~work[j].overlapping => work[j].existing[i] = ipos[i]
  /\ Written(j) =>
       \A i \in Batch(j) :
         /\ work[j].existing[i] = Null => ipos[i] = Null
         /\ work[j].writes[i] = Merged(j, i)
         /\ work[j].changes[i] =
              IF work[j].existing[i] = Null THEN NoChange
              ELSE changed_fields(work[j].existing[i], RowFor(work[j].chosen.records, i))
  /\ \A i \in Ids : (Written(j) /\ i \in Batch(j))
       \/ (work[j].writes[i] = Null /\ work[j].changes[i] = NoChange)

PairInv(j, k) ==
  /\ Working(j) /\ ~work[j].overlapping => pc[k] = "idle"
  /\ pc[j] # "idle" /\ pc[k] # "idle" => work[j].run # work[k].run
  /\ \A i \in Ids : work[j].writes[i] = Null \/ work[k].writes[i] = Null

ScrapeInv ==
  /\ SessionsOK
  /\ \A j \in Jobs : RunInv(j) /\ MergeInv(j)
  /\ \A j \in Jobs : \A k \in Jobs \ {j} : PairInv(j, k)

RestOK ==
  /\ payloads \subseteq Run
  /\ lock \in Jobs \cup {Null, "leaked"}
  /\ retry_due \in BOOLEAN

RetryInv ==
  /\ retries \in Nat /\ failures \in Nat
  /\ retries <= failures
  /\ retry_due = TRUE => retries < failures

-----------------------------------------------------------------------------
(* Records.                                                                *)

LEMMA RecordsType ==
  ASSUME NEW records \in RecordLists
  PROVE  records \in Seq([id : Ids, row : Rows])
<1>1. CASE records = <<>>
  BY <1>1
<1>2. CASE \E resp \in Responses : records = resp.records
  <2>1. PICK resp \in Responses : records = resp.records
    BY <1>2
  <2> HIDE DEF Mappings, Rows
  <2>2. resp \in [source : {"none"}, confidence : 0 .. 100, mapping : Mappings,
                  records : Seq([id : Ids, row : Rows])]
    BY ResponseAssumption
  <2> QED
    BY <2>1, <2>2
<1> QED
  BY <1>1, <1>2 DEF RecordLists

LEMMA RowForType ==
  ASSUME NEW records \in RecordLists, NEW i \in Ids
  PROVE  RowFor(records, i) \in Rows \cup {Null}
<1> SUFFICES ASSUME \E n \in valid(records) : records[n].id = i
             PROVE  RowFor(records, i) \in Rows
  BY DEF RowFor
<1> DEFINE n == CHOOSE n \in valid(records) : records[n].id = i
<1>1. n \in DOMAIN records /\ RowFor(records, i) = records[n].row
  BY DEF RowFor, valid
<1>2. records \in Seq([id : Ids, row : Rows])
  BY RecordsType
<1> DEFINE Record == [id : Ids, row : Rows]
<1> HIDE DEF n, Rows, Record
<1>4. records \in Seq(Record)
  BY <1>2 DEF Record
<1>3. records[n] \in Record
  BY <1>1, <1>4
<1> QED
  BY <1>1, <1>3 DEF Record

LEMMA OverwriteType ==
  ASSUME NEW old \in Rows, NEW new \in Rows
  PROVE  /\ \A moved : Overwrite(old, moved, new) \in Rows
         /\ changed_fields(old, new) \in Changes
<1>1. \A moved : Overwrite(old, moved, new) \in Rows
  BY DEF Overwrite, Rows
<1>2. diff(old, new) \in SUBSET TRACKED_FIELDS
  BY DEF diff
<1>3. changed_fields(old, new) \in [diff(old, new) -> [old : Values \cup {Null}, new : Values \cup {Null}]]
  BY <1>2 DEF changed_fields, Rows
<1> QED
  BY <1>1, <1>2, <1>3 DEF Changes

LEMMA Share ==
  ASSUME NEW part \in Nat, NEW whole \in Nat \ {0}, part <= whole
  PROVE  (100 * part) \div whole \in 0 .. 100
OBVIOUS

\* The confidence of a batch is a percentage.
LEMMA ConfidenceType ==
  ASSUME NEW confidence \in 0 .. 100, NEW records \in RecordLists
  PROVE  compute_confidence(confidence, records) \in 0 .. 100
<1>1. CASE valid(records) = {}
  BY <1>1 DEF compute_confidence
<1>2. CASE valid(records) # {}
  <2>1. records \in Seq([id : Ids, row : Rows])
    BY RecordsType
  <2>2. valid(records) \subseteq 1 .. Len(records)
    BY <2>1 DEF valid
  <2>3. IsFiniteSet(1 .. Len(records)) /\ Cardinality(1 .. Len(records)) = Len(records)
    <3>1. Len(records) \in Nat
      BY <2>1
    <3> DEFINE L == Len(records)
    <3> HIDE DEF L
    <3>2. L \in Nat => IsFiniteSet(1 .. L) /\ Cardinality(1 .. L) = L
      BY FS_Interval
    <3> QED
      BY <3>1, <3>2 DEF L
  <2>4. IsFiniteSet(valid(records)) /\ Cardinality(valid(records)) <= Len(records)
    BY <2>2, <2>3, FS_Subset
  <2>5. Cardinality(valid(records)) \in Nat /\ Len(records) \in Nat \ {0}
    BY <1>2, <2>1, <2>2, <2>4, FS_CardinalityType
  <2>6. validity_ratio(records) \in 0 .. 100
    BY <2>4, <2>5, Share DEF validity_ratio
  <2> DEFINE ratio == validity_ratio(records)
  <2>7. compute_confidence(confidence, records) = (6 * confidence + 4 * ratio) \div 10
    BY <1>2 DEF compute_confidence
  <2>8. ASSUME NEW r \in 0 .. 100
        PROVE  (6 * confidence + 4 * r) \div 10 \in 0 .. 100
    OBVIOUS
  <2> HIDE DEF ratio
  <2> QED
    BY <2>6, <2>7, <2>8 DEF ratio
<1> QED
  BY <1>1, <1>2

-----------------------------------------------------------------------------
(* Types.                                                                  *)

USE DEF Goto

LEMMA NoChangeType == NoChange \in Changes
<1>1. NoChange \in [{} -> [old : Values \cup {Null}, new : Values \cup {Null}]]
  BY DEF NoChange
<1> QED
  BY <1>1 DEF Changes

LEMMA NoWorkType == NoWork \in Sessions
<1>1. NoChange \in Changes
  BY NoChangeType
<1>2. [i \in Ids |-> Null] \in MaybeRow
  BY DEF MaybeRow
<1>3. NoResponse \in Chosen
  BY DEF NoResponse, Chosen, Mappings, RecordLists
<1> QED
  BY <1>1, <1>2, <1>3, PipelineAssumption DEF NoWork, Sessions, RunStatus

LEMMA SessionsInit == Init => SessionsOK
<1> SUFFICES ASSUME Init PROVE SessionsOK
  OBVIOUS
<1>1. ipos \in MaybeRow /\ runs \in [Run -> RunRows \cup {Null}]
  BY DEF Init, MaybeRow
<1>2. snapshots \in [Ids -> Seq([run : Run, changes : Changes])]
  BY DEF Init
<1>3. pc \in [Jobs -> Stages] /\ work \in [Jobs -> Sessions]
  BY NoWorkType DEF Init, Stages
<1>4. started \in 0 .. MaxRuns /\ \A r \in Run : runs[r] = Null
  BY PipelineAssumption DEF Init
<1> QED
  BY <1>1, <1>2, <1>3, <1>4 DEF SessionsOK

\* The responses as a session keeps them.
LEMMA ChosenType ==
  ASSUME NEW resp \in Responses, NEW s \in {"api", "page"}
  PROVE  /\ [resp EXCEPT !.source = s] \in Chosen
         /\ [resp EXCEPT !.source = s].records = resp.records
<1> HIDE DEF Mappings, Rows
<1>1. resp \in [source : {"none"}, confidence : 0 .. 100, mapping : Mappings,
                records : Seq([id : Ids, row : Rows])]
  BY ResponseAssumption
<1>2. resp.records \in RecordLists
  BY DEF RecordLists
<1> QED
  BY <1>1, <1>2 DEF Chosen

-----------------------------------------------------------------------------
(* The invariant.                                                          *)

\* What a step of j leaves of the others, if it writes no table.
LEMMA OthersKeep ==
  ASSUME ScrapeInv, NEW j \in Jobs, NEW k \in Jobs \ {j},
         UNCHANGED <<runs, ipos, started>>, lock = k => lock' = k,
         pc'[k] = pc[k], work'[k] = work[k]
  PROVE  RunInv(k)' /\ MergeInv(k)'
<1>1. RunInv(k) /\ MergeInv(k)
  BY DEF ScrapeInv
<1>2. RunInv(k)'
  BY <1>1 DEF RunInv, Working, Written
<1>3. MergeInv(k)'
  BY <1>1 DEF MergeInv, Written, Batch, Merged
<1> QED
  BY <1>2, <1>3

LEMMA Frame ==
  ASSUME ScrapeInv, NEW j \in Jobs, SessionsOK', UNCHANGED <<runs, ipos, started>>,
         \A k \in Jobs \ {j} : /\ lock = k => lock' = k
                               /\ pc'[k] = pc[k] /\ work'[k] = work[k]
                               /\ PairInv(j, k)' /\ PairInv(k, j)',
         RunInv(j)', MergeInv(j)'
  PROVE  ScrapeInv'
<1>1. \A k \in Jobs : RunInv(k)' /\ MergeInv(k)'
  BY OthersKeep
<1>2. ASSUME NEW k \in Jobs, NEW l \in Jobs \ {k}
      PROVE  PairInv(k, l)'
  <2>1. CASE k = j
    BY <2>1
  <2>2. CASE l = j
    BY <2>2
  <2>3. CASE k # j /\ l # j
    <3>1. PairInv(k, l)
      BY DEF ScrapeInv
    <3> QED
      BY <2>3, <3>1 DEF PairInv, Working
  <2> QED
    BY <2>1, <2>2, <2>3
<1> QED
  BY <1>1, <1>2 DEF ScrapeInv

\* A step within a scrape that does not write rows.
LEMMA QuietStep ==
  ASSUME ScrapeInv, NEW j \in Jobs, NEW stage \in Stages \ {"idle"}, NEW own \in Sessions,
         pc[j] # "idle", stage # "commit" => Working(j), Goto(j, stage),
         work' = [work EXCEPT ![j] = own],
         own.run = work[j].run, own.overlapping = work[j].overlapping,
         own.writes = work[j].writes,
         UNCHANGED <<tables, started>>, \A k \in Jobs \ {j} : lock = k => lock' = k,
         RunInv(j)', MergeInv(j)'
  PROVE  ScrapeInv'
<1>t. SessionsOK
  BY DEF ScrapeInv
<1>1. /\ pc'[j] = stage /\ work'[j] = own
      /\ \A k \in Jobs \ {j} : pc'[k] = pc[k] /\ work'[k] = work[k]
  BY <1>t DEF SessionsOK
<1>2. SessionsOK'
  <2>1. pc' \in [Jobs -> Stages] /\ work' \in [Jobs -> Sessions]
    BY <1>t DEF SessionsOK
  <2> QED
    BY <1>t, <2>1 DEF SessionsOK, tables
<1>3. ASSUME NEW k \in Jobs \ {j}
      PROVE  PairInv(j, k)' /\ PairInv(k, j)'
  <2>1. PairInv(j, k) /\ PairInv(k, j)
    BY DEF ScrapeInv
  <2> QED
    BY <1>1, <2>1 DEF PairInv, Working
<1> QED
  BY <1>1, <1>2, <1>3, Frame DEF tables

\* Before the rows are read there is nothing to be wrong about.
LEMMA EarlyStep ==
  ASSUME ScrapeInv, NEW j \in Jobs, NEW stage \in Stages \ {"idle", "commit"}, NEW own \in Sessions,
         pc[j] \in {"fetch_api", "fetch_page", "compare"}, Goto(j, stage),
         stage \notin {"load", "flush"},
         work' = [work EXCEPT ![j] = own],
         own.run = work[j].run, own.overlapping = work[j].overlapping,
         own.writes = work[j].writes, own.changes = work[j].changes, own.status = work[j].status,
         UNCHANGED <<tables, started, lock>>
  PROVE  ScrapeInv'
<1>t. SessionsOK /\ RunInv(j) /\ MergeInv(j)
  BY DEF ScrapeInv
<1>1. pc'[j] = stage /\ work'[j] = own
  BY <1>t DEF SessionsOK
<1>2. ~Written(j)
  BY <1>t DEF RunInv
<1>3. ~Written(j)' /\ Working(j) /\ Working(j)'
  BY <1>1, <1>2 DEF Written, Working
<1>4. RunInv(j)'
  BY <1>t, <1>1, <1>3 DEF RunInv, Working, tables
<1>5. MergeInv(j)'
  BY <1>t, <1>1, <1>2, <1>3 DEF MergeInv
<1> QED
  BY <1>1, <1>3, <1>4, <1>5, QuietStep

\* A step that notes a response or a warning.
LEMMA NotingStep ==
  ASSUME ScrapeInv, NEW j \in Jobs, NEW stage \in {"fetch_page", "compare", "gate", "complete"},
         NEW chosen \in Chosen, NEW warned \in BOOLEAN,
         pc[j] \in {"fetch_api", "fetch_page", "compare"}, Goto(j, stage),
         work' = [work EXCEPT ![j].chosen = chosen, ![j].warned = warned],
         UNCHANGED <<tables, started, lock>>
  PROVE  ScrapeInv'
<1> DEFINE own == [work[j] EXCEPT !.chosen = chosen, !.warned = warned]
<1>t. SessionsOK
  BY DEF ScrapeInv
<1>2. work[j] \in Sessions
  BY <1>t DEF SessionsOK
<1>4. work' = [work EXCEPT ![j] = own]
  BY <1>t, <1>2 DEF Sessions, SessionsOK
<1>3. /\ own \in Sessions
      /\ own.run = work[j].run /\ own.overlapping = work[j].overlapping
      /\ own.writes = work[j].writes /\ own.changes = work[j].changes
      /\ own.status = work[j].status
  BY <1>2 DEF Sessions
<1> HIDE DEF own
<1> QED
  BY <1>3, <1>4, EarlyStep DEF Stages

LEMMA FetchKeeps ==
  ASSUME ScrapeInv, NEW j \in Jobs,
         FetchApi(j) \/ FetchApiFails(j) \/ FetchPage(j) \/ FetchPageFails(j) \/ Compare(j)
  PROVE  ScrapeInv'
<1>t. work \in [Jobs -> Sessions]
  BY DEF ScrapeInv, SessionsOK
<1>o. work[j].chosen \in Chosen /\ work[j].warned \in BOOLEAN
  BY <1>t DEF Sessions
<1>s. \A chosen, warned :
        /\ [work EXCEPT ![j].chosen = chosen] =
              [work EXCEPT ![j].chosen = chosen, ![j].warned = work[j].warned]
        /\ [work EXCEPT ![j].warned = warned] =
              [work EXCEPT ![j].chosen = work[j].chosen, ![j].warned = warned]
        /\ work = [work EXCEPT ![j].chosen = work[j].chosen, ![j].warned = work[j].warned]
  <2>1. work[j] \in Sessions
    BY <1>t
  <2> QED
    BY <1>t, <2>1 DEF Sessions
<1>1. CASE FetchApi(j)
  <2>1. PICK resp \in Responses :
          /\ work' = [work EXCEPT ![j].chosen = [resp EXCEPT !.source = "api"]]
          /\ Goto(j, IF resp.records # <<>> /\ resp.confidence >= MinConfidence
                     THEN "compare" ELSE "fetch_page")
    BY <1>1 DEF FetchApi
  <2> DEFINE chosen == [resp EXCEPT !.source = "api"]
  <2>2. chosen \in Chosen
    BY ChosenType
  <2>3. work' = [work EXCEPT ![j].chosen = chosen, ![j].warned = work[j].warned]
    BY <1>s, <2>1
  <2> HIDE DEF chosen
  <2>4. PICK stage \in {"compare", "fetch_page"} : Goto(j, stage)
    BY <2>1
  <2> QED
    BY <1>1, <1>o, <2>2, <2>3, <2>4, NotingStep DEF FetchApi
<1>2. CASE FetchApiFails(j)
  <2>1. work' = [work EXCEPT ![j].chosen = work[j].chosen, ![j].warned = work[j].warned]
    BY <1>2, <1>s DEF FetchApiFails
  <2> QED
    BY <1>2, <1>o, <2>1, NotingStep DEF FetchApiFails
<1>3. CASE FetchPage(j)
  <2>1. PICK resp \in Responses :
          \/ work' = work
          \/ work' = [work EXCEPT ![j].chosen = [resp EXCEPT !.source = "page"], ![j].warned = TRUE]
    BY <1>3 DEF FetchPage
  <2> DEFINE chosen == [resp EXCEPT !.source = "page"]
  <2>2. chosen \in Chosen
    BY ChosenType
  <2>3. CASE work' = work
    <3>1. work' = [work EXCEPT ![j].chosen = work[j].chosen, ![j].warned = work[j].warned]
      BY <1>s, <2>3
    <3> QED
      BY <1>3, <1>o, <3>1, NotingStep DEF FetchPage
  <2>4. CASE work' = [work EXCEPT ![j].chosen = chosen, ![j].warned = TRUE]
    <3> HIDE DEF chosen
    <3> QED
      BY <1>3, <2>2, <2>4, NotingStep DEF FetchPage
  <2> QED
    BY <2>1, <2>3, <2>4
<1>4. CASE FetchPageFails(j)
  <2>1. NoResponse \in Chosen
    BY DEF NoResponse, Chosen, Mappings, RecordLists
  <2>2. work' = [work EXCEPT ![j].chosen = NoResponse, ![j].warned = work[j].warned]
    BY <1>4, <1>s DEF FetchPageFails
  <2> QED
    BY <1>4, <1>o, <2>1, <2>2, NotingStep DEF FetchPageFails
<1>5. CASE Compare(j)
  <2> DEFINE warned == work[j].warned \/
               /\ previous_field_mapping # Null
               /\ StructureChanged(previous_field_mapping, work[j].chosen.mapping)
  <2>1. work' = [work EXCEPT ![j].warned = warned]
    BY <1>5 DEF Compare
  <2> HIDE DEF warned
  <2>2. warned \in BOOLEAN
    BY DEF warned
  <2>3. work' = [work EXCEPT ![j].chosen = work[j].chosen, ![j].warned = warned]
    BY <1>s, <2>1
  <2> QED
    BY <1>5, <1>o, <2>2, <2>3, NotingStep DEF Compare
<1> QED
  BY <1>1, <1>2, <1>3, <1>4, <1>5

LEMMA GateKeeps ==
  ASSUME ScrapeInv, NEW j \in Jobs, Gate(j)
  PROVE  ScrapeInv'
<1> DEFINE resp == work[j].chosen
           score == IF resp.records = <<>> THEN 0
                    ELSE compute_confidence(resp.confidence, resp.records)
           warned == work[j].warned \/
                       (resp.records # <<>> /\ valid(resp.records) # DOMAIN resp.records)
           own == [work[j] EXCEPT !.confidence = score, !.warned = warned]
           stage == IF Trusted(resp) THEN "load" ELSE "complete"
<1>t. SessionsOK /\ RunInv(j) /\ MergeInv(j) /\ work[j] \in Sessions /\ pc[j] = "gate"
  BY DEF ScrapeInv, SessionsOK, Gate
<1>1. score \in 0 .. 100
  <2>1. resp \in Chosen
    BY <1>t DEF Sessions
  <2>2. resp.confidence \in 0 .. 100 /\ resp.records \in RecordLists
    BY <2>1 DEF Chosen
  <2>3. compute_confidence(resp.confidence, resp.records) \in 0 .. 100
    BY <2>2, ConfidenceType
  <2> QED
    BY <2>3
<1>2. warned \in BOOLEAN
  OBVIOUS
<1>3. work' = [work EXCEPT ![j].confidence = score, ![j].warned = warned] /\ Goto(j, stage)
  BY DEF Gate
<1>4. Trusted(resp) => score = compute_confidence(resp.confidence, resp.records)
  BY DEF Trusted
<1> HIDE DEF score, warned
<1>5. work' = [work EXCEPT ![j] = own]
  BY <1>t, <1>3 DEF Sessions, SessionsOK
<1>6. /\ own \in Sessions
      /\ own.run = work[j].run /\ own.overlapping = work[j].overlapping
      /\ own.writes = work[j].writes /\ own.changes = work[j].changes
      /\ own.status = work[j].status /\ own.chosen = resp /\ own.confidence = score
  BY <1>t, <1>1, <1>2 DEF Sessions
<1> HIDE DEF own, resp
<1>7. pc'[j] = stage /\ work'[j] = own
  BY <1>t, <1>3, <1>5 DEF SessionsOK
<1>8. ~Written(j) /\ ~Written(j)' /\ Working(j) /\ Working(j)'
  BY <1>t, <1>6, <1>7 DEF Written, Working, RunInv
<1>9. RunInv(j)'
  <2>1. work'[j].chosen = resp /\ work'[j].confidence = score /\ work'[j].run = work[j].run
    BY <1>6, <1>7
  <2>2. stage \in {"load", "flush"} => Trusted(resp)
    OBVIOUS
  <2>3. UNCHANGED <<runs, lock, started>>
    BY DEF Gate, tables
  <2>4. stage # "idle"
    OBVIOUS
  <2> HIDE DEF stage
  <2> QED
    BY <1>t, <1>4, <1>7, <1>8, <2>1, <2>2, <2>3, <2>4 DEF RunInv
<1>10. MergeInv(j)'
  BY <1>t, <1>6, <1>7, <1>8 DEF MergeInv
<1>11. stage \in Stages \ {"idle", "commit"}
  BY DEF Stages
<1> HIDE DEF stage
<1> QED
  BY <1>t, <1>3, <1>5, <1>6, <1>8, <1>9, <1>10, <1>11, QuietStep DEF Gate

LEMMA LoadKeeps ==
  ASSUME ScrapeInv, NEW j \in Jobs, Load(j)
  PROVE  ScrapeInv'
<1> DEFINE seen == [i \in Ids |-> IF RowFor(work[j].chosen.records, i) # Null THEN ipos[i] ELSE Null]
           own == [work[j] EXCEPT !.existing = seen]
<1>t. /\ SessionsOK /\ RunInv(j) /\ MergeInv(j) /\ work[j] \in Sessions /\ pc[j] = "load"
      /\ ipos \in MaybeRow
  BY DEF ScrapeInv, SessionsOK, Load
<1>1. seen \in MaybeRow
  BY <1>t DEF MaybeRow
<1>2. work' = [work EXCEPT ![j].existing = seen] /\ Goto(j, "flush")
  BY DEF Load
<1>3. \A i \in Ids : RowFor(work[j].chosen.records, i) # Null => seen[i] = ipos[i]
  OBVIOUS
<1> HIDE DEF seen
<1>4. work' = [work EXCEPT ![j] = own]
  BY <1>t, <1>2 DEF Sessions, SessionsOK
<1>5. /\ own \in Sessions
      /\ own.run = work[j].run /\ own.overlapping = work[j].overlapping
      /\ own.writes = work[j].writes /\ own.changes = work[j].changes
      /\ own.status = work[j].status /\ own.chosen = work[j].chosen
      /\ own.confidence = work[j].confidence /\ own.existing = seen
  BY <1>t, <1>1 DEF Sessions
<1> HIDE DEF own
<1>6. pc'[j] = "flush" /\ work'[j] = own
  BY <1>t, <1>2, <1>4 DEF SessionsOK
<1>7. ~Written(j) /\ ~Written(j)' /\ Working(j) /\ Working(j)'
  BY <1>t, <1>5, <1>6 DEF Written, Working, RunInv
<1>8. RunInv(j)'
  BY <1>t, <1>5, <1>6, <1>7 DEF RunInv, Load, tables
<1>9. \A i \in Batch(j)' : work'[j].existing[i] = ipos'[i]
  BY <1>3, <1>5, <1>6 DEF Batch, Load, tables
<1>10. MergeInv(j)'
  BY <1>t, <1>5, <1>6, <1>7, <1>9 DEF MergeInv
<1> QED
  BY <1>t, <1>2, <1>4, <1>5, <1>7, <1>8, <1>10, QuietStep DEF Load, Stages

\* What a run merges is rows and snapshots.
LEMMA MergedRows ==
  ASSUME ScrapeInv, NEW j \in Jobs, Written(j) \/ pc[j] = "flush", NEW i \in Batch(j)
  PROVE  /\ Merged(j, i) \in Rows /\ Merged(j, i) # Null
         /\ work[j].existing[i] # Null =>
              changed_fields(work[j].existing[i], RowFor(work[j].chosen.records, i)) \in Changes
<1> DEFINE new == RowFor(work[j].chosen.records, i)
           old == work[j].existing[i]
<1>t. SessionsOK /\ MergeInv(j) /\ work[j] \in Sessions /\ i \in Ids
  BY DEF ScrapeInv, SessionsOK, Batch
<1>1. new \in Rows
  <2>1. work[j].chosen \in Chosen
    BY <1>t DEF Sessions
  <2>2. work[j].chosen.records \in RecordLists
    BY <2>1 DEF Chosen
  <2>3. new # Null
    BY DEF Batch
  <2> QED
    BY <1>t, <2>2, <2>3, RowForType
<1>2. old \in Rows \cup {Null} /\ ipos[i] \in Rows \cup {Null}
  <2>1. work[j].existing \in MaybeRow /\ ipos \in MaybeRow
    BY <1>t DEF Sessions, SessionsOK
  <2> QED
    BY <1>t, <2>1 DEF MaybeRow
<1>3. old # Null => ipos[i] # Null
  BY <1>t DEF MergeInv
<1>4. Merged(j, i) = IF old = Null THEN new ELSE Overwrite(ipos[i], diff(old, new), new)
  BY DEF Merged
<1> HIDE DEF new, old
<1>5. Merged(j, i) \in Rows
  BY <1>1, <1>2, <1>3, <1>4, OverwriteType
<1>6. old # Null => changed_fields(old, new) \in Changes
  BY <1>1, <1>2, OverwriteType
<1> QED
  BY <1>5, <1>6, ResponseAssumption DEF old, new

LEMMA FlushKeeps ==
  ASSUME ScrapeInv, NEW j \in Jobs, Flush(j)
  PROVE  ScrapeInv'
<1> DEFINE rows == [i \in Ids |-> IF i \in Batch(j) THEN Merged(j, i) ELSE Null]
           told == [i \in Ids |->
                      IF i \in Batch(j) /\ work[j].existing[i] # Null
                      THEN changed_fields(work[j].existing[i], RowFor(work[j].chosen.records, i))
                      ELSE NoChange]
           status == IF work[j].warned THEN "PARTIAL" ELSE "SUCCESS"
           own == [work[j] EXCEPT !.writes = rows, !.changes = told, !.status = status]
<1>t. /\ SessionsOK /\ RunInv(j) /\ MergeInv(j) /\ work[j] \in Sessions /\ pc[j] = "flush"
      /\ Unlocked(j) /\ ~Conflict(j)
  BY DEF ScrapeInv, SessionsOK, Flush
<1>1. rows \in MaybeRow
  BY <1>t, MergedRows DEF MaybeRow
<1>2. told \in [Ids -> Changes]
  BY <1>t, MergedRows, NoChangeType
<1>3. status \in RunStatus /\ status # "FAILED"
  BY DEF RunStatus
<1>4. /\ work' = [work EXCEPT ![j].writes = rows, ![j].changes = told, ![j].status = status]
      /\ Goto(j, "complete")
  BY DEF Flush
<1>5. /\ \A i \in Batch(j) : rows[i] = Merged(j, i)
      /\ \A i \in Batch(j) : told[i] =
           IF work[j].existing[i] = Null THEN NoChange
           ELSE changed_fields(work[j].existing[i], RowFor(work[j].chosen.records, i))
      /\ \A i \in Ids \ Batch(j) : rows[i] = Null /\ told[i] = NoChange
  BY DEF Batch
<1> HIDE DEF rows, told, status
<1>6. work' = [work EXCEPT ![j] = own]
  BY <1>t, <1>4 DEF Sessions, SessionsOK
<1>7. /\ own \in Sessions
      /\ own.run = work[j].run /\ own.overlapping = work[j].overlapping
      /\ own.writes = rows /\ own.changes = told
      /\ own.status = status /\ own.chosen = work[j].chosen
      /\ own.confidence = work[j].confidence /\ own.existing = work[j].existing
  BY <1>t, <1>1, <1>2, <1>3 DEF Sessions
<1> HIDE DEF own
<1>8. /\ pc'[j] = "complete" /\ work'[j] = own
      /\ \A k \in Jobs \ {j} : pc'[k] = pc[k] /\ work'[k] = work[k]
  BY <1>t, <1>4, <1>6 DEF SessionsOK
<1>9. Written(j)' /\ Working(j) /\ Working(j)'
  BY <1>t, <1>3, <1>7, <1>8 DEF Written, Working
<1>10. RunInv(j)'
  BY <1>t, <1>7, <1>8, <1>9 DEF RunInv, Flush, tables
<1>11. MergeInv(j)'
  <2>1. Batch(j)' = Batch(j) /\ Batch(j) \subseteq Ids /\ UNCHANGED ipos
    BY <1>7, <1>8 DEF Batch, Flush, tables
  <2>2. \A i \in Ids : Merged(j, i)' = Merged(j, i)
    BY <1>7, <1>8, <2>1 DEF Merged
  <2>3. \A i \in Batch(j) : work[j].existing[i] = Null => ipos[i] = Null
    BY <1>t DEF Conflict
  <2>4. \A i \in Batch(j) : /\ work[j].existing[i] # Null => ipos[i] # Null
                            /\ ~work[j].overlapping => work[j].existing[i] = ipos[i]
    BY <1>t DEF MergeInv
  <2> QED
    BY <1>5, <1>7, <1>8, <1>9, <2>1, <2>2, <2>3, <2>4 DEF MergeInv
<1>12. SessionsOK'
  <2>1. UNCHANGED <<runs, ipos, snapshots, started>>
    BY DEF Flush, tables
  <2>2. pc' \in [Jobs -> Stages]
    BY <1>t, <1>4 DEF SessionsOK, Stages
  <2>3. work' \in [Jobs -> Sessions]
    BY <1>t, <1>6, <1>7 DEF SessionsOK
  <2> QED
    BY <1>t, <2>1, <2>2, <2>3 DEF SessionsOK
<1>13. ASSUME NEW k \in Jobs \ {j}
       PROVE  PairInv(j, k)' /\ PairInv(k, j)'
  <2>1. PairInv(j, k) /\ PairInv(k, j)
    BY DEF ScrapeInv
  <2>2. \A i \in Ids : rows[i] = Null \/ work[k].writes[i] = Null
    BY <1>5, <1>t DEF Unlocked
  <2>3. UNCHANGED <<runs, ipos, started>>
    BY DEF Flush, tables
  <2> QED
    BY <1>7, <1>8, <1>9, <1>t, <2>1, <2>2, <2>3 DEF PairInv, Working
<1> QED
  BY <1>8, <1>10, <1>11, <1>12, <1>13, Frame DEF Flush, tables

LEMMA CompleteKeeps ==
  ASSUME ScrapeInv, NEW j \in Jobs, Complete(j) \/ Unlock(j)
  PROVE  ScrapeInv'
<1>t. /\ SessionsOK /\ RunInv(j) /\ MergeInv(j) /\ work[j] \in Sessions
      /\ pc[j] \in {"complete", "unlock"} /\ UNCHANGED <<tables, started>>
  BY DEF ScrapeInv, SessionsOK, Complete, Unlock
<1>1. PICK keep \in BOOLEAN, r \in 0 .. MaxRuns :
        work' = [work EXCEPT ![j] = [work[j] EXCEPT !.keep = keep, !.expired = r]]
  <2>1. CASE Complete(j)
    <3> DEFINE keep == /\ work[j].chosen.source # "none"
                       /\ \/ RetentionMode = "always"
                          \/ RetentionMode = "on_failure" /\ work[j].status = "FAILED"
    <3>1. PICK r \in Expirable \cup {0} : work' = [work EXCEPT ![j].keep = keep, ![j].expired = r]
      BY <2>1 DEF Complete
    <3>2. keep \in BOOLEAN
      OBVIOUS
    <3> HIDE DEF keep
    <3>3. work' = [work EXCEPT ![j] = [work[j] EXCEPT !.keep = keep, !.expired = r]]
      BY <1>t, <3>1 DEF Sessions, SessionsOK
    <3>4. r \in 0 .. MaxRuns
      BY PipelineAssumption DEF Expirable, Run
    <3> QED
      BY <3>2, <3>3, <3>4
  <2>2. CASE Unlock(j)
    <3>1. work' = work
      BY <2>2 DEF Unlock
    <3>2. /\ work[j] = [work[j] EXCEPT !.keep = work[j].keep, !.expired = work[j].expired]
          /\ work[j].keep \in BOOLEAN /\ work[j].expired \in 0 .. MaxRuns
      BY <1>t DEF Sessions
    <3>3. work' = [work EXCEPT ![j] = work[j]]
      BY <1>t, <3>1 DEF SessionsOK
    <3>4. work' = [work EXCEPT ![j] = [work[j] EXCEPT !.keep = work[j].keep, !.expired = work[j].expired]]
      BY <3>2, <3>3
    <3> QED
      BY <3>2, <3>4
  <2> QED
    BY <2>1, <2>2
<1> DEFINE own == [work[j] EXCEPT !.keep = keep, !.expired = r]
<1>2. /\ own \in Sessions
      /\ own.run = work[j].run /\ own.overlapping = work[j].overlapping
      /\ own.writes = work[j].writes /\ own.changes = work[j].changes
      /\ own.status = work[j].status /\ own.chosen = work[j].chosen
      /\ own.confidence = work[j].confidence /\ own.existing = work[j].existing
  BY <1>t DEF Sessions
<1> HIDE DEF own
<1>3. work' = [work EXCEPT ![j] = own] /\ work'[j] = own
  BY <1>1, <1>t DEF own, SessionsOK
<1>4. PICK stage \in {"unlock", "commit"} :
         /\ Goto(j, stage)
         /\ stage = "unlock" => lock' = lock
         /\ \A k \in Jobs \ {j} : lock = k => lock' = k
  <2>1. lock = j \/ Complete(j)
    BY <1>t DEF RunInv, Working
  <2> QED
    BY <2>1, <1>t DEF Complete, Unlock, RunInv, Working
<1>5. pc'[j] = stage
  BY <1>4, <1>t DEF SessionsOK
<1>6. RunInv(j)'
  BY <1>t, <1>2, <1>3, <1>4, <1>5 DEF RunInv, Working, Written, tables
<1>7. MergeInv(j)'
  <2>1. Batch(j)' = Batch(j) /\ UNCHANGED ipos /\ \A i \in Ids : Merged(j, i)' = Merged(j, i)
    BY <1>t, <1>2, <1>3 DEF Batch, Merged, tables
  <2>2. Batch(j) \subseteq Ids
    BY DEF Batch
  <2> QED
    BY <1>t, <1>2, <1>3, <1>5, <2>1, <2>2 DEF MergeInv, Written
<1> QED
  BY <1>t, <1>2, <1>3, <1>4, <1>6, <1>7, QuietStep DEF Stages, Working

\* A job that ends without writing leaves the rest as it is.
LEMMA AbortKeeps ==
  ASSUME ScrapeInv, NEW j \in Jobs, Abort(j)
  PROVE  ScrapeInv'
<1>t. SessionsOK
  BY DEF ScrapeInv
<1>1. /\ pc'[j] = "idle" /\ work'[j] = NoWork
      /\ \A k \in Jobs \ {j} : pc'[k] = pc[k] /\ work'[k] = work[k]
  BY <1>t DEF SessionsOK, Abort
<1>2. SessionsOK'
  BY <1>t, NoWorkType DEF SessionsOK, Abort, tables, Stages
<1>3. RunInv(j)' /\ MergeInv(j)'
  BY <1>1 DEF RunInv, MergeInv, Working, Written, NoWork
<1>4. ASSUME NEW k \in Jobs \ {j}
      PROVE  PairInv(j, k)' /\ PairInv(k, j)' /\ (lock = k => lock' = k)
  BY <1>1 DEF PairInv, Working, NoWork, Abort, ScrapeInv
<1> QED
  BY <1>1, <1>2, <1>3, <1>4, Frame DEF Abort, tables

LEMMA StartKeeps ==
  ASSUME ScrapeInv, NEW j \in Jobs, Start(j)
  PROVE  ScrapeInv'
<1> DEFINE overlapping == \E k \in Jobs : pc[k] = "commit"
           own == [work[j] EXCEPT !.run = started + 1, !.overlapping = overlapping]
<1>t. /\ SessionsOK /\ work[j] = NoWork /\ pc[j] = "idle"
      /\ lock = Null /\ lock' = j /\ started < MaxRuns /\ started' = started + 1
      /\ UNCHANGED tables
  BY DEF ScrapeInv, RunInv, Start
<1>1. /\ work' = [work EXCEPT ![j].run = started + 1, ![j].overlapping = overlapping]
      /\ Goto(j, "fetch_api")
  BY DEF Start
<1>2. overlapping \in BOOLEAN /\ (~overlapping => \A k \in Jobs : pc[k] # "commit")
  OBVIOUS
<1>3. started \in Nat /\ MaxRuns \in Nat /\ started + 1 \in 0 .. MaxRuns
  BY <1>t, PipelineAssumption DEF SessionsOK
<1>4. work[j] \in Sessions
  BY <1>t DEF SessionsOK
<1> HIDE DEF overlapping
<1>5. work' = [work EXCEPT ![j] = own]
  BY <1>t, <1>1, <1>4 DEF Sessions, SessionsOK
<1>6. /\ own \in Sessions
      /\ own.run = started + 1 /\ own.overlapping = overlapping
      /\ own.writes = work[j].writes /\ own.changes = work[j].changes
      /\ own.status = work[j].status
  <2> DEFINE next == started + 1
  <2> HIDE DEF next
  <2>1. next \in 0 .. MaxRuns
    BY <1>3 DEF next
  <2> QED
    BY <1>2, <1>4, <2>1 DEF Sessions, next
<1> HIDE DEF own
<1>7. /\ pc'[j] = "fetch_api" /\ work'[j] = own
      /\ \A k \in Jobs \ {j} : pc'[k] = pc[k] /\ work'[k] = work[k]
  BY <1>t, <1>1, <1>5 DEF SessionsOK
<1>8. SessionsOK'
  <2>1. pc' \in [Jobs -> Stages] /\ work' \in [Jobs -> Sessions]
    BY <1>t, <1>1, <1>5, <1>6 DEF SessionsOK, Stages
  <2>2. started' \in 0 .. MaxRuns /\ \A r \in Run : r > started' => runs'[r] = Null
    BY <1>t, <1>3 DEF SessionsOK, tables, Run
  <2> QED
    BY <1>t, <2>1, <2>2 DEF SessionsOK, tables
<1>9. ~Written(j)' /\ RunInv(j)'
  <2>1. ~Written(j)'
    BY <1>6, <1>7, <1>t DEF Written, NoWork
  <2>2. started + 1 > started /\ started + 1 \in Run
    BY <1>3 DEF Run
  <2>3. runs'[started + 1] = Null
    BY <1>t, <2>2 DEF SessionsOK, tables
  <2> QED
    BY <1>t, <1>3, <1>6, <1>7, <2>1, <2>3 DEF RunInv, Working
<1>10. MergeInv(j)'
  BY <1>t, <1>6, <1>7, <1>9 DEF MergeInv, NoWork
<1>11. ASSUME NEW k \in Jobs \ {j}
       PROVE  /\ ~Working(k)
              /\ PairInv(j, k)' /\ PairInv(k, j)' /\ RunInv(k)' /\ MergeInv(k)'
  <2>t. RunInv(k) /\ MergeInv(k) /\ PairInv(j, k) /\ PairInv(k, j)
    BY DEF ScrapeInv
  <2>1. ~Working(k) /\ (pc[k] = "idle" \/ pc[k] = "commit")
    BY <1>t, <2>t, PipelineAssumption DEF RunInv, Working
  <2>2. pc[k] # "idle" => work[k].run \in 1 .. started
    BY <2>t DEF RunInv
  <2>3. PairInv(j, k)' /\ PairInv(k, j)'
    BY <1>2, <1>3, <1>6, <1>7, <2>t, <2>1, <2>2, <1>t DEF PairInv, Working, NoWork
  <2>4. RunInv(k)'
    BY <1>t, <1>3, <1>7, <2>t, <2>1 DEF RunInv, Working, Written, tables
  <2>5. MergeInv(k)'
    BY <1>t, <1>7, <2>t DEF MergeInv, Written, Batch, Merged, tables
  <2> QED
    BY <2>1, <2>3, <2>4, <2>5
<1>12. ASSUME NEW k \in Jobs \ {j}, NEW l \in Jobs \ {j, k}
       PROVE  PairInv(k, l)'
  <2>1. PairInv(k, l)
    BY DEF ScrapeInv
  <2> QED
    BY <1>7, <2>1 DEF PairInv, Working
<1> QED
  BY <1>8, <1>9, <1>10, <1>11, <1>12 DEF ScrapeInv

\* Of a committed run: what the commit does to the tables.
LEMMA CommitTables ==
  ASSUME ScrapeInv, NEW j \in Jobs, Commit(j)
  PROVE  /\ pc[j] = "commit" /\ work[j] \in Sessions /\ work[j].run \in Run
         /\ runs[work[j].run] = Null
         /\ runs' = [runs EXCEPT ![work[j].run] =
                       [status |-> work[j].status, confidence |-> work[j].confidence,
                        mapping |-> work[j].chosen.mapping, overlapping |-> work[j].overlapping]]
         /\ runs' \in [Run -> RunRows \cup {Null}]
         /\ ipos' \in MaybeRow
         /\ \A i \in Ids : ipos'[i] = IF work[j].writes[i] # Null THEN work[j].writes[i] ELSE ipos[i]
         /\ snapshots' \in [Ids -> Seq([run : Run, changes : Changes])]
<1>t. SessionsOK /\ RunInv(j) /\ work[j] \in Sessions /\ pc[j] = "commit"
  BY DEF ScrapeInv, SessionsOK, Commit
<1>1. work[j].run \in Run /\ runs[work[j].run] = Null
  BY <1>t, PipelineAssumption DEF RunInv, Run, SessionsOK
<1>2. runs' = [runs EXCEPT ![work[j].run] =
                 [status |-> work[j].status, confidence |-> work[j].confidence,
                  mapping |-> work[j].chosen.mapping, overlapping |-> work[j].overlapping]]
  BY DEF Commit
<1>3. [status |-> work[j].status, confidence |-> work[j].confidence,
       mapping |-> work[j].chosen.mapping, overlapping |-> work[j].overlapping] \in RunRows
  <2>1. work[j].chosen \in Chosen
    BY <1>t DEF Sessions
  <2>2. work[j].chosen.mapping \in Mappings
    BY <2>1 DEF Chosen
  <2> QED
    BY <1>t, <2>2 DEF Sessions, RunRows
<1>4. runs' \in [Run -> RunRows \cup {Null}]
  BY <1>t, <1>2, <1>3 DEF SessionsOK
<1>5. work[j].writes \in MaybeRow /\ ipos \in MaybeRow /\ work[j].changes \in [Ids -> Changes]
  BY <1>t DEF Sessions, SessionsOK
<1>6. ipos' = [i \in Ids |-> IF work[j].writes[i] # Null THEN work[j].writes[i] ELSE ipos[i]]
  BY DEF Commit
<1>7. ipos' \in MaybeRow
  BY <1>5, <1>6 DEF MaybeRow
<1>8. snapshots' \in [Ids -> Seq([run : Run, changes : Changes])]
  <2>1. snapshots' = [i \in Ids |->
          IF DOMAIN work[j].changes[i] # {}
          THEN Append(snapshots[i], [run |-> work[j].run, changes |-> work[j].changes[i]])
          ELSE snapshots[i]]
    BY DEF Commit
  <2> DEFINE Entries == [run : Run, changes : Changes]
  <2>2. \A i \in Ids : /\ snapshots[i] \in Seq(Entries)
                       /\ [run |-> work[j].run, changes |-> work[j].changes[i]] \in Entries
    BY <1>t, <1>1, <1>5 DEF SessionsOK
  <2> HIDE DEF Entries
  <2>3. \A i \in Ids :
          Append(snapshots[i], [run |-> work[j].run, changes |-> work[j].changes[i]]) \in Seq(Entries)
    BY <2>2
  <2>4. snapshots' \in [Ids -> Seq(Entries)]
    BY <2>1, <2>2, <2>3
  <2> QED
    BY <2>4 DEF Entries
<1> QED
  BY <1>t, <1>1, <1>2, <1>4, <1>6, <1>7, <1>8

LEMMA CommitKeeps ==
  ASSUME ScrapeInv, NEW j \in Jobs, Commit(j)
  PROVE  ScrapeInv'
<1>t. SessionsOK /\ RunInv(j) /\ pc[j] = "commit"
  BY CommitTables DEF ScrapeInv
<1>u. work' = [work EXCEPT ![j] = NoWork] /\ Goto(j, "idle") /\ UNCHANGED <<lock, started>>
  BY DEF Commit
<1>1. /\ pc'[j] = "idle" /\ work'[j] = NoWork
      /\ \A k \in Jobs \ {j} : pc'[k] = pc[k] /\ work'[k] = work[k]
  BY <1>t, <1>u DEF SessionsOK
<1>2. SessionsOK'
  <2>1. pc' \in [Jobs -> Stages] /\ work' \in [Jobs -> Sessions]
    BY <1>t, <1>u, NoWorkType DEF SessionsOK, Stages
  <2>3. work[j].run \in 1 .. started /\ runs \in [Run -> RunRows \cup {Null}]
    BY <1>t DEF RunInv, SessionsOK
  <2>4. \A r \in Run : r # work[j].run => runs'[r] = runs[r]
    BY <2>3, CommitTables
  <2>2. \A r \in Run : r > started => runs'[r] = Null
    <3> SUFFICES ASSUME NEW r \in Run, r > started PROVE runs'[r] = Null
      OBVIOUS
    <3>1. r # work[j].run
      BY <2>3, <1>t, PipelineAssumption DEF SessionsOK, Run
    <3> QED
      BY <1>t, <2>4, <3>1 DEF SessionsOK
  <2> QED
    BY <1>t, <1>u, <2>1, <2>2, CommitTables DEF SessionsOK
<1>3. RunInv(j)' /\ MergeInv(j)'
  BY <1>1 DEF RunInv, MergeInv, Working, Written, NoWork
<1>4. ASSUME NEW k \in Jobs \ {j}
      PROVE  PairInv(j, k)' /\ PairInv(k, j)'
  BY <1>1 DEF PairInv, Working, NoWork, ScrapeInv
<1>5. ASSUME NEW k \in Jobs \ {j}
      PROVE  RunInv(k)' /\ MergeInv(k)'
  <2>t. RunInv(k) /\ MergeInv(k) /\ PairInv(j, k) /\ PairInv(k, j)
    BY DEF ScrapeInv
  <2>1. RunInv(k)'
    <3>1. pc[k] # "idle" => work[k].run # work[j].run
      BY <1>t, <2>t DEF PairInv
    <3>2. pc[k] # "idle" => runs'[work[k].run] = Null
      <4>1. pc[k] # "idle" => work[k].run \in Run
        BY <1>t, <2>t, PipelineAssumption DEF RunInv, Run, SessionsOK
      <4> QED
        BY <1>t, <2>t, <3>1, <4>1, CommitTables DEF RunInv, SessionsOK
    <3> QED
      BY <1>1, <1>u, <2>t, <3>2 DEF RunInv, Working, Written
  <2>2. Batch(k)' = Batch(k) /\ Batch(k) \subseteq Ids
    BY <1>1 DEF Batch
  <2>3. \A i \in Ids : ipos[i] # Null => ipos'[i] # Null
    BY CommitTables
  <2>4. Written(k) => \A i \in Batch(k) : ipos'[i] = ipos[i] /\ Merged(k, i)' = Merged(k, i)
    <3>1. ASSUME Written(k), NEW i \in Batch(k) PROVE ipos'[i] = ipos[i]
      <4>1. work[k].writes[i] = Merged(k, i)
        BY <2>t, <3>1 DEF MergeInv
      <4>2. Merged(k, i) # Null
        BY <3>1, MergedRows
      <4>3. work[j].writes[i] = Null
        BY <2>2, <2>t, <4>1, <4>2 DEF PairInv
      <4> QED
        BY <2>2, <4>3, CommitTables
    <3> QED
      BY <1>1, <3>1 DEF Merged
  <2>5. pc[k] = "flush" /\ ~work[k].overlapping => FALSE
    BY <1>t, <2>t DEF PairInv, Working
  <2>6. Written(k)' <=> Written(k)
    BY <1>1 DEF Written
  <2>7. MergeInv(k)'
    BY <1>1, <2>t, <2>2, <2>3, <2>4, <2>5, <2>6 DEF MergeInv
  <2> QED
    BY <2>1, <2>7
<1>6. ASSUME NEW k \in Jobs \ {j}, NEW l \in Jobs \ {j, k}
      PROVE  PairInv(k, l)'
  <2>1. PairInv(k, l)
    BY DEF ScrapeInv
  <2> QED
    BY <1>1, <2>1 DEF PairInv, Working
<1> QED
  BY <1>2, <1>3, <1>4, <1>5, <1>6 DEF ScrapeInv

LEMMA IdleStepsKeep ==
  ASSUME ScrapeInv, SkipRetry \/ Reclaim \/ Crash \/ UNCHANGED vars
  PROVE  ScrapeInv'
<1>1. CASE SkipRetry \/ Reclaim \/ UNCHANGED vars
  <2>1. /\ UNCHANGED <<tables, pc, work, started>>
        /\ \A j \in Jobs : lock = j => lock' = j
    BY <1>1, PipelineAssumption DEF SkipRetry, Reclaim, vars
  <2>2. SessionsOK'
    BY <2>1 DEF ScrapeInv, SessionsOK, tables
  <2>3. ASSUME NEW j \in Jobs PROVE RunInv(j)' /\ MergeInv(j)'
    <3>1. RunInv(j) /\ MergeInv(j)
      BY DEF ScrapeInv
    <3>2. RunInv(j)'
      BY <2>1, <3>1 DEF RunInv, Working, Written, tables
    <3>3. MergeInv(j)'
      BY <2>1, <3>1 DEF MergeInv, Written, Batch, Merged, tables
    <3> QED
      BY <3>2, <3>3
  <2>4. ASSUME NEW j \in Jobs, NEW k \in Jobs \ {j} PROVE PairInv(j, k)'
    BY <2>1 DEF ScrapeInv, PairInv, Working
  <2> QED
    BY <2>2, <2>3, <2>4 DEF ScrapeInv
<1>2. CASE Crash
  <2>1. /\ \A j \in Jobs : pc'[j] = "idle" /\ work'[j] = NoWork
        /\ UNCHANGED <<tables, started>>
    BY <1>2 DEF Crash
  <2>2. SessionsOK'
    <3>1. pc' \in [Jobs -> Stages] /\ work' \in [Jobs -> Sessions]
      BY <1>2, NoWorkType DEF Crash, Stages
    <3> QED
      BY <2>1, <3>1 DEF ScrapeInv, SessionsOK, tables
  <2>3. ASSUME NEW j \in Jobs PROVE RunInv(j)' /\ MergeInv(j)'
    <3>1. pc'[j] = "idle" /\ work'[j] = NoWork
      BY <2>1
    <3> QED
      BY <3>1 DEF RunInv, MergeInv, Working, Written, NoWork
  <2>4. \A j \in Jobs : \A k \in Jobs \ {j} : PairInv(j, k)'
    BY <2>1 DEF PairInv, Working, NoWork
  <2> QED
    BY <2>2, <2>3, <2>4 DEF ScrapeInv
<1> QED
  BY <1>1, <1>2

LEMMA ScrapeInvInit == Init => ScrapeInv
<1> SUFFICES ASSUME Init PROVE ScrapeInv
  OBVIOUS
<1>1. \A j \in Jobs : pc[j] = "idle" /\ work[j] = NoWork
  BY DEF Init
<1>2. ASSUME NEW j \in Jobs PROVE RunInv(j) /\ MergeInv(j)
  <2>1. pc[j] = "idle" /\ work[j] = NoWork
    BY <1>1
  <2> QED
    BY <2>1 DEF RunInv, MergeInv, Working, Written, NoWork
<1>3. \A j \in Jobs : \A k \in Jobs \ {j} : PairInv(j, k)
  BY <1>1 DEF PairInv, Working, NoWork
<1> QED
  BY <1>2, <1>3, SessionsInit DEF ScrapeInv

LEMMA ScrapeInvStep == ScrapeInv /\ [Next]_vars => ScrapeInv'
<1> SUFFICES ASSUME ScrapeInv, [Next]_vars PROVE ScrapeInv'
  OBVIOUS
<1>1. ASSUME NEW j \in Jobs, Start(j) \/ JobStep(j) \/ StatementFails(j)
      PROVE  ScrapeInv'
  <2>1. CASE FetchApi(j) \/ FetchApiFails(j) \/ FetchPage(j) \/ FetchPageFails(j) \/ Compare(j)
    BY <2>1, FetchKeeps
  <2>2. CASE Complete(j) \/ Unlock(j)
    BY <2>2, CompleteKeeps
  <2>3. CASE FlushFails(j) \/ StatementFails(j)
    BY <2>3, AbortKeeps DEF FlushFails, StatementFails
  <2> QED
    BY <1>1, <2>1, <2>2, <2>3, StartKeeps, GateKeeps, LoadKeeps, FlushKeeps, CommitKeeps
    DEF JobStep
<1> QED
  BY <1>1, IdleStepsKeep DEF Next

\* The invariant of the scrapes holds whatever overlaps, fails or dies.
THEOREM ScrapeInvariant == Spec => []ScrapeInv
<1> QED
  BY ScrapeInvInit, ScrapeInvStep, PTL DEF Spec

-----------------------------------------------------------------------------
(* Types and the retry.                                                    *)

LEMMA RetryInvInit == Init => RestOK /\ RetryInv
<1> SUFFICES ASSUME Init PROVE RestOK /\ RetryInv
  OBVIOUS
<1>1. payloads = {} /\ lock = Null /\ retries = 0 /\ failures = 0 /\ retry_due = FALSE
  BY DEF Init
<1>2. RestOK
  BY <1>1, Zenon DEF RestOK
<1> QED
  BY <1>1, <1>2 DEF RetryInv

\* A retry is used up as it fires or is turned away, and each was asked for
\* by a failure of its own.
LEMMA RetryInvStep == ScrapeInv /\ RestOK /\ RetryInv /\ [Next]_vars => (RestOK /\ RetryInv)'
<1> SUFFICES ASSUME ScrapeInv, RestOK, RetryInv, [Next]_vars PROVE (RestOK /\ RetryInv)'
  OBVIOUS
<1>1. ASSUME NEW j \in Jobs, Start(j) PROVE (RestOK /\ RetryInv)'
  <2>1. UNCHANGED <<payloads, failures>> /\ lock' = j
    BY <1>1 DEF Start, tables
  <2>2. retry_due' \in BOOLEAN /\ (retry_due' = TRUE => retry_due = TRUE /\ j # RetryJob)
    BY <1>1, Zenon DEF Start
  <2>3. j = RetryJob => retry_due = TRUE
    BY <1>1, Zenon DEF Start, RestOK
  <2>4. retries' = IF j = RetryJob THEN retries + 1 ELSE retries
    BY <1>1 DEF Start
  <2>5. RestOK'
    BY <2>1, <2>2, Zenon DEF RestOK
  <2>6. RetryInv'
    BY <2>1, <2>2, <2>3, <2>4 DEF RetryInv
  <2> QED
    BY <2>5, <2>6
<1>2. ASSUME NEW j \in Jobs, Commit(j) PROVE (RestOK /\ RetryInv)'
  <2>1. payloads' \subseteq Run
    <3>1. payloads' \subseteq payloads \cup {work[j].run}
      BY <1>2 DEF Commit
    <3>2. work[j].run \in Run
      BY <1>2, CommitTables
    <3> QED
      BY <3>1, <3>2 DEF RestOK
  <2>2. UNCHANGED <<lock, retries>>
    BY <1>2 DEF Commit
  <2> DEFINE asks == j # RetryJob /\ work[j].status = "FAILED"
  <2>3. retry_due' = (retry_due \/ asks) /\ failures' = IF asks THEN failures + 1 ELSE failures
    BY <1>2 DEF Commit
  <2> HIDE DEF asks
  <2>4. \/ retry_due' = TRUE /\ failures' = failures + 1
        \/ retry_due' = retry_due /\ failures' = failures
    <3>1. retry_due \in BOOLEAN
      BY DEF RestOK
    <3>2. CASE asks
      <4>1. retry_due' = TRUE
        BY <2>3, <3>2, Zenon
      <4> QED
        BY <2>3, <3>2, <4>1
    <3>3. CASE ~asks
      <4>1. retry_due' = retry_due
        BY <2>3, <3>1, <3>3, Zenon
      <4> QED
        BY <2>3, <3>3, <4>1
    <3> QED
      BY <3>2, <3>3
  <2>5. RestOK'
    BY <2>1, <2>2, <2>4, Zenon DEF RestOK
  <2>6. RetryInv'
    BY <2>2, <2>4 DEF RetryInv
  <2> QED
    BY <2>5, <2>6
<1>3. ASSUME NEW j \in Jobs, JobStep(j) \/ StatementFails(j), ~Commit(j) PROVE (RestOK /\ RetryInv)'
  <2>1. CASE FetchApi(j) \/ FetchApiFails(j) \/ FetchPage(j) \/ FetchPageFails(j) \/ Compare(j)
             \/ Gate(j) \/ Load(j) \/ Flush(j) \/ Complete(j)
    <3>1. UNCHANGED <<payloads, retries, failures, retry_due, lock>>
      BY <2>1, Zenon DEF FetchApi, FetchApiFails, FetchPage, FetchPageFails, Compare, Gate, Load,
         Flush, Complete, tables, history
    <3>2. RestOK'
      BY <3>1, Zenon DEF RestOK
    <3> QED
      BY <3>1, <3>2 DEF RetryInv
  <2>2. CASE FlushFails(j) \/ Unlock(j) \/ StatementFails(j)
    <3>1. UNCHANGED <<payloads, retries, failures, retry_due>> /\ lock' \in {lock, Null, "leaked"}
      BY <2>2, Zenon DEF FlushFails, Unlock, StatementFails, Abort, tables, history
    <3>2. RestOK'
      BY <3>1, Zenon DEF RestOK
    <3> QED
      BY <3>1, <3>2 DEF RetryInv
  <2> QED
    BY <1>3, <2>1, <2>2 DEF JobStep
<1>4. CASE SkipRetry \/ Reclaim \/ Crash \/ UNCHANGED vars
  BY <1>4 DEF SkipRetry, Reclaim, Crash, vars, tables, history, RestOK, RetryInv
<1> QED
  BY <1>1, <1>2, <1>3, <1>4 DEF Next

\* Every reachable state of the scrapes is well typed.
THEOREM ScrapeTypes == Spec => []TypeOK
<1>1. ScrapeInv /\ RestOK /\ RetryInv => TypeOK
  <2> SUFFICES ASSUME ScrapeInv, RestOK, RetryInv PROVE TypeOK
    OBVIOUS
  <2>1. ASSUME NEW j \in Jobs
        PROVE  /\ work[j].run \in 0 .. started
               /\ work[j].run = 0 <=> pc[j] = "idle"
               /\ work[j].existing \in MaybeRow /\ work[j].writes \in MaybeRow
               /\ work[j].status \in RunStatus
    <3>1. RunInv(j) /\ work[j] \in Sessions /\ started \in Nat
      BY PipelineAssumption DEF ScrapeInv, SessionsOK
    <3>2. work[j].run = 0 <=> pc[j] = "idle"
      BY <3>1 DEF RunInv, NoWork
    <3>3. work[j].run \in 0 .. started
      BY <3>1, <3>2 DEF RunInv
    <3> QED
      BY <3>1, <3>2, <3>3 DEF Sessions
  <2> QED
    BY <2>1 DEF TypeOK, ScrapeInv, SessionsOK, RestOK, RetryInv
<1> QED
  BY <1>1, ScrapeInvInit, ScrapeInvStep, RetryInvInit, RetryInvStep, PTL DEF Spec

\* A failed scrape is retried at most once, and a retry never.
THEOREM RetriedOnce == Spec => []RetriesBounded
<1>1. RetryInv => RetriesBounded
  BY DEF RetryInv, RetriesBounded
<1> QED
  BY <1>1, ScrapeInvInit, ScrapeInvStep, RetryInvInit, RetryInvStep, PTL DEF Spec

-----------------------------------------------------------------------------
(* The tables are those of IpoStore.                                       *)

\* In both modules a blank says nothing, and what moved is told.
LEMMA SameMerge ==
  ASSUME NEW row, NEW seen, NEW new, NEW r
  PROVE  /\ Store!Take(row, new, diff(seen, new)) = Overwrite(row, diff(seen, new), new)
         /\ Store!Moved(seen, new) = diff(seen, new)
         /\ diff(seen, new) \in SUBSET Store!Known(new)
         /\ Store!Entry(r, seen, new, diff(seen, new)) =
              [run |-> r, changes |-> changed_fields(seen, new)]
         /\ DOMAIN changed_fields(seen, new) = diff(seen, new)
BY DEF Store!Take, Store!Moved, Store!Known, Store!Entry, Overwrite, diff, changed_fields

LEMMA StoreInit == Init => Store!Init
BY DEF Init, Store!Init, Outcome

LEMMA StoreStays ==
  ASSUME UNCHANGED tables
  PROVE  UNCHANGED Store!store
BY DEF tables, Store!store, Outcome, Kept

\* The batch of a run that has written is one a response may bring.
LEMMA TrustedBatch ==
  ASSUME ScrapeInv, NEW j \in Jobs, Written(j)
  PROVE  BatchOf(work[j].chosen) \in {BatchOf(resp) : resp \in Responses}
<1>1. work[j].chosen \in Chosen /\ Trusted(work[j].chosen)
  BY DEF ScrapeInv, SessionsOK, Sessions, RunInv
<1>2. work[j].chosen.records \in RecordLists /\ work[j].chosen.records # <<>>
  BY <1>1 DEF Chosen, Trusted
<1>3. PICK resp \in Responses : resp.records = work[j].chosen.records
  BY <1>2 DEF RecordLists
<1>4. BatchOf(work[j].chosen) = BatchOf(resp)
  BY <1>3 DEF BatchOf
<1> QED
  BY <1>4

\* What the commit of a run that has written does to one row.
LEMMA CommittedRow ==
  ASSUME ScrapeInv, NEW j \in Jobs, Commit(j), Written(j), NEW i \in Ids
  PROVE  LET batch == BatchOf(work[j].chosen)
         IN  \/ Store!Left(i, batch) \/ Store!Added(i, batch)
             \/ IF work[j].overlapping THEN Store!MergedLate(work[j].run, i, batch)
                ELSE Store!Merged(work[j].run, i, batch)
<1> DEFINE batch == BatchOf(work[j].chosen)
           new == RowFor(work[j].chosen.records, i)
           seen == work[j].existing[i]
           moved == diff(seen, new)
           entry == [run |-> work[j].run, changes |-> work[j].changes[i]]
<1>t. /\ MergeInv(j) /\ SessionsOK
      /\ batch[i] = new /\ (i \in Batch(j) <=> new # Null)
  BY DEF ScrapeInv, BatchOf, Batch
<1>1. /\ ipos'[i] = IF work[j].writes[i] # Null THEN work[j].writes[i] ELSE ipos[i]
      /\ snapshots'[i] = IF DOMAIN work[j].changes[i] # {} THEN Append(snapshots[i], entry)
                         ELSE snapshots[i]
  BY DEF Commit
<1>2. DOMAIN NoChange = {}
  BY DEF NoChange
<1>3. CASE new = Null
  <2>1. work[j].writes[i] = Null /\ work[j].changes[i] = NoChange
    BY <1>t, <1>3 DEF MergeInv
  <2> QED
    BY <1>t, <1>1, <1>2, <1>3, <2>1 DEF Store!Left
<1>4. CASE new # Null /\ seen = Null
  <2>1. ipos[i] = Null /\ work[j].writes[i] = new /\ work[j].changes[i] = NoChange
    BY <1>t, <1>4 DEF MergeInv, Merged
  <2> QED
    BY <1>t, <1>1, <1>2, <1>4, <2>1 DEF Store!Added
<1>5. CASE new # Null /\ seen # Null
  <2>1. /\ ipos[i] # Null /\ (~work[j].overlapping => seen = ipos[i])
        /\ work[j].writes[i] = Overwrite(ipos[i], moved, new)
        /\ work[j].changes[i] = changed_fields(seen, new)
    BY <1>t, <1>5 DEF MergeInv, Merged
  <2>2. work[j].writes[i] # Null
    <3>1. i \in Batch(j) /\ work[j].writes[i] = Merged(j, i)
      BY <1>t, <1>5 DEF MergeInv
    <3> QED
      BY <3>1, MergedRows
  <2> HIDE DEF new, seen
  <2>3. /\ Store!Take(ipos[i], new, moved) = Overwrite(ipos[i], moved, new)
        /\ Store!Moved(seen, new) = moved
        /\ moved \in SUBSET Store!Known(new)
        /\ Store!Entry(work[j].run, seen, new, moved) = entry
        /\ DOMAIN work[j].changes[i] = moved
    <3>1. Store!Entry(work[j].run, seen, new, moved) =
            [run |-> work[j].run, changes |-> changed_fields(seen, new)]
      BY SameMerge
    <3>2. DOMAIN changed_fields(seen, new) = moved
      BY SameMerge
    <3>3. /\ Store!Take(ipos[i], new, moved) = Overwrite(ipos[i], moved, new)
          /\ Store!Moved(seen, new) = moved
          /\ moved \in SUBSET Store!Known(new)
      BY SameMerge
    <3> QED
      BY <2>1, <3>1, <3>2, <3>3
  <2>4. ipos'[i] = Store!Take(ipos[i], new, moved)
    BY <1>1, <2>1, <2>2, <2>3
  <2>5. CASE ~work[j].overlapping
    <3>1. Store!Merged(work[j].run, i, batch)
      BY <1>t, <1>1, <1>5, <2>1, <2>3, <2>4, <2>5 DEF Store!Merged
    <3> QED
      BY <2>5, <3>1
  <2>6. CASE work[j].overlapping
    <3>1. moved # {} => \E n \in DOMAIN snapshots'[i] :
            LET last == snapshots'[i][n]
            IN  /\ snapshots'[i] = Append(snapshots[i], last)
                /\ last.run = work[j].run
                /\ DOMAIN last.changes = moved
                /\ \A f \in moved : last.changes[f].new = new[f]
      <4> SUFFICES ASSUME moved # {} PROVE
            LET last == snapshots'[i][Len(snapshots[i]) + 1]
            IN  /\ Len(snapshots[i]) + 1 \in DOMAIN snapshots'[i]
                /\ snapshots'[i] = Append(snapshots[i], last)
                /\ last.run = work[j].run
                /\ DOMAIN last.changes = moved
                /\ \A f \in moved : last.changes[f].new = new[f]
        OBVIOUS
      <4>1. snapshots'[i] = Append(snapshots[i], entry)
        BY <1>1, <2>3
      <4>2. snapshots[i] \in Seq([run : Run, changes : Changes])
        BY <1>t DEF SessionsOK
      <4>3. Len(snapshots[i]) + 1 \in DOMAIN snapshots'[i]
            /\ snapshots'[i][Len(snapshots[i]) + 1] = entry
        BY <4>1, <4>2
      <4>4. \A f \in moved : entry.changes[f].new = new[f]
        BY <2>1 DEF changed_fields
      <4> QED
        BY <4>1, <4>3, <4>4, <2>3
    <3>2. Store!MergedLate(work[j].run, i, batch)
      <4>1. IF moved = {} THEN snapshots'[i] = snapshots[i]
            ELSE \E n \in DOMAIN snapshots'[i] :
                   LET last == snapshots'[i][n]
                   IN  /\ snapshots'[i] = Append(snapshots[i], last)
                       /\ last.run = work[j].run
                       /\ DOMAIN last.changes = moved
                       /\ \A f \in moved : last.changes[f].new = batch[i][f]
        BY <1>t, <1>1, <2>3, <3>1
      <4> HIDE DEF batch, moved
      <4> QED
        BY <1>t, <1>5, <2>1, <2>3, <2>4, <4>1 DEF Store!MergedLate
    <3> QED
      BY <2>6, <3>2
  <2> QED
    BY <2>5, <2>6
<1> QED
  BY <1>3, <1>4, <1>5

LEMMA CommitRefines ==
  ASSUME ScrapeInv, NEW j \in Jobs, Commit(j)
  PROVE  Store!Next
<1> DEFINE r == work[j].run
           row == [status |-> work[j].status, confidence |-> work[j].confidence,
                   mapping |-> work[j].chosen.mapping, overlapping |-> work[j].overlapping]
           what == IF work[j].status = "FAILED" \/ work[j].confidence < MinConfidence THEN "refused"
                   ELSE IF work[j].overlapping THEN "late" ELSE "in turn"
<1>t. /\ SessionsOK /\ RunInv(j) /\ MergeInv(j) /\ r \in Run /\ runs[r] = Null
      /\ runs' = [runs EXCEPT ![r] = row]
  BY CommitTables DEF ScrapeInv
<1>1. row # Null
  <2>1. runs'[r] \in RunRows \cup {Null} /\ runs'[r] = row
    BY <1>t, CommitTables DEF SessionsOK
  <2>2. row \in RunRows
    <3>1. work[j] \in Sessions
      BY <1>t DEF SessionsOK
    <3>2. work[j].chosen \in Chosen
      BY <3>1 DEF Sessions
    <3>3. work[j].chosen.mapping \in Mappings
      BY <3>2 DEF Chosen
    <3> QED
      BY <3>1, <3>3 DEF Sessions, RunRows
  <2> QED
    BY <2>2, ResponseAssumption
<1>2. Store!Becomes(r, what)
  <2>1. Outcome[r] = Null
    BY <1>t DEF Outcome
  <2>2. Outcome' = [Outcome EXCEPT ![r] = what]
    <3>1. \A s \in Run : runs'[s] = IF s = r THEN row ELSE runs[s]
      BY <1>t DEF SessionsOK
    <3>2. \A s \in Run : Outcome'[s] = IF s = r THEN what ELSE Outcome[s]
      <4> SUFFICES ASSUME NEW s \in Run
                   PROVE  Outcome'[s] = IF s = r THEN what ELSE Outcome[s]
        OBVIOUS
      <4>1. Outcome'[s] = IF runs'[s] = Null THEN Null
                          ELSE IF ~(runs'[s] # Null /\ runs'[s].status # "FAILED")
                                  \/ runs'[s].confidence < MinConfidence THEN "refused"
                          ELSE IF runs'[s].overlapping THEN "late" ELSE "in turn"
        BY DEF Outcome, Kept
      <4>2. Outcome[s] = IF runs[s] = Null THEN Null
                         ELSE IF ~(runs[s] # Null /\ runs[s].status # "FAILED")
                                 \/ runs[s].confidence < MinConfidence THEN "refused"
                         ELSE IF runs[s].overlapping THEN "late" ELSE "in turn"
        BY DEF Outcome, Kept
      <4>3. CASE s # r
        BY <3>1, <4>1, <4>2, <4>3
      <4>4. CASE s = r
        <5>1. /\ row.status = work[j].status /\ row.confidence = work[j].confidence
              /\ row.overlapping = work[j].overlapping
          OBVIOUS
        <5>2. runs'[s] = row
          BY <3>1, <4>4
        <5> HIDE DEF row
        <5> QED
          BY <1>1, <4>1, <4>4, <5>1, <5>2
      <4> QED
        BY <4>3, <4>4
    <3>3. Outcome' = [s \in Run |-> Outcome'[s]] /\ Outcome = [s \in Run |-> Outcome[s]]
      BY DEF Outcome
    <3> QED
      BY <3>2, <3>3
  <2> QED
    BY <2>1, <2>2 DEF Store!Becomes
<1>3. CASE ~Written(j)
  <2>1. what = "refused"
    BY <1>3 DEF Written
  <2>2. \A i \in Ids : work[j].writes[i] = Null /\ work[j].changes[i] = NoChange
    BY <1>t, <1>3 DEF MergeInv
  <2>3. ipos' = ipos
    <3>1. \A i \in Ids : ipos'[i] = ipos[i]
      BY <2>2, CommitTables
    <3>2. ipos' \in MaybeRow /\ ipos \in MaybeRow
      BY <1>t, CommitTables DEF SessionsOK
    <3> QED
      BY <3>1, <3>2 DEF MaybeRow
  <2>4. snapshots' = snapshots
    <3>1. DOMAIN NoChange = {}
      BY DEF NoChange
    <3>2. \A i \in Ids : snapshots'[i] = snapshots[i]
      BY <2>2, <3>1 DEF Commit
    <3>3. snapshots' = [i \in Ids |-> snapshots'[i]] /\ snapshots = [i \in Ids |-> snapshots[i]]
      BY <1>t DEF SessionsOK, Commit
    <3> QED
      BY <3>2, <3>3
  <2> QED
    BY <1>2, <1>t, <2>1, <2>3, <2>4 DEF Store!Refuse, Store!Next
<1>4. CASE Written(j)
  <2>1. work[j].confidence >= MinConfidence /\ work[j].confidence \in Int
    <3>1. work[j].confidence >= MinConfidence
      BY <1>t, <1>4 DEF RunInv, Trusted
    <3>2. work[j] \in Sessions
      BY <1>t DEF SessionsOK
    <3> QED
      BY <3>1, <3>2 DEF Sessions
  <2>2. what = IF work[j].overlapping THEN "late" ELSE "in turn"
    <3>1. MinConfidence \in Int
      BY PipelineAssumption
    <3>2. ~(work[j].confidence < MinConfidence)
      BY <2>1, <3>1
    <3> QED
      BY <1>4, <3>2 DEF Written
  <2> DEFINE batch == BatchOf(work[j].chosen)
  <2>3. IF work[j].overlapping THEN Store!AcceptLate(r, batch) ELSE Store!AcceptInTurn(r, batch)
    BY <1>2, <1>4, <2>2, CommittedRow DEF Store!AcceptLate, Store!AcceptInTurn
  <2>4. batch \in {BatchOf(resp) : resp \in Responses}
    BY <1>4, TrustedBatch
  <2> HIDE DEF batch
  <2> QED
    BY <1>t, <2>3, <2>4 DEF Store!Next
<1> QED
  BY <1>3, <1>4

LEMMA StoreStep == ScrapeInv /\ [Next]_vars => [Store!Next]_(Store!store)
<1> SUFFICES ASSUME ScrapeInv, [Next]_vars PROVE Store!Next \/ UNCHANGED Store!store
  OBVIOUS
<1>1. ASSUME NEW j \in Jobs, Commit(j) PROVE Store!Next
  BY <1>1, CommitRefines
<1>2. ASSUME NEW j \in Jobs, Start(j) \/ JobStep(j) \/ StatementFails(j), ~Commit(j)
      PROVE  UNCHANGED tables
  BY <1>2, Zenon DEF Start, JobStep, FetchApi, FetchApiFails, FetchPage, FetchPageFails, Compare,
     Gate, Load, Flush, FlushFails, Complete, Unlock, StatementFails, Abort
<1>3. CASE SkipRetry \/ Reclaim \/ Crash \/ UNCHANGED vars
  BY <1>3, StoreStays DEF SkipRetry, Reclaim, Crash, vars
<1> QED
  BY <1>1, <1>2, <1>3, StoreStays DEF Next

\* Whatever overlaps, fails or dies, the tables change as IpoStore says.
THEOREM ScrapesImplementStore == Spec => ImplementsStore
<1> QED
  BY ScrapeInvInit, ScrapeInvStep, StoreInit, StoreStep, PTL DEF Spec, ImplementsStore, Store!Spec

\* A store that merges so never puts Null in the place of a value.
LEMMA StoreKeepsKnown ==
  ASSUME [Store!Next]_(Store!store), NEW i \in Ids, NEW f \in TRACKED_FIELDS,
         ipos[i] # Null, ipos[i][f] # Null
  PROVE  ipos'[i][f] # Null
<1>1. CASE UNCHANGED Store!store
  BY <1>1 DEF Store!store
<1>2. ASSUME NEW r \in Run, NEW batch,
             Store!Refuse(r) \/ Store!AcceptInTurn(r, batch) \/ Store!AcceptLate(r, batch)
      PROVE  ipos'[i][f] # Null
  <2>1. CASE Store!Refuse(r)
    BY <2>1 DEF Store!Refuse
  <2>2. CASE Store!Left(i, batch) \/ Store!Added(i, batch)
    BY <2>2 DEF Store!Left, Store!Added
  <2>3. CASE \E taken \in SUBSET Store!Known(batch[i]) :
               ipos'[i] = Store!Take(ipos[i], batch[i], taken)
    BY <2>3 DEF Store!Take, Store!Known
  <2>4. Store!Merged(r, i, batch) \/ Store!MergedLate(r, i, batch) =>
          \E taken \in SUBSET Store!Known(batch[i]) :
            ipos'[i] = Store!Take(ipos[i], batch[i], taken)
    BY DEF Store!Merged, Store!MergedLate, Store!Moved
  <2> QED
    BY <1>2, <2>1, <2>2, <2>3, <2>4 DEF Store!AcceptInTurn, Store!AcceptLate
<1> QED
  BY <1>1, <1>2 DEF Store!Next

\* A date or a premium that is known is never lost to a cell the source leaves
\* blank, for any ids and responses; a type is, to UNKNOWN.
THEOREM KnownValuesStay == Spec => KnownStaysKnown
<1>1. ScrapeInv /\ [Next]_vars =>
        \A i \in Ids, f \in Blankable :
          ipos[i] # Null /\ ipos[i][f] # Null => ipos'[i][f] # Null
  BY StoreStep, StoreKeepsKnown DEF Blankable
<1> QED
  BY <1>1, ScrapeInvInit, ScrapeInvStep, PTL DEF Spec, KnownStaysKnown

-----------------------------------------------------------------------------
(* The mapping compared.  A scrape that holds the lock is the newest, and   *)
(* one that overlaps nothing finds every run before it committed or gone;  *)
(* so the last successful run it compares with is the last one before it,  *)
(* then and when it commits.                                               *)
Before(s) == {r \in 1 .. s - 1 : Kept(r)}
Breaks(s, mapping) ==
  Before(s) # {} /\ StructureChanged(runs[Latest(Before(s))].mapping, mapping)

CompareInv(j) ==
  /\ work[j].chosen.records # <<>> => work[j].chosen.mapping # Null
  /\ Working(j) => work[j].run = started
  /\ Written(j) => work[j].status = IF work[j].warned THEN "PARTIAL" ELSE "SUCCESS"
  /\ ~work[j].overlapping /\ (pc[j] \in {"gate", "load", "flush"} \/ Written(j)) =>
       (Breaks(work[j].run, work[j].chosen.mapping) => work[j].warned)
  /\ \A s \in Run : runs[s] # Null /\ pc[j] # "idle" /\ work[j].run < s => runs[s].overlapping

OrderInv(j, k) ==
  pc[j] # "idle" /\ pc[k] # "idle" /\ work[k].run < work[j].run => work[j].overlapping

ReportInv ==
  \A s \in Run : Kept(s) =>
    /\ runs[s].mapping # Null
    /\ ~runs[s].overlapping /\ Breaks(s, runs[s].mapping) => runs[s].status = "PARTIAL"

LossInv ==
  /\ ReportInv
  /\ \A j \in Jobs : CompareInv(j)
  /\ \A j \in Jobs : \A k \in Jobs \ {j} : OrderInv(j, k)

\* A set of runs has a latest.
LEMMA LatestIs ==
  ASSUME NEW n \in Nat, NEW R \in SUBSET (1 .. n), R # {}
  PROVE  Latest(R) \in R
<1> DEFINE T == {n - r : r \in R}
<1>1. \A r \in R : r \in Nat /\ n - r \in Nat
  OBVIOUS
<1>2. T \subseteq Nat /\ T # {}
  BY <1>1
<1>3. \A e \in T : \E r \in R : e = n - r
  OBVIOUS
<1>4. \A r \in R : n - r \in T
  OBVIOUS
<1> HIDE DEF T
<1>5. PICK d \in T : \A e \in T : <<e, d>> \notin OpToRel(<, Nat)
  BY <1>2, NatLessThanWellFounded, WFMin
<1>6. PICK r \in R : d = n - r
  BY <1>3
<1>7. \A s \in R : s <= r
  <2> SUFFICES ASSUME NEW s \in R PROVE s <= r
    OBVIOUS
  <2>1. n - s \in T /\ n - s \in Nat /\ n - r \in Nat /\ s \in Nat /\ r \in Nat
    BY <1>1, <1>4
  <2>2. ~(n - s < n - r)
    BY <1>5, <1>6, <2>1 DEF OpToRel
  <2> QED
    BY <2>1, <2>2
<1> QED
  BY <1>7 DEF Latest

\* A step of j that commits nothing and starts nothing.
LEMMA LossFrame ==
  ASSUME LossInv, NEW j \in Jobs, UNCHANGED <<runs, started>>, CompareInv(j)',
         \A k \in Jobs \ {j} : pc'[k] = pc[k] /\ work'[k] = work[k],
         pc'[j] = "idle" \/ (/\ pc[j] # "idle" /\ work'[j].run = work[j].run
                             /\ work'[j].overlapping = work[j].overlapping)
  PROVE  LossInv'
<1>1. ReportInv'
  BY DEF LossInv, ReportInv, Kept, Breaks, Before
<1>2. ASSUME NEW k \in Jobs \ {j} PROVE CompareInv(k)'
  <2>1. CompareInv(k)
    BY DEF LossInv
  <2>2. pc'[k] = pc[k] /\ work'[k] = work[k]
    OBVIOUS
  <2>3. Breaks(work[k].run, work[k].chosen.mapping)' <=> Breaks(work[k].run, work[k].chosen.mapping)
    BY <2>2 DEF Breaks, Before, Kept
  <2> QED
    BY <2>1, <2>2, <2>3 DEF CompareInv, Working, Written
<1>3. ASSUME NEW k \in Jobs, NEW l \in Jobs \ {k} PROVE OrderInv(k, l)'
  <2>1. OrderInv(k, l)
    BY DEF LossInv
  <2>2. CASE k # j /\ l # j
    BY <2>1, <2>2 DEF OrderInv
  <2>3. CASE k = j
    BY <2>1, <2>3 DEF OrderInv
  <2>4. CASE l = j
    BY <2>1, <2>4 DEF OrderInv
  <2> QED
    BY <2>2, <2>3, <2>4
<1> QED
  BY <1>1, <1>2, <1>3 DEF LossInv

\* A step that leaves the response as it is, and still warns of a mapping that
\* breaks.
LEMMA ComparedStep ==
  ASSUME ScrapeInv, LossInv, NEW j \in Jobs, NEW stage \in Stages, UNCHANGED <<runs, started>>,
         Goto(j, stage), \A k \in Jobs \ {j} : work'[k] = work[k],
         work'[j].run = work[j].run, work'[j].overlapping = work[j].overlapping,
         work'[j].chosen = work[j].chosen,
         pc[j] # "idle", Working(j)' => Working(j),
         Written(j)' => work'[j].status = IF work'[j].warned THEN "PARTIAL" ELSE "SUCCESS",
         ~work[j].overlapping /\ (stage \in {"gate", "load", "flush"} \/ Written(j)') =>
           (Breaks(work[j].run, work[j].chosen.mapping) => work'[j].warned)
  PROVE  LossInv'
<1>1. pc'[j] = stage /\ \A k \in Jobs \ {j} : pc'[k] = pc[k]
  BY DEF ScrapeInv, SessionsOK
<1>2. CompareInv(j)
  BY DEF LossInv
<1>3. Breaks(work[j].run, work[j].chosen.mapping)' <=> Breaks(work[j].run, work[j].chosen.mapping)
  BY DEF Breaks, Before, Kept
<1>5. CompareInv(j)'
  BY <1>1, <1>2, <1>3 DEF CompareInv
<1> QED
  BY <1>1, <1>5, LossFrame

\* Before the comparison a response is only noted.
LEMMA NotedCompare ==
  ASSUME ScrapeInv, LossInv, NEW j \in Jobs, NEW stage \in {"fetch_page", "compare", "complete"},
         pc[j] \in {"fetch_api", "fetch_page"}, Goto(j, stage),
         \A k \in Jobs \ {j} : work'[k] = work[k],
         work'[j].run = work[j].run, work'[j].overlapping = work[j].overlapping,
         work'[j].status = work[j].status,
         work'[j].chosen.records # <<>> => work'[j].chosen.mapping # Null,
         UNCHANGED <<runs, started>>
  PROVE  LossInv'
<1>1. pc'[j] = stage /\ \A k \in Jobs \ {j} : pc'[k] = pc[k]
  BY DEF ScrapeInv, SessionsOK
<1>2. CompareInv(j) /\ ~Written(j) /\ Working(j)
  BY DEF LossInv, ScrapeInv, RunInv, Working
<1>3. ~Written(j)' /\ Working(j)'
  BY <1>1, <1>2 DEF Written, Working
<1>4. CompareInv(j)'
  BY <1>1, <1>2, <1>3 DEF CompareInv, Working
<1> QED
  BY <1>1, <1>4, LossFrame

\* A response that brings records brings their mapping.
LEMMA MappingKnown ==
  ASSUME NEW resp \in Responses, NEW s
  PROVE  [resp EXCEPT !.source = s].mapping # Null
<1> HIDE DEF Mappings, Rows
<1>1. resp \in [source : {"none"}, confidence : 0 .. 100, mapping : Mappings,
                records : Seq([id : Ids, row : Rows])] /\ resp.mapping # Null
  BY ResponseAssumption
<1> QED
  BY <1>1

LEMMA FetchCompares ==
  ASSUME ScrapeInv, LossInv, NEW j \in Jobs,
         FetchApi(j) \/ FetchApiFails(j) \/ FetchPage(j) \/ FetchPageFails(j)
  PROVE  LossInv'
<1>t. work \in [Jobs -> Sessions] /\ work[j] \in Sessions /\ CompareInv(j)
  BY DEF ScrapeInv, SessionsOK, LossInv
<1>k. work[j].chosen.records # <<>> => work[j].chosen.mapping # Null
  BY <1>t DEF CompareInv
<1>s. ASSUME NEW chosen, NEW warned,
             \/ work' = work /\ chosen = work[j].chosen
             \/ work' = [work EXCEPT ![j].chosen = chosen]
             \/ work' = [work EXCEPT ![j].chosen = chosen, ![j].warned = warned]
      PROVE  /\ \A k \in Jobs \ {j} : work'[k] = work[k]
             /\ work'[j].chosen = chosen /\ work'[j].run = work[j].run
             /\ work'[j].overlapping = work[j].overlapping /\ work'[j].status = work[j].status
  <2>1. \/ work' = work /\ chosen = work[j].chosen
        \/ work' = [work EXCEPT ![j] = [work[j] EXCEPT !.chosen = chosen]]
        \/ work' = [work EXCEPT ![j] = [work[j] EXCEPT !.chosen = chosen, !.warned = warned]]
    BY <1>s
  <2>2. \A own : /\ [work EXCEPT ![j] = own][j] = own
                 /\ \A k \in Jobs \ {j} : [work EXCEPT ![j] = own][k] = work[k]
    BY <1>t
  <2>3. \/ work' = work /\ chosen = work[j].chosen
        \/ work'[j] = [work[j] EXCEPT !.chosen = chosen]
        \/ work'[j] = [work[j] EXCEPT !.chosen = chosen, !.warned = warned]
    BY <2>1, <2>2
  <2> QED
    BY <1>t, <2>1, <2>2, <2>3 DEF Sessions
<1>1. CASE FetchApi(j)
  <2>1. PICK resp \in Responses :
          /\ work' = [work EXCEPT ![j].chosen = [resp EXCEPT !.source = "api"]]
          /\ Goto(j, IF resp.records # <<>> /\ resp.confidence >= MinConfidence
                     THEN "compare" ELSE "fetch_page")
    BY <1>1 DEF FetchApi
  <2>3. PICK stage \in {"compare", "fetch_page"} : Goto(j, stage)
    BY <2>1
  <2>4. UNCHANGED <<runs, started>> /\ pc[j] = "fetch_api"
    BY <1>1 DEF FetchApi, tables
  <2>5. PICK chosen : chosen = [resp EXCEPT !.source = "api"] /\ chosen.mapping # Null
    BY MappingKnown
  <2>6. work' = [work EXCEPT ![j].chosen = chosen]
    BY <2>1, <2>5
  <2>7. /\ \A k \in Jobs \ {j} : work'[k] = work[k]
        /\ work'[j].chosen = chosen /\ work'[j].run = work[j].run
        /\ work'[j].overlapping = work[j].overlapping /\ work'[j].status = work[j].status
    BY <1>s, <2>6
  <2> QED
    BY <2>3, <2>4, <2>5, <2>7, NotedCompare
<1>2. CASE FetchApiFails(j)
  <2>1. work' = work /\ UNCHANGED <<runs, started>> /\ pc[j] = "fetch_api" /\ Goto(j, "fetch_page")
    BY <1>2 DEF FetchApiFails, tables
  <2> QED
    BY <1>k, <2>1, NotedCompare
<1>3. CASE FetchPage(j)
  <2>1. PICK resp \in Responses :
          \/ work' = work
          \/ work' = [work EXCEPT ![j].chosen = [resp EXCEPT !.source = "page"], ![j].warned = TRUE]
    BY <1>3 DEF FetchPage
  <2>3. UNCHANGED <<runs, started>> /\ pc[j] = "fetch_page" /\ Goto(j, "compare")
    BY <1>3 DEF FetchPage, tables
  <2>4. CASE work' = work
    BY <1>k, <2>3, <2>4, NotedCompare
  <2>5. CASE work' = [work EXCEPT ![j].chosen = [resp EXCEPT !.source = "page"], ![j].warned = TRUE]
    <3>1. PICK chosen : chosen = [resp EXCEPT !.source = "page"] /\ chosen.mapping # Null
      BY MappingKnown
    <3>2. work' = [work EXCEPT ![j].chosen = chosen, ![j].warned = TRUE]
      BY <2>5, <3>1
    <3>3. /\ \A k \in Jobs \ {j} : work'[k] = work[k]
          /\ work'[j].chosen = chosen /\ work'[j].run = work[j].run
          /\ work'[j].overlapping = work[j].overlapping /\ work'[j].status = work[j].status
      BY <1>s, <3>2
    <3> QED
      BY <2>3, <3>1, <3>3, NotedCompare
  <2> QED
    BY <2>1, <2>4, <2>5
<1>4. CASE FetchPageFails(j)
  <2>1. work' = [work EXCEPT ![j].chosen = NoResponse]
    BY <1>4 DEF FetchPageFails
  <2>2. NoResponse.records = <<>>
    BY DEF NoResponse
  <2>3. UNCHANGED <<runs, started>> /\ pc[j] = "fetch_page" /\ Goto(j, "complete")
    BY <1>4 DEF FetchPageFails, tables
  <2>4. work'[j].chosen = NoResponse
    BY <1>s, <2>1
  <2> QED
    BY <1>s, <2>1, <2>2, <2>3, <2>4, NotedCompare
<1> QED
  BY <1>1, <1>2, <1>3, <1>4

\* What the comparison reads is the last run before this one.
LEMMA ComparesWithLast ==
  ASSUME ScrapeInv, LossInv, NEW j \in Jobs, Working(j)
  PROVE  /\ last_successful_run = Before(work[j].run)
         /\ Breaks(work[j].run, work[j].chosen.mapping) <=>
              /\ previous_field_mapping # Null
              /\ StructureChanged(previous_field_mapping, work[j].chosen.mapping)
<1>1. /\ work[j].run = started /\ runs[started] = Null /\ started \in 1 .. MaxRuns
      /\ \A r \in Run : r > started => runs[r] = Null
  BY PipelineAssumption DEF LossInv, CompareInv, ScrapeInv, RunInv, SessionsOK, Working
<1>2. last_successful_run = Before(work[j].run)
  <2>1. \A r \in Run : Kept(r) => r < started
    BY <1>1, PipelineAssumption DEF Kept, Run
  <2>2. 1 .. started - 1 \subseteq Run
    BY <1>1, PipelineAssumption DEF Run
  <2>3. \A r \in Run : r < started => r \in 1 .. started - 1
    BY <1>1 DEF Run
  <2>4. last_successful_run = {r \in Run : Kept(r)}
    BY DEF last_successful_run, Kept
  <2> QED
    BY <1>1, <2>1, <2>2, <2>3, <2>4 DEF Before
<1>3. CASE Before(work[j].run) = {}
  BY <1>2, <1>3 DEF Breaks, previous_field_mapping
<1>4. CASE Before(work[j].run) # {}
  <2>1. started \in Nat /\ MaxRuns \in Nat /\ last_successful_run \in SUBSET (1 .. MaxRuns)
    BY <1>1, PipelineAssumption DEF last_successful_run, Run
  <2>2. Latest(last_successful_run) \in last_successful_run
    BY <1>2, <1>4, <2>1, LatestIs
  <2>3. runs[Latest(last_successful_run)].mapping # Null
    BY <2>2 DEF last_successful_run, LossInv, ReportInv, Kept
  <2>4. previous_field_mapping = runs[Latest(last_successful_run)].mapping
    BY <1>2, <1>4 DEF previous_field_mapping
  <2> QED
    BY <1>2, <1>4, <2>3, <2>4 DEF Breaks
<1> QED
  BY <1>2, <1>3, <1>4

\* The scrape warns if the mapping breaks with the last one, and goes on warning.
LEMMA ProcessCompares ==
  ASSUME ScrapeInv, LossInv, NEW j \in Jobs,
         Compare(j) \/ Gate(j) \/ Load(j) \/ Flush(j) \/ Complete(j) \/ Unlock(j)
  PROVE  LossInv'
<1>t. /\ work \in [Jobs -> Sessions] /\ pc \in [Jobs -> Stages] /\ work[j] \in Sessions
      /\ CompareInv(j) /\ RunInv(j)
      /\ UNCHANGED <<runs, started>>
  BY DEF ScrapeInv, SessionsOK, LossInv, Compare, Gate, Load, Flush, Complete, Unlock, tables
<1> DEFINE breaks == Breaks(work[j].run, work[j].chosen.mapping)
<1>1. CASE Compare(j)
  <2>1. Working(j) /\ ~Written(j) /\ pc[j] = "compare"
    BY <1>1, <1>t DEF Compare, Working, RunInv
  <2>2. PICK warned :
          /\ work' = [work EXCEPT ![j].warned = warned]
          /\ previous_field_mapping # Null
               /\ StructureChanged(previous_field_mapping, work[j].chosen.mapping) => warned
    BY <1>1 DEF Compare
  <2>3. breaks => warned
    BY <2>1, <2>2, ComparesWithLast
  <2> HIDE DEF breaks
  <2>4. /\ \A k \in Jobs \ {j} : work'[k] = work[k]
        /\ work'[j].run = work[j].run /\ work'[j].overlapping = work[j].overlapping
        /\ work'[j].chosen = work[j].chosen /\ work'[j].warned = warned
        /\ work'[j].status = work[j].status
    BY <1>t, <2>2 DEF Sessions
  <2>5. ~Written(j)' /\ Goto(j, "gate")
    BY <1>1, <2>1, <2>4 DEF Written, Compare
  <2> QED
    BY <1>t, <2>1, <2>3, <2>4, <2>5, ComparedStep DEF Working, Stages, breaks
<1>2. CASE Gate(j)
  <2>1. Working(j) /\ ~Written(j) /\ pc[j] = "gate"
    BY <1>2, <1>t DEF Gate, Working, RunInv
  <2>2. PICK warned, score :
          /\ work' = [work EXCEPT ![j].confidence = score, ![j].warned = warned]
          /\ work[j].warned => warned
    BY <1>2 DEF Gate
  <2>3. PICK stage \in {"load", "complete"} : Goto(j, stage)
    BY <1>2 DEF Gate
  <2>4. /\ \A k \in Jobs \ {j} : work'[k] = work[k]
        /\ work'[j].run = work[j].run /\ work'[j].overlapping = work[j].overlapping
        /\ work'[j].chosen = work[j].chosen /\ work'[j].warned = warned
        /\ work'[j].status = work[j].status
    BY <1>t, <2>2 DEF Sessions
  <2>5. ~Written(j)'
    BY <2>1, <2>4 DEF Written
  <2>6. ~work[j].overlapping /\ breaks => work[j].warned
    BY <1>t, <2>1 DEF CompareInv
  <2> QED
    BY <1>t, <2>1, <2>2, <2>3, <2>4, <2>5, <2>6, ComparedStep DEF Working, Stages
<1>3. CASE Load(j)
  <2>1. Working(j) /\ ~Written(j) /\ pc[j] = "load"
    BY <1>3, <1>t DEF Load, Working, RunInv
  <2>2. PICK seen : work' = [work EXCEPT ![j].existing = seen]
    BY <1>3 DEF Load
  <2>4. /\ \A k \in Jobs \ {j} : work'[k] = work[k]
        /\ work'[j].run = work[j].run /\ work'[j].overlapping = work[j].overlapping
        /\ work'[j].chosen = work[j].chosen /\ work'[j].warned = work[j].warned
        /\ work'[j].status = work[j].status
    BY <1>t, <2>2 DEF Sessions
  <2>5. ~Written(j)' /\ Goto(j, "flush")
    BY <1>3, <2>1, <2>4 DEF Written, Load
  <2>6. ~work[j].overlapping /\ breaks => work[j].warned
    BY <1>t, <2>1 DEF CompareInv
  <2> QED
    BY <1>t, <2>1, <2>4, <2>5, <2>6, ComparedStep DEF Working, Stages
<1>4. CASE Flush(j)
  <2>1. Working(j) /\ pc[j] = "flush"
    BY <1>4, <1>t DEF Flush, Working
  <2>2. PICK rows, told :
          work' = [work EXCEPT ![j].writes = rows, ![j].changes = told,
                               ![j].status = IF work[j].warned THEN "PARTIAL" ELSE "SUCCESS"]
    BY <1>4 DEF Flush
  <2>4. /\ \A k \in Jobs \ {j} : work'[k] = work[k]
        /\ work'[j].run = work[j].run /\ work'[j].overlapping = work[j].overlapping
        /\ work'[j].chosen = work[j].chosen /\ work'[j].warned = work[j].warned
        /\ work'[j].status = IF work[j].warned THEN "PARTIAL" ELSE "SUCCESS"
    BY <1>t, <2>2 DEF Sessions
  <2>5. Goto(j, "complete")
    BY <1>4 DEF Flush
  <2>6. ~work[j].overlapping /\ breaks => work[j].warned
    BY <1>t, <2>1 DEF CompareInv
  <2> QED
    BY <1>t, <2>1, <2>4, <2>5, <2>6, ComparedStep DEF Working, Stages
<1>5. CASE Complete(j) \/ Unlock(j)
  <2>1. Working(j) /\ pc[j] \in {"complete", "unlock"}
    BY <1>5, <1>t DEF Complete, Unlock, Working
  <2>2. PICK keep, r : work' = work \/ work' = [work EXCEPT ![j].keep = keep, ![j].expired = r]
    BY <1>5 DEF Complete, Unlock
  <2>4. /\ \A k \in Jobs \ {j} : work'[k] = work[k]
        /\ work'[j].run = work[j].run /\ work'[j].overlapping = work[j].overlapping
        /\ work'[j].chosen = work[j].chosen /\ work'[j].warned = work[j].warned
        /\ work'[j].status = work[j].status
    BY <1>t, <2>2 DEF Sessions
  <2>5. PICK stage \in {"unlock", "commit"} : Goto(j, stage)
    BY <1>5 DEF Complete, Unlock
  <2>6. Written(j)' <=> Written(j)
    BY <2>4 DEF Written
  <2>7. /\ Written(j) /\ ~work[j].overlapping /\ breaks => work[j].warned
        /\ Written(j) => work[j].status = IF work[j].warned THEN "PARTIAL" ELSE "SUCCESS"
    BY <1>t DEF CompareInv
  <2> QED
    BY <1>t, <2>1, <2>4, <2>5, <2>6, <2>7, ComparedStep DEF Working, Stages
<1> QED
  BY <1>1, <1>2, <1>3, <1>4, <1>5

LEMMA AbortCompares ==
  ASSUME ScrapeInv, LossInv, NEW j \in Jobs, Abort(j)
  PROVE  LossInv'
<1>1. /\ pc'[j] = "idle" /\ work'[j] = NoWork /\ UNCHANGED <<runs, started>>
      /\ \A k \in Jobs \ {j} : pc'[k] = pc[k] /\ work'[k] = work[k]
  BY DEF ScrapeInv, SessionsOK, Abort, tables
<1>2. CompareInv(j)'
  BY <1>1 DEF CompareInv, Working, Written, NoWork, NoResponse
<1> QED
  BY <1>1, <1>2, LossFrame

\* A scrape that starts is the newest.
LEMMA StartCompares ==
  ASSUME ScrapeInv, LossInv, NEW j \in Jobs, Start(j)
  PROVE  LossInv'
<1>t. /\ work \in [Jobs -> Sessions] /\ work[j] = NoWork /\ pc[j] = "idle"
      /\ started \in Nat /\ lock = Null /\ UNCHANGED runs /\ started' = started + 1
      /\ \A r \in Run : r > started => runs[r] = Null
  BY PipelineAssumption DEF ScrapeInv, SessionsOK, RunInv, Start, tables
<1>1. PICK overlapping :
        /\ work' = [work EXCEPT ![j].run = started + 1, ![j].overlapping = overlapping]
        /\ (\E k \in Jobs : pc[k] = "commit") => overlapping
  BY DEF Start
<1>2. /\ pc'[j] = "fetch_api"
      /\ \A k \in Jobs \ {j} : pc'[k] = pc[k] /\ work'[k] = work[k]
  BY <1>1, <1>t DEF ScrapeInv, SessionsOK, Start
<1>3. /\ work'[j].run = started + 1 /\ work'[j].overlapping = overlapping
      /\ work'[j].chosen = NoResponse /\ work'[j].status = "FAILED"
  <2>1. work'[j] = [NoWork EXCEPT !.run = started + 1, !.overlapping = overlapping]
    BY <1>1, <1>t
  <2> QED
    BY <2>1 DEF NoWork
<1>4. \A k \in Jobs \ {j} : /\ pc[k] # "idle" => pc[k] = "commit" /\ overlapping
                            /\ pc[k] # "idle" => work[k].run \in 1 .. started
                            /\ ~Working(k)
  BY <1>t, <1>1, PipelineAssumption DEF ScrapeInv, RunInv, Working
<1>5. ReportInv'
  BY <1>t DEF LossInv, ReportInv, Kept, Breaks, Before
<1>6. CompareInv(j)'
  <2>1. NoResponse.records = <<>> /\ ~Written(j)'
    BY <1>3 DEF NoResponse, Written
  <2>2. \A s \in Run : s > started + 1 => runs[s] = Null
    BY <1>t DEF Run
  <2>3. \A s \in Run : runs'[s] # Null => ~(work'[j].run < s)
    BY <1>t, <1>3, <2>2 DEF Run
  <2> QED
    BY <1>2, <1>3, <1>t, <2>1, <2>3 DEF CompareInv
<1>7. ASSUME NEW k \in Jobs \ {j} PROVE CompareInv(k)'
  <2>1. CompareInv(k) /\ ~Working(k) /\ ~Working(k)'
    BY <1>2, <1>4 DEF LossInv, Working
  <2>2. Breaks(work[k].run, work[k].chosen.mapping)' <=> Breaks(work[k].run, work[k].chosen.mapping)
    BY <1>2, <1>t DEF Breaks, Before, Kept
  <2> QED
    BY <1>2, <1>t, <2>1, <2>2 DEF CompareInv, Written
<1>8. ASSUME NEW k \in Jobs, NEW l \in Jobs \ {k} PROVE OrderInv(k, l)'
  <2>1. OrderInv(k, l)
    BY DEF LossInv
  <2>2. CASE k # j /\ l # j
    BY <1>2, <2>1, <2>2 DEF OrderInv
  <2>3. CASE k = j
    BY <1>2, <1>3, <1>4, <2>3 DEF OrderInv
  <2>4. CASE l = j
    <3>1. k \in Jobs \ {j} /\ pc'[k] = pc[k] /\ work'[k] = work[k]
      BY <1>2, <2>4
    <3>2. pc[k] # "idle" => ~(started + 1 < work[k].run)
      BY <1>4, <1>t, <3>1
    <3> QED
      BY <1>3, <2>4, <3>1, <3>2 DEF OrderInv
  <2> QED
    BY <2>2, <2>3, <2>4
<1> QED
  BY <1>5, <1>6, <1>7, <1>8 DEF LossInv

\* The commit of run c changes what is before later runs only.
LEMMA BeforeKeeps ==
  ASSUME NEW c \in Run, \A r \in Run \ {c} : runs'[r] = runs[r],
         NEW s \in Run, s <= c, NEW mapping
  PROVE  Breaks(s, mapping)' <=> Breaks(s, mapping)
<1>1. Before(s) \subseteq Run \ {c} /\ Before(s) \in SUBSET (1 .. MaxRuns) /\ MaxRuns \in Nat
  BY PipelineAssumption DEF Before, Run
<1>2. \A r \in 1 .. s - 1 : Kept(r)' <=> Kept(r)
  BY PipelineAssumption DEF Kept, Run
<1>3. Before(s)' = Before(s)
  BY <1>2 DEF Before
<1>4. CASE Before(s) = {}
  BY <1>3, <1>4 DEF Breaks
<1>5. CASE Before(s) # {}
  <2>1. Latest(Before(s)) \in Run \ {c}
    BY <1>1, <1>5, LatestIs
  <2>2. runs'[Latest(Before(s))] = runs[Latest(Before(s))]
    BY <2>1
  <2>3. Breaks(s, mapping)' <=>
          Before(s) # {} /\ StructureChanged(runs'[Latest(Before(s))].mapping, mapping)
    BY <1>3 DEF Breaks
  <2> QED
    BY <2>2, <2>3 DEF Breaks
<1> QED
  BY <1>4, <1>5

LEMMA CommitCompares ==
  ASSUME ScrapeInv, LossInv, NEW j \in Jobs, Commit(j)
  PROVE  LossInv'
<1>t. /\ RunInv(j) /\ CompareInv(j) /\ pc[j] = "commit" /\ started \in 0 .. MaxRuns
      /\ UNCHANGED started /\ runs \in [Run -> RunRows \cup {Null}]
  BY DEF ScrapeInv, SessionsOK, LossInv, Commit
<1>1. /\ pc'[j] = "idle" /\ work'[j] = NoWork
      /\ \A k \in Jobs \ {j} : pc'[k] = pc[k] /\ work'[k] = work[k]
  BY DEF ScrapeInv, SessionsOK, Commit
<1>2. PICK c \in Run :
        /\ c = work[j].run /\ c \in 1 .. started
        /\ \A r \in Run \ {c} : runs'[r] = runs[r]
        /\ runs'[c].status = work[j].status
        /\ runs'[c].mapping = work[j].chosen.mapping
        /\ runs'[c].overlapping = work[j].overlapping
  <2>1. PICK c \in Run : c = work[j].run
    BY CommitTables
  <2>2. PICK row : row = [status |-> work[j].status, confidence |-> work[j].confidence,
                          mapping |-> work[j].chosen.mapping, overlapping |-> work[j].overlapping]
    OBVIOUS
  <2>3. runs' = [runs EXCEPT ![c] = row]
    BY <2>1, <2>2, CommitTables
  <2>4. runs'[c] = row /\ \A r \in Run \ {c} : runs'[r] = runs[r]
    BY <1>t, <2>3
  <2>5. /\ row.status = work[j].status /\ row.mapping = work[j].chosen.mapping
        /\ row.overlapping = work[j].overlapping
    BY <2>2
  <2> QED
    BY <1>t, <2>1, <2>4, <2>5 DEF RunInv
<1>4. ASSUME NEW s \in Run, Kept(s)'
      PROVE  /\ runs'[s].mapping # Null
             /\ ~runs'[s].overlapping /\ Breaks(s, runs[s].mapping)' => runs'[s].status = "PARTIAL"
  <2>1. CASE s = c
    <3>1. Written(j)
      BY <1>2, <1>4, <2>1 DEF Kept, Written
    <3>2. work[j].chosen.mapping # Null
      BY <1>t, <3>1 DEF CompareInv, RunInv, Trusted
    <3>3. ~work[j].overlapping /\ Breaks(c, work[j].chosen.mapping) => work[j].status = "PARTIAL"
      BY <1>t, <1>2, <3>1 DEF CompareInv
    <3>4. PICK mapping : mapping = work[j].chosen.mapping
      OBVIOUS
    <3>5. Breaks(c, mapping)' <=> Breaks(c, mapping)
      BY <1>2, BeforeKeeps
    <3>6. Breaks(s, runs[s].mapping)' <=> Breaks(c, mapping)
      <4>1. runs'[s].mapping = mapping
        BY <1>2, <2>1, <3>4
      <4> QED
        BY <2>1, <3>5, <4>1 DEF Breaks
    <3> QED
      BY <1>2, <2>1, <3>2, <3>3, <3>4, <3>6
  <2>2. CASE s # c
    <3>1. runs'[s] = runs[s] /\ Kept(s)
      BY <1>2, <1>4, <2>2 DEF Kept
    <3>2. /\ runs[s].mapping # Null
          /\ ~runs[s].overlapping /\ Breaks(s, runs[s].mapping) => runs[s].status = "PARTIAL"
      BY <3>1 DEF LossInv, ReportInv
    <3>3. CASE s <= c
      <4>1. PICK mapping : mapping = runs[s].mapping
        OBVIOUS
      <4>2. Breaks(s, mapping)' <=> Breaks(s, mapping)
        BY <1>2, <3>3, BeforeKeeps
      <4>3. Breaks(s, runs[s].mapping)' <=> Breaks(s, mapping)
        BY <3>1, <4>1, <4>2 DEF Breaks
      <4> QED
        BY <3>1, <3>2, <4>1, <4>3
    <3>4. CASE c < s
      <4>1. runs[s].overlapping
        BY <1>t, <1>2, <3>1, <3>4 DEF CompareInv, Kept
      <4> QED
        BY <3>1, <3>2, <4>1
    <3> QED
      BY <3>3, <3>4, PipelineAssumption DEF Run
  <2> QED
    BY <2>1, <2>2
<1>5. ReportInv'
  BY <1>4 DEF ReportInv
<1>6. CompareInv(j)'
  BY <1>1 DEF CompareInv, Working, Written, NoWork, NoResponse
<1>7. ASSUME NEW k \in Jobs \ {j} PROVE CompareInv(k)'
  <2>t. CompareInv(k) /\ RunInv(k) /\ PairInv(k, j) /\ OrderInv(k, j) /\ OrderInv(j, k)
    BY DEF LossInv, ScrapeInv
  <2>1. pc'[k] = pc[k] /\ work'[k] = work[k]
    BY <1>1
  <2>2. CASE pc[k] = "idle"
    BY <2>1, <2>2, <2>t DEF CompareInv, RunInv, Working, Written, NoWork, NoResponse
  <2>3. CASE pc[k] # "idle"
    <3>1. work[k].run \in Run
      BY <1>t, <2>t, <2>3, PipelineAssumption DEF RunInv, Run
    <3>2. ~work[k].overlapping /\ (pc[k] \in {"gate", "load", "flush"} \/ Written(k)) =>
            ~(c < work[k].run)
      BY <1>t, <1>2, <2>t, <2>3 DEF PairInv, OrderInv, Working, RunInv
    <3>3. ~work[k].overlapping /\ (pc[k] \in {"gate", "load", "flush"} \/ Written(k)) =>
            (Breaks(work[k].run, work[k].chosen.mapping)' =>
               Breaks(work[k].run, work[k].chosen.mapping))
      <4> SUFFICES ASSUME ~(c < work[k].run)
                   PROVE  Breaks(work[k].run, work[k].chosen.mapping)' =>
                            Breaks(work[k].run, work[k].chosen.mapping)
        BY <3>2
      <4>1. PICK s \in Run : s = work[k].run
        BY <3>1
      <4>m. PICK mapping : mapping = work[k].chosen.mapping
        OBVIOUS
      <4>2. Breaks(s, mapping)' <=> Breaks(s, mapping)
        BY <1>2, <4>1, BeforeKeeps, PipelineAssumption DEF Run
      <4>3. Breaks(work[k].run, work[k].chosen.mapping)' <=> Breaks(s, mapping)'
        BY <2>1, <4>1, <4>m DEF Breaks, Before
      <4> QED
        BY <4>1, <4>2, <4>3, <4>m
    <3>4. \A s \in Run : runs'[s] # Null /\ work[k].run < s => runs'[s].overlapping
      BY <1>t, <1>2, <2>t, <2>3 DEF CompareInv, OrderInv
    <3> QED
      BY <1>t, <2>1, <2>t, <3>3, <3>4 DEF CompareInv, Working, Written
  <2> QED
    BY <2>2, <2>3
<1>8. ASSUME NEW k \in Jobs, NEW l \in Jobs \ {k} PROVE OrderInv(k, l)'
  <2>1. OrderInv(k, l)
    BY DEF LossInv
  <2> QED
    BY <1>1, <2>1 DEF OrderInv
<1> QED
  BY <1>5, <1>6, <1>7, <1>8 DEF LossInv

LEMMA IdleStepsCompare ==
  ASSUME LossInv, SkipRetry \/ Reclaim \/ Crash \/ UNCHANGED vars
  PROVE  LossInv'
<1>1. UNCHANGED <<runs, started>>
  BY DEF SkipRetry, Reclaim, Crash, vars, tables
<1>2. ReportInv'
  BY <1>1 DEF LossInv, ReportInv, Kept, Breaks, Before
<1>3. CASE UNCHANGED <<pc, work>>
  <2>1. ASSUME NEW j \in Jobs PROVE CompareInv(j)'
    <3>1. CompareInv(j)
      BY DEF LossInv
    <3>2. Breaks(work[j].run, work[j].chosen.mapping)' <=> Breaks(work[j].run, work[j].chosen.mapping)
      BY <1>1, <1>3 DEF Breaks, Before, Kept
    <3> QED
      BY <1>1, <1>3, <3>1, <3>2 DEF CompareInv, Working, Written
  <2>2. ASSUME NEW j \in Jobs, NEW k \in Jobs \ {j} PROVE OrderInv(j, k)'
    BY <1>3 DEF LossInv, OrderInv
  <2> QED
    BY <1>2, <2>1, <2>2 DEF LossInv
<1>4. CASE Crash
  <2>1. \A j \in Jobs : pc'[j] = "idle" /\ work'[j] = NoWork
    BY <1>4 DEF Crash
  <2>2. \A j \in Jobs : CompareInv(j)'
    BY <2>1 DEF CompareInv, Working, Written, NoWork, NoResponse
  <2>3. \A j \in Jobs : \A k \in Jobs \ {j} : OrderInv(j, k)'
    BY <2>1 DEF OrderInv
  <2> QED
    BY <1>2, <2>2, <2>3 DEF LossInv
<1> QED
  BY <1>3, <1>4 DEF SkipRetry, Reclaim, vars

LEMMA LossInvInit == Init => LossInv
<1> SUFFICES ASSUME Init PROVE LossInv
  OBVIOUS
<1>1. /\ \A j \in Jobs : pc[j] = "idle" /\ work[j] = NoWork
      /\ \A r \in Run : runs[r] = Null
  BY DEF Init
<1>2. ReportInv
  BY <1>1 DEF ReportInv, Kept
<1>3. \A j \in Jobs : CompareInv(j)
  BY <1>1 DEF CompareInv, Working, Written, NoWork, NoResponse
<1>4. \A j \in Jobs : \A k \in Jobs \ {j} : OrderInv(j, k)
  BY <1>1 DEF OrderInv
<1> QED
  BY <1>2, <1>3, <1>4 DEF LossInv

LEMMA LossInvStep == ScrapeInv /\ LossInv /\ [Next]_vars => LossInv'
<1> SUFFICES ASSUME ScrapeInv, LossInv, [Next]_vars PROVE LossInv'
  OBVIOUS
<1>1. ASSUME NEW j \in Jobs, Start(j) \/ JobStep(j) \/ StatementFails(j) PROVE LossInv'
  <2>1. CASE FetchApi(j) \/ FetchApiFails(j) \/ FetchPage(j) \/ FetchPageFails(j)
    BY <2>1, FetchCompares
  <2>2. CASE Compare(j) \/ Gate(j) \/ Load(j) \/ Flush(j) \/ Complete(j) \/ Unlock(j)
    BY <2>2, ProcessCompares
  <2>3. CASE FlushFails(j) \/ StatementFails(j)
    BY <2>3, AbortCompares DEF FlushFails, StatementFails
  <2> QED
    BY <1>1, <2>1, <2>2, <2>3, StartCompares, CommitCompares DEF JobStep
<1> QED
  BY <1>1, IdleStepsCompare DEF Next

\* A run whose mapping breaks with the last successful one before it is never
\* recorded as a clean success, whatever failed, died or committed in between.
THEOREM LossIsReported == Spec => []LossReported
<1>1. LossInv => LossReported
  <2> SUFFICES ASSUME LossInv, NEW s \in Run, Kept(s), ~runs[s].overlapping,
                      Breaks(s, runs[s].mapping)
               PROVE  runs[s].status = "PARTIAL"
    BY DEF LossReported, Breaks, Before
  <2> QED
    BY DEF LossInv, ReportInv
<1> QED
  BY <1>1, ScrapeInvInit, ScrapeInvStep, LossInvInit, LossInvStep, PTL DEF Spec

-----------------------------------------------------------------------------
(* Snapshots.                                                              *)

\* An update moves the fields the snapshot tells of, and no other.
LEMMA MovedFields ==
  ASSUME NEW row \in Rows, NEW new
  PROVE  LET moved == diff(row, new)
             after == Overwrite(row, moved, new)
         IN  /\ moved = {} <=> after = row
             /\ Moved(row, after) = changed_fields(row, new)
             /\ DOMAIN changed_fields(row, new) = moved
<1> DEFINE moved == diff(row, new)
           after == Overwrite(row, moved, new)
<1>1. \A f \in TRACKED_FIELDS : after[f] = IF f \in moved THEN new[f] ELSE row[f]
  BY DEF Overwrite
<1>2. \A f \in TRACKED_FIELDS : f \in moved <=> new[f] # Null /\ new[f] # row[f]
  BY DEF diff
<1>3. row = [f \in TRACKED_FIELDS |-> row[f]] /\ after = [f \in TRACKED_FIELDS |-> after[f]]
  BY DEF Rows, Overwrite
<1>4. moved \subseteq TRACKED_FIELDS
  BY DEF diff
<1> HIDE DEF moved, after
<1>5. {f \in TRACKED_FIELDS : after[f] # row[f]} = moved
  BY <1>1, <1>2, <1>4
<1>6. moved = {} <=> after = row
  BY <1>1, <1>2, <1>3, <1>4
<1>7. changed_fields(row, new) = [f \in moved |-> [old |-> row[f], new |-> new[f]]]
  BY DEF changed_fields, moved
<1>8. Moved(row, after) = [f \in moved |-> [old |-> row[f], new |-> after[f]]]
  BY <1>5 DEF Moved
<1>9. Moved(row, after) = changed_fields(row, new)
  BY <1>1, <1>4, <1>7, <1>8
<1>10. DOMAIN changed_fields(row, new) = moved
  BY <1>7
<1> QED
  BY <1>6, <1>9, <1>10 DEF moved, after

\* The rows a commit moves, and what it tells of each.
Told(j, i) ==
  snapshots'[i] =
    IF ipos[i] = Null \/ ipos'[i] = ipos[i] THEN snapshots[i]
    ELSE Append(snapshots[i], [run |-> work[j].run, changes |-> Moved(ipos[i], ipos'[i])])

LEMMA CommitTells ==
  ASSUME ScrapeInv, NEW j \in Jobs, Commit(j), ~work[j].overlapping, NEW i \in Ids
  PROVE  Told(j, i)
<1>t. MergeInv(j) /\ SessionsOK /\ DOMAIN NoChange = {}
  BY DEF ScrapeInv, NoChange
<1>1. /\ ipos'[i] = IF work[j].writes[i] # Null THEN work[j].writes[i] ELSE ipos[i]
      /\ snapshots'[i] = IF DOMAIN work[j].changes[i] # {}
                         THEN Append(snapshots[i], [run |-> work[j].run, changes |-> work[j].changes[i]])
                         ELSE snapshots[i]
  BY DEF Commit
<1>2. CASE ~(Written(j) /\ i \in Batch(j))
  <2>1. work[j].writes[i] = Null /\ work[j].changes[i] = NoChange
    BY <1>t, <1>2 DEF MergeInv
  <2> QED
    BY <1>t, <1>1, <2>1 DEF Told
<1>3. CASE Written(j) /\ i \in Batch(j)
  <2> DEFINE new == RowFor(work[j].chosen.records, i)
             moved == diff(ipos[i], new)
  <2>1. work[j].existing[i] = ipos[i] /\ work[j].writes[i] = Merged(j, i)
    BY <1>t, <1>3 DEF MergeInv
  <2>2. work[j].changes[i] = IF ipos[i] = Null THEN NoChange ELSE changed_fields(ipos[i], new)
    BY <1>t, <1>3, <2>1 DEF MergeInv
  <2>3. CASE ipos[i] = Null
    BY <1>t, <1>1, <2>2, <2>3 DEF Told
  <2>4. CASE ipos[i] # Null
    <3>1. ipos[i] \in Rows
      BY <1>t, <2>4 DEF SessionsOK, MaybeRow
    <3>2. Merged(j, i) = Overwrite(ipos[i], moved, new) /\ Merged(j, i) # Null
      BY <1>3, <2>1, <2>4, MergedRows DEF Merged
    <3>3. ipos'[i] = Overwrite(ipos[i], moved, new)
      BY <1>1, <2>1, <3>2
    <3> HIDE DEF new
    <3>4. /\ moved = {} <=> ipos'[i] = ipos[i]
          /\ Moved(ipos[i], ipos'[i]) = changed_fields(ipos[i], new)
          /\ DOMAIN changed_fields(ipos[i], new) = moved
      <4>1. PICK row \in Rows : row = ipos[i]
        BY <3>1
      <4> QED
        BY <3>3, <4>1, MovedFields
    <3>5. work[j].changes[i] = Moved(ipos[i], ipos'[i])
      BY <2>2, <2>4, <3>4
    <3>6. DOMAIN work[j].changes[i] # {} <=> ipos'[i] # ipos[i]
      BY <3>4, <3>5
    <3> QED
      BY <1>1, <2>4, <3>5, <3>6 DEF Told
  <2> QED
    BY <2>3, <2>4
<1> QED
  BY <1>2, <1>3

\* Only its own commit gives a run its row.
LEMMA OwnCommit ==
  ASSUME ScrapeInv, [Next]_vars, NEW j \in Jobs, pc[j] = "commit", runs'[work[j].run] # Null
  PROVE  Commit(j)
<1>t. /\ RunInv(j) /\ runs[work[j].run] = Null /\ work[j].run \in Run
      /\ runs \in [Run -> RunRows \cup {Null}]
  BY PipelineAssumption DEF ScrapeInv, RunInv, SessionsOK, Run
<1>1. ASSUME NEW k \in Jobs \ {j}, Commit(k) PROVE FALSE
  <2>1. work[k].run # work[j].run
    BY <1>1 DEF ScrapeInv, PairInv, Commit
  <2>2. PICK row : runs' = [runs EXCEPT ![work[k].run] = row]
    BY <1>1 DEF Commit
  <2> QED
    BY <1>t, <2>1, <2>2
<1>2. ASSUME UNCHANGED runs PROVE FALSE
  BY <1>t, <1>2
<1>3. ASSUME NEW k \in Jobs, Start(k) \/ JobStep(k) \/ StatementFails(k), ~Commit(k)
      PROVE  UNCHANGED runs
  BY <1>3, Zenon DEF Start, JobStep, FetchApi, FetchApiFails, FetchPage, FetchPageFails, Compare,
     Gate, Load, Flush, FlushFails, Complete, Unlock, StatementFails, Abort, tables
<1>4. CASE SkipRetry \/ Reclaim \/ Crash \/ UNCHANGED vars
  BY <1>2, <1>4 DEF SkipRetry, Reclaim, Crash, vars, tables
<1> QED
  BY <1>1, <1>2, <1>3, <1>4 DEF Next

\* A commit appends one snapshot, with the old and the new values, for each row
\* it moves, and none for a row it leaves.
THEOREM SnapshotsTell == Spec => SnapshotsTellChanges
<1>1. ScrapeInv /\ [Next]_vars =>
        \A j \in Jobs, i \in Ids :
          pc[j] = "commit" /\ runs'[work[j].run] # Null /\ ~work[j].overlapping =>
            snapshots'[i] =
              IF ipos[i] = Null \/ ipos'[i] = ipos[i] THEN snapshots[i]
              ELSE Append(snapshots[i], [run |-> work[j].run, changes |-> Moved(ipos[i], ipos'[i])])
  BY OwnCommit, CommitTells DEF Told
<1> QED
  BY <1>1, ScrapeInvInit, ScrapeInvStep, PTL DEF Spec, SnapshotsTellChanges
=============================================================================
