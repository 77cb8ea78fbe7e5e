--------------------------- MODULE ScrapePipeline ---------------------------
(***************************************************************************)
(* Scrapes: fetch, fall back to the page, gate on confidence, merge into   *)
(* ipos, keep the raw payload, record the run; and the scheduler that      *)
(* retries a failed one once.  A scrape is one transaction: what it writes *)
(* is seen by others when session_scope commits, and lost if a statement   *)
(* fails or the worker dies.  The advisory lock is released before that    *)
(* commit (scraper_worker.py), so the next scrape may start while the rows *)
(* of the last one are written and not committed; it waits for their locks *)
(* when it writes them itself.                                             *)
(*                                                                         *)
(* One worker process.  A statement that fails leaves the lock on its      *)
(* pooled connection, until the pool gives the connection out again or     *)
(* recycles it (JobLock).  Runs are numbered in the order of started_at.   *)
(***************************************************************************)
EXTENDS IpoRecords

CONSTANTS
  ScrapeJobs,     \* the jobs that scrape on schedule or at startup
  RetryJob,       \* the one-shot job scrape_ipos_retry
  Ids,            \* source identities
  Responses,      \* what extraction may make of a response
  MinConfidence,  \* SCRAPER_MIN_CONFIDENCE, in percent
  RetentionMode,  \* SCRAPER_RAW_RETENTION_MODE
  MaxRuns,        \* bound on scrapes
  MaxFaults       \* bound on failed statements and crashes

Jobs == ScrapeJobs \cup {RetryJob}
Run  == 1 .. MaxRuns

ASSUME PipelineAssumption ==
  /\ RetryJob \notin ScrapeJobs
  /\ Null \notin Jobs /\ "leaked" \notin Jobs
  /\ MinConfidence \in 0 .. 100
  /\ RetentionMode \in {"always", "on_failure", "never"}
  /\ MaxRuns \in Nat /\ MaxFaults \in Nat

Values == UNION {{resp.records[n].row[f] : n \in DOMAIN resp.records, f \in TRACKED_FIELDS} :
                   resp \in Responses}
Rows     == [TRACKED_FIELDS -> Values \cup {Null}]
Mappings == {resp.mapping : resp \in Responses} \cup {Null}

RunStatus == {"SUCCESS", "PARTIAL", "FAILED"}
RunRows   == [status : RunStatus, confidence : 0 .. 100, mapping : Mappings, overlapping : BOOLEAN]

\* Responses have the shape of an extraction, a field mapping included; Null is
\* none of the rows.
ASSUME ResponseAssumption ==
  /\ Responses \subseteq [source : {"none"}, confidence : 0 .. 100, mapping : Mappings,
                          records : Seq([id : Ids, row : Rows])]
  /\ \A resp \in Responses : resp.mapping # Null
  /\ Null \notin Rows
  /\ Null \notin RunRows

VARIABLES
  \* the database
  runs,           \* scrape_runs: a row for each committed run
  payloads,       \* scrape_raw_payloads: the runs that kept one
  ipos,           \* ipos: a row for each id, or Null
  snapshots,      \* ipo_snapshots, in order, for each id
  \* the worker
  pc,             \* where each job stands
  work,           \* what its session holds
  lock,           \* the job that holds the lock; "leaked": an idle connection
  retry_due,      \* the retry job is scheduled
  \* history and bounds
  started,        \* number of runs started
  retries, failures,      \* retries started, failures that asked for one
  faults

tables  == <<runs, payloads, ipos, snapshots>>
history == <<retries, failures>>
vars    == <<tables, pc, work, lock, retry_due, started, history, faults>>

Stages == {"idle", "fetch_api", "fetch_page", "compare", "gate", "load", "flush",
           "complete", "unlock", "commit"}

NoChange == [f \in {} |-> Null]

NoResponse == [source |-> "none", confidence |-> 0, mapping |-> Null, records |-> <<>>]

\* run: the run row it opened.  chosen: the response it goes by.  warned: it has
\* something to report.  existing: rows read before the merge.  writes: rows it
\* has written.  changes: snapshots it has written.  expired: it has deleted the
\* payloads of runs up to this one.  And an observation: overlapping, it started
\* before another had committed.
NoWork == [run |-> 0, overlapping |-> FALSE, chosen |-> NoResponse,
           warned |-> FALSE, confidence |-> 0,
           existing |-> [i \in Ids |-> Null], writes |-> [i \in Ids |-> Null],
           changes |-> [i \in Ids |-> NoChange], status |-> "FAILED", keep |-> FALSE, expired |-> 0]

Init ==
  /\ runs = [r \in Run |-> Null]
  /\ payloads = {}
  /\ ipos = [i \in Ids |-> Null]
  /\ snapshots = [i \in Ids |-> <<>>]
  /\ pc = [j \in Jobs |-> "idle"]
  /\ work = [j \in Jobs |-> NoWork]
  /\ lock = Null
  /\ retry_due = FALSE
  /\ started = 0
  /\ retries = 0
  /\ failures = 0
  /\ faults = 0

----------------------------------------------------------------------------
(* Fetch and extract.                                                      *)

Goto(j, stage) == pc' = [pc EXCEPT ![j] = stage]

\* The scheduler fires a job (the retry job leaves the job store as it fires),
\* the job gets the lock and start_run adds the run row to the transaction.
Start(j) ==
  /\ pc[j] = "idle"
  /\ started < MaxRuns
  /\ j = RetryJob => retry_due
  /\ retry_due' = (retry_due /\ j # RetryJob)
  /\ lock = Null
  /\ lock' = j
  /\ started' = started + 1
  /\ work' = [work EXCEPT ![j].run = started + 1,
                          ![j].overlapping = \E k \in Jobs : pc[k] = "commit"]
  /\ retries' = IF j = RetryJob THEN retries + 1 ELSE retries
  /\ Goto(j, "fetch_api")
  /\ UNCHANGED <<tables, failures, faults>>

\* The retry fires while the lock is taken, or the retry before it still runs:
\* it is gone.  (A scheduled scrape turned away leaves no trace at all.)
SkipRetry ==
  /\ retry_due
  /\ lock # Null \/ pc[RetryJob] # "idle"
  /\ retry_due' = FALSE
  /\ UNCHANGED <<tables, pc, work, lock, started, history, faults>>

\* The feed answers: it is used if there are records and the columns were
\* recognised well enough.
FetchApi(j) ==
  /\ pc[j] = "fetch_api"
  /\ \E resp \in Responses :
       /\ work' = [work EXCEPT ![j].chosen = [resp EXCEPT !.source = "api"]]
       /\ Goto(j, IF resp.records # <<>> /\ resp.confidence >= MinConfidence
                  THEN "compare" ELSE "fetch_page")
  /\ UNCHANGED <<tables, lock, retry_due, started, history, faults>>

FetchApiFails(j) ==
  /\ pc[j] = "fetch_api"
  /\ Goto(j, "fetch_page")
  /\ UNCHANGED <<tables, work, lock, retry_due, started, history, faults>>

\* The page answers: whichever attempt understood the data better is kept.
FetchPage(j) ==
  /\ pc[j] = "fetch_page"
  /\ \E resp \in Responses :
       LET first == work[j].chosen
       IN  work' = IF first.source = "api" /\ first.confidence >= resp.confidence
                   THEN work
                   ELSE [work EXCEPT ![j].chosen = [resp EXCEPT !.source = "page"],
                                     ![j].warned = TRUE]
  /\ Goto(j, "compare")
  /\ UNCHANGED <<tables, lock, retry_due, started, history, faults>>

\* FetchError leaves the pipeline with no payload, whatever the feed said.
FetchPageFails(j) ==
  /\ pc[j] = "fetch_page"
  /\ work' = [work EXCEPT ![j].chosen = NoResponse]
  /\ Goto(j, "complete")
  /\ UNCHANGED <<tables, lock, retry_due, started, history, faults>>

----------------------------------------------------------------------------
(* Process.                                                                *)

Latest(R) == CHOOSE r \in R : \A s \in R : s <= r

\* Mutant: the baseline is the last run, successful or not.
AnyRun == {r \in Run : runs[r] # Null}

last_successful_run == {r \in Run : runs[r] # Null /\ runs[r].status # "FAILED"}

\* The mapping of the last successful run, if there is one.
previous_field_mapping ==
  IF last_successful_run = {} THEN Null ELSE runs[Latest(last_successful_run)].mapping

Compare(j) ==
  /\ pc[j] = "compare"
  /\ work' = [work EXCEPT ![j].warned =
       @ \/ /\ previous_field_mapping # Null
            /\ StructureChanged(previous_field_mapping, work[j].chosen.mapping)]
  /\ Goto(j, "gate")
  /\ UNCHANGED <<tables, lock, retry_due, started, history, faults>>

\* Mutant: the columns alone decide.
TrustedColumns(resp) ==
  /\ resp.records # <<>>
  /\ resp.confidence >= MinConfidence
  /\ valid(resp.records) # {}

\* No record, too little confidence or no valid record: the run fails.
Trusted(resp) ==
  /\ resp.records # <<>>
  /\ compute_confidence(resp.confidence, resp.records) >= MinConfidence
  /\ valid(resp.records) # {}

Gate(j) ==
  LET resp == work[j].chosen
  IN  /\ pc[j] = "gate"
      /\ work' = [work EXCEPT
           ![j].confidence = IF resp.records = <<>> THEN 0
                             ELSE compute_confidence(resp.confidence, resp.records),
           ![j].warned = @ \/ (resp.records # <<>> /\ valid(resp.records) # DOMAIN resp.records)]
      /\ Goto(j, IF Trusted(resp) THEN "load" ELSE "complete")
      /\ UNCHANGED <<tables, lock, retry_due, started, history, faults>>

\* upsert_many reads the rows of the batch ...
Load(j) ==
  /\ pc[j] = "load"
  /\ work' = [work EXCEPT ![j].existing =
                [i \in Ids |-> IF RowFor(work[j].chosen.records, i) # Null THEN ipos[i] ELSE Null]]
  /\ Goto(j, "flush")
  /\ UNCHANGED <<tables, lock, retry_due, started, history, faults>>

Batch(j) == {i \in Ids : RowFor(work[j].chosen.records, i) # Null}

\* ... and writes them, when no other transaction has them locked.
Unlocked(j) == \A k \in Jobs \ {j}, i \in Batch(j) : work[k].writes[i] = Null

\* What the write of id i makes of its row: an UPDATE sets the fields that moved.
Merged(j, i) ==
  LET new == RowFor(work[j].chosen.records, i)
      old == work[j].existing[i]
  IN  IF old = Null THEN new ELSE Overwrite(ipos[i], diff(old, new), new)

Conflict(j) ==
  \E i \in Batch(j) : \/ work[j].existing[i] = Null /\ ipos[i] # Null    \* unique key
                      \/ ~Ordered(Merged(j, i))                          \* CHECK

Flush(j) ==
  /\ pc[j] = "flush"
  /\ Unlocked(j)
  /\ ~Conflict(j)
  /\ work' = [work EXCEPT
       ![j].writes = [i \in Ids |-> IF i \in Batch(j) THEN Merged(j, i) ELSE Null],
       ![j].changes = [i \in Ids |->
          IF i \in Batch(j) /\ work[j].existing[i] # Null
          THEN changed_fields(work[j].existing[i], RowFor(work[j].chosen.records, i))
          ELSE NoChange],
       ![j].status = IF work[j].warned THEN "PARTIAL" ELSE "SUCCESS"]
  /\ Goto(j, "complete")
  /\ UNCHANGED <<tables, lock, retry_due, started, history, faults>>

----------------------------------------------------------------------------
(* Ends.                                                                   *)

\* Payloads that may be days old: none of a run in progress, or started after it.
Expirable == {r \in Run : r \in payloads /\ \A k \in Jobs : pc[k] # "idle" => r < work[k].run}

\* _retain_payload, complete_run and purge_expired_payloads: in the transaction.
Complete(j) ==
  /\ pc[j] = "complete"
  /\ \E r \in Expirable \cup {0} :
       work' = [work EXCEPT
         ![j].keep = /\ work[j].chosen.source # "none"
                     /\ \/ RetentionMode = "always"
                        \/ RetentionMode = "on_failure" /\ work[j].status = "FAILED",
         ![j].expired = r]
  /\ Goto(j, "unlock")
  /\ UNCHANGED <<tables, lock, retry_due, started, history, faults>>

Unlock(j) ==
  /\ pc[j] = "unlock"
  /\ lock' = Null
  /\ Goto(j, "commit")
  /\ UNCHANGED <<tables, work, retry_due, started, history, faults>>

\* Mutant: a retry that fails asks for another.
CommitRetriesRetry(j) ==
  LET own == work[j]
  IN  /\ pc[j] = "commit"
      /\ runs' = [runs EXCEPT ![own.run] =
           [status |-> own.status, confidence |-> own.confidence, mapping |-> own.chosen.mapping,
            overlapping |-> own.overlapping]]
      /\ retry_due' = (retry_due \/ own.status = "FAILED")
      /\ failures' = IF j # RetryJob /\ own.status = "FAILED" THEN failures + 1 ELSE failures
      /\ work' = [work EXCEPT ![j] = NoWork]
      /\ Goto(j, "idle")
      /\ UNCHANGED <<payloads, ipos, snapshots, lock, started, retries, faults>>

\* session_scope commits; a failed run that was not a retry schedules one.
Commit(j) ==
  LET own == work[j]
      moved(i) == DOMAIN own.changes[i] # {}
  IN  /\ pc[j] = "commit"
      /\ runs' = [runs EXCEPT ![own.run] =
           [status |-> own.status, confidence |-> own.confidence, mapping |-> own.chosen.mapping,
            overlapping |-> own.overlapping]]
      /\ payloads' = (payloads \ 1 .. own.expired) \cup (IF own.keep THEN {own.run} ELSE {})
      /\ ipos' = [i \in Ids |-> IF own.writes[i] # Null THEN own.writes[i] ELSE ipos[i]]
      /\ snapshots' = [i \in Ids |->
           IF moved(i) THEN Append(snapshots[i], [run |-> own.run, changes |-> own.changes[i]])
           ELSE snapshots[i]]
      /\ retry_due' = (retry_due \/ (j # RetryJob /\ own.status = "FAILED"))
      /\ failures' = IF j # RetryJob /\ own.status = "FAILED" THEN failures + 1 ELSE failures
      /\ work' = [work EXCEPT ![j] = NoWork]
      /\ Goto(j, "idle")
      /\ UNCHANGED <<lock, started, retries, faults>>

\* Mutant: the session outlives the failure.
AbortKeepsWork(j) ==
  /\ lock' = IF lock = j THEN "leaked" ELSE lock
  /\ Goto(j, "idle")
  /\ UNCHANGED <<tables, work, retry_due, started, history>>

\* A statement fails.  The statements after it, complete_run and the release of
\* the lock included, fail on the aborted transaction; the session rolls back
\* and the job sees no outcome, so nothing is retried.
Abort(j) ==
  /\ lock' = IF lock = j THEN "leaked" ELSE lock
  /\ work' = [work EXCEPT ![j] = NoWork]
  /\ Goto(j, "idle")
  /\ UNCHANGED <<tables, retry_due, started, history>>

\* Mutant: a batch that is refused is tried again.
FlushTriedAgain(j) ==
  /\ pc[j] = "flush"
  /\ Unlocked(j)
  /\ Conflict(j)
  /\ Goto(j, "load")
  /\ UNCHANGED <<tables, work, lock, retry_due, started, history, faults>>

FlushFails(j) ==
  /\ pc[j] = "flush"
  /\ Unlocked(j)
  /\ Conflict(j)
  /\ Abort(j)
  /\ UNCHANGED faults

\* Stages without a statement; that of start_run counts to fetch_api.
NoStatement == {"idle", "fetch_page", "gate"}

StatementFails(j) ==
  /\ pc[j] \notin NoStatement
  /\ faults < MaxFaults
  /\ faults' = faults + 1
  /\ Abort(j)

\* The pool gives the connection out again, or recycles it.
Reclaim ==
  /\ lock = "leaked"
  /\ lock' = Null
  /\ UNCHANGED <<tables, pc, work, retry_due, started, history, faults>>

\* The worker dies: its transactions, its lock and its job store go with it.
Crash ==
  /\ faults < MaxFaults
  /\ faults' = faults + 1
  /\ pc' = [j \in Jobs |-> "idle"]
  /\ work' = [j \in Jobs |-> NoWork]
  /\ lock' = Null
  /\ retry_due' = FALSE
  /\ UNCHANGED <<tables, started, history>>

JobStep(j) ==
  \/ FetchApi(j) \/ FetchApiFails(j) \/ FetchPage(j) \/ FetchPageFails(j)
  \/ Compare(j) \/ Gate(j) \/ Load(j) \/ Flush(j) \/ FlushFails(j)
  \/ Complete(j) \/ Unlock(j) \/ Commit(j)

Next ==
  \/ \E j \in Jobs : Start(j) \/ JobStep(j) \/ StatementFails(j)
  \/ SkipRetry \/ Reclaim \/ Crash

Spec == Init /\ [][Next]_vars

\* Every await returns; the scheduler, faults and the pool owe nothing.
FairSpec == Spec /\ \A j \in Jobs : WF_vars(JobStep(j))

----------------------------------------------------------------------------
(* Properties.                                                             *)

MaybeRow  == [Ids -> Rows \cup {Null}]
Kept(r)   == runs[r] # Null /\ runs[r].status # "FAILED"

TypeOK ==
  /\ runs \in [Run -> RunRows \cup {Null}]
  /\ payloads \subseteq Run
  /\ ipos \in MaybeRow
  /\ pc \in [Jobs -> Stages]
  /\ \A j \in Jobs :
       /\ work[j].run \in 0 .. started
       /\ work[j].run = 0 <=> pc[j] = "idle"
       /\ work[j].existing \in MaybeRow /\ work[j].writes \in MaybeRow
       /\ work[j].status \in RunStatus
  /\ lock \in Jobs \cup {Null, "leaked"}
  /\ retry_due \in BOOLEAN
  /\ retries \in Nat /\ failures \in Nat

(* Untrusted data never reaches ipos, and trusted data reaches it as a     *)
(* whole: a run that fails, raises, dies or is recorded below the least    *)
(* confidence leaves rows and snapshots alone, and one that is kept merges *)
(* its batch in one step, into the rows as they are then, with a snapshot  *)
(* of exactly what moved, each run at most once (the failure policy of     *)
(* pipeline.py, upsert_many).  What a run that overlapped another may do   *)
(* is AcceptLate of IpoStore.                                              *)
Outcome ==
  [r \in Run |->
     IF runs[r] = Null THEN Null
     ELSE IF ~Kept(r) \/ runs[r].confidence < MinConfidence THEN "refused"
     ELSE IF runs[r].overlapping THEN "late" ELSE "in turn"]

BatchOf(resp) == [i \in Ids |-> RowFor(resp.records, i)]

Store == INSTANCE IpoStore WITH
  Fields <- TRACKED_FIELDS, Runs <- Run, Batches <- {BatchOf(resp) : resp \in Responses},
  outcome <- Outcome

ImplementsStore == Store!Spec

(* A field of the source that disappears or moves is reported: a run whose *)
(* mapping breaks with the last successful one before it is not recorded   *)
(* as a clean SUCCESS, whatever failed in between.  A run that started     *)
(* before another had committed may have compared with an older mapping.   *)
LossReported ==
  \A s \in Run :
    LET before == {r \in 1 .. s - 1 : Kept(r)}
    IN  Kept(s) /\ ~runs[s].overlapping /\ before # {}
          /\ StructureChanged(runs[Latest(before)].mapping, runs[s].mapping)
        => runs[s].status = "PARTIAL"

(* The history of an IPO is the history of its row: a commit that moves    *)
(* fields of a row appends one snapshot with exactly the old and the new   *)
(* values, and one that moves none appends nothing (docs/database.md).     *)
(* Again a run that overlapped another is excepted.                        *)
Moved(old, new) ==
  [f \in {f \in TRACKED_FIELDS : new[f] # old[f]} |-> [old |-> old[f], new |-> new[f]]]
SnapshotsTellChanges ==
  [][\A j \in Jobs, i \in Ids :
       pc[j] = "commit" /\ runs'[work[j].run] # Null /\ ~work[j].overlapping =>
         snapshots'[i] =
           IF ipos[i] = Null \/ ipos'[i] = ipos[i] THEN snapshots[i]
           ELSE Append(snapshots[i], [run |-> work[j].run, changes |-> Moved(ipos[i], ipos'[i])])]_vars

(* A date or a premium that is known is never lost to a cell the source    *)
(* leaves blank, whichever runs overlap: the blank is Null, and every merge *)
(* skips it.  The type is left out: a blank one arrives as UNKNOWN, which   *)
(* is no Null, and does overwrite a known type, although                    *)
(* docs/database.md:132-134 and repositories/ipo.py:333-336 say of every    *)
(* blank cell that it does not erase good data.                             *)
Blankable == TRACKED_FIELDS \ {"ipo_type"}
KnownStaysKnown ==
  [][\A i \in Ids, f \in Blankable :
       ipos[i] # Null /\ ipos[i][f] # Null => ipos'[i][f] # Null]_vars

(* A failed scrape is retried at most once, and a retry never (scheduler.py *)
(* promises that a broken source is not hammered).                         *)
RetriesBounded == retries <= failures

(* Every scrape ends, whatever rows it has to wait for or is refused.      *)
EveryScrapeEnds == \A j \in Jobs : pc[j] # "idle" ~> pc[j] = "idle"

(* What the docstring of ScrapePipeline.run says: it always returns an     *)
(* outcome, it never raises.  An outcome ends up in the row of the run.    *)
NeverRaises ==
  [][\A j \in Jobs :
       pc[j] # "idle" /\ pc'[j] = "idle" /\ faults' = faults => runs'[work[j].run] # Null]_vars
=============================================================================
