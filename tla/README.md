# Verification of the IPO alert backend

TLA+ models of the backend in `src/` (FastAPI, SQLAlchemy on PostgreSQL, APScheduler workers), the
TLC instances that check them and TLAPS proofs about them. Paths below are relative to `src/app/`.

## 1. The system

Processes: any number of `api` replicas, any number of `worker` replicas (one event loop each, with
an APScheduler that runs scrape jobs and a notification job), and one-off `run_once` commands. They
share nothing but PostgreSQL, at READ COMMITTED.

| Component | State | Operations | Interacts with | What makes it correct |
|---|---|---|---|---|
| notification engine (`services/notifications/engine.py`) | what one pass holds in memory | a pass: load rules and IPOs, claim, send, record | ledger, devices, provider | one call per rule, IPO and window; every pass ends; a due alert is claimed |
| delivery ledger and rules (`repositories/notification.py`) | `notification_preferences`, `notification_deliveries` | claim, mark sent / failed / skipped, create / update / delete a rule | engine, API | rows tell what happened; no row outlives its rule |
| device registry (`repositories/device.py`) | `devices` | register (moves a token), deregister, invalidate | API, engine | a token belongs to its last registrant; only gone tokens are retired |
| push providers (`services/notifications/providers.py`) | OAuth token cache | send | engine | every device is tried; only gone tokens are retired |
| job locks and pool (`workers/*_worker.py`, `db/session.py`) | advisory locks, idle connections | acquire, skip, unlock, commit, recycle | both jobs | one scrape at a time; no lock is lost for ever |
| scheduler (`workers/scheduler.py`) | jobs, one retry job | fire, schedule a retry | both jobs | a failed scrape is retried once, and only once |
| scrape pipeline (`services/scraper/pipeline.py`, `repositories/scrape.py`) | `scrape_runs`, `scrape_raw_payloads` | fetch, fall back, gate, persist, retain, complete | HTTP, IPO store | untrusted data never reaches `ipos`; a lost column is reported |
| extraction (`services/scraper/extractor.py`, `field_map.py`, `normalizer.py`, `validator.py`, `utils/parsing.py`) | none | choose a strategy, map columns, parse, normalise, validate, score | pipeline | what the site prints is what is stored; an IPO keeps its identity |
| HTTP client (`services/scraper/client.py`) | none | fetch with retries and backoff | pipeline | bounded attempts, permanent errors not retried |
| IPO store (`repositories/ipo.py`) | `ipos`, `ipo_snapshots` | upsert a batch, list, count | pipeline, engine, API | blanks never erase data; a snapshot for each change |
| status and listing (`services/ipo.py`, `schemas/ipo.py`) | none | derive status, filter, sort, page | API | Python and SQL agree on the status; pages neither repeat nor skip |
| sign-up and tokens (`services/auth.py`, `core/security.py`) | `users` | register, authenticate, issue and check tokens | API | one account per phone and per e-mail |
| rate limiter (`core/middleware.py`) | windows per key, in memory | count, prune | API | at most the limit per window |
| bootstrap (`db/bootstrap.py`, `alembic/`) | schema | create or migrate | all | idempotent |

Hard behaviours: workers overlap (replicas, retries, `run_once`); a pass works for minutes on what it
read at its start while users, scrapes and other passes commit; a process may die between any two
transactions; the advisory lock belongs to a pooled connection and not to the job; a provider call
may fail, or partly fail; requests that collide on a row or a unique value decide on what they read
before they wrote; a page of IPOs is two statements and its labels are computed a third time; the
source renames, reorders and blanks its columns. `PROJECT.json` lists each hazard at its line with
the properties that watch it, or why none does.

## 2. Modules

| Module | Stands for |
|---|---|
| `NotificationRules` | the pure rules: match, window, quiet hours, platforms of a channel |
| `NotificationEngine` | passes, API edits, scrapes, crashes; the properties and the inductive invariant |
| `AlertLedger` | abstract: what a ledger of alerts promises |
| `JobLock` | advisory locks over the connection pool |
| `IpoRecords` | the pure part of a scrape: validity, confidence, diff and merge, structure change |
| `ScrapePipeline` | scrapes over one transaction each, and the retry |
| `IpoStore` | abstract: what scrapes promise about `ipos` and `ipo_snapshots` |
| `CellText`, `FieldMap`, `Extractor`, `Normalizer` | parsers of cells; columns to fields; payload to records; records to typed and validated IPOs |
| `Extraction` | one response through chain, normaliser and validator |
| `Fetch` | the GETs of a scrape: attempts, backoff, fall back from feed to page |
| `Providers` | one alert through a push provider: device by device, reply by reply |
| `Outbound` | `Fetch` and `Providers` side by side, as one worker runs them |
| `Accounts` | the requests that write users and devices, statement by statement, and the retirement of a token |
| `RateLimit` | the sliding windows of the rate limiter |
| `Api` | requests through `RateLimit` into `Accounts` |
| `IpoStatus` | the status in SQL and in Python, date shortcuts |
| `Listing` | `GET /ipos`: a client walks the pages while scrapes commit and the day ends |
| `MC...` | instances for TLC |
| `NotificationEngineProofs`, `AlertLedgerProofs`, `ScrapePipelineProofs`, `JobLockProofs`, `ListingProofs`, `OutboundProofs`, `ApiProofs`, `ExtractionProofs` | proofs |

### NotificationEngine

`rules`, `evaluated`, `active_users`, `ipos`, `devices` and `ledger` are the tables; `pc`, `work`,
`alert` and `verdict` are what a worker's session holds; `calls` and `last_call` are history. A step
is what happens between two points where another transaction may commit:

- `LoadRules`, `LoadClosing`, `NextRule`, `RuleDone`: `evaluate`, with its two early returns. The rules
  come with their users and these with all their devices (`User.devices` is `selectin`), which the
  session holds as they were then to the end of the pass (`held`). The
  second query of a rule that opted out of the close date returns today's rows, but an IPO already in
  the session keeps the attributes it was loaded with (`Requery`: identity map, `expire_on_commit`
  off). The rules of a pass are taken in any order; the code takes the oldest first.
- `ClaimWon`, `ClaimDuplicate`, `ClaimRejected`: the insert of `claim` and its commit. An insert
  locks its key until its commit, so the two are one step. The rejected one is the foreign key of a
  rule deleted since it was loaded: nothing catches the error and the pass ends.
- `ResolveTargets`, `Send`: the devices of the channel, and a provider call that delivers to some
  devices, refuses or raises. The call is not repeatable and takes no lock.
- `ReadRow`, `Settle`, `SettleStale`: `mark_*` reads the row and updates it by its key, with the
  invalid tokens, in one commit. A row deleted before the read is ignored; one deleted between the
  two makes the update match nothing and the pass ends. `invalidate_tokens` leaves a device alone that
  the session holds as switched off: setting the flag again changes nothing there, so no UPDATE of
  it is sent.
- `SelectEvaluated`, `MarkEvaluated`: `mark_evaluated`.
- `Crash`: the process dies, or a statement raises for want of a connection.
- `CreatePreference` ... `ScrapeIpo`: committed transactions of the rest. A rule deletion cascades to
  its deliveries. No route deletes users or IPOs, so neither does the model. A registration is one
  step here; `Accounts` splits it.

Time is counted in ticks of one scheduler period since the epoch. The business day is `ZoneShift`
ticks away from the epoch's, so windows straddle midnight and the bounds of the quiet hours, as they
do in `Asia/Kolkata`. Money, names and messages are reduced to what a rule compares.

### AlertLedger and the refinement

An alert is a (rule, IPO, window). In `AlertLedger` it is claimed once, called at most once by the
winner of its claim, settled once with what happened, or dropped; it is forgotten only with its rule.
`NotificationEngine` implements it with `status` = the ledger row, `FORGOTTEN` once the rule is
deleted, and `owed` = the alerts of workers between their claim and their call (or their decision not
to call).

### JobLock

A run asks for its lock on the connection its session holds and releases it on the connection it
holds then; PostgreSQL gives a lock again to the connection that has it, and ignores the release of a
lock the connection has not. `Checkout` takes the longest idle connection of the process's pool
(SQLAlchemy's pool is FIFO), or opens one; one that is older than `pool_recycle`, or does not answer
the ping, is replaced, and its locks go. A pass commits, and so gives its connection back, in the
middle of its work (`Commit`, `Resume`); a scrape commits after its release (`Close`). `FailBody` is a
statement that fails: the release in the `finally` clause fails too, on the aborted transaction.

### ScrapePipeline

`runs`, `payloads`, `ipos` and `snapshots` are the tables as others see them; `work[j]` is what the
session of job `j` has read and written so far. A scrape is one transaction, so its writes become
visible in `Commit` and vanish in `Abort` and `Crash`.

- `Start`, `SkipRetry`: a job fires, and gets the lock or not. A job turned away leaves no trace; for
  the retry that means it is used up.
- `FetchApi`, `FetchApiFails`, `FetchPage`, `FetchPageFails`: `_fetch_and_extract`. A response is
  what extraction makes of it: a confidence, a field mapping and records. (`Fetch` and `Extraction`
  have the inside of these steps.)
- `Compare`, `Gate`: `_detect_structure_change` against the last successful run, then the three
  refusals of `_process`.
- `Load`, `Flush`: the read and the write of `upsert_many`. They are two steps because another scrape
  may commit between them: the lock is released (`Unlock`) before the commit. A write waits for the
  row locks of the other (`Unlocked`), and an update sets only the fields that moved, on the row as it
  is then (`Merged`).
- `FlushFails`: the merged row breaks the unique key or a CHECK. The pipeline catches the error, but
  every later statement of the run fails on the dead transaction; the job sees an exception.
- `Complete`, `Unlock`, `Commit`: payload, run row, purge of payloads past their days, release,
  commit, and then the retry. Age is not counted: a purge may take the payloads
  up to any run older than all that are in progress.

The row has four fields for twenty-one: the two dates of the CHECK, the type, which has a value for
"not known", and the premium for all the others. `started` numbers runs in the order of `started_at`.
`overlapping` only observes. Left out: the checks that clear one implausible cell (they are in
`Normalizer`), `raw_data` and the time stamps. There is one worker process here; what several do to
the lock is `JobLock`'s subject.

### IpoStore and the refinement

In `IpoStore` a run counts once and as a whole. It is refused and changes nothing; or it is accepted
"in turn": every row of its batch is added, or merged into the row as it is, blanks aside, with one
snapshot of exactly what moved; or it is accepted "late". A late run began while another was still
committing: it may have compared with rows that are no longer there, so it may write fewer fields and
tell older old values, but of each field it writes it writes what its batch says. `ScrapePipeline`
implements it with the tables as they are and `Outcome`, read off the run rows: a run recorded as
failed or below the least confidence is refused, one that `overlapping` marks is late. A run that
raises or dies leaves no row, so the refinement also says that it leaves nothing else.

### CellText, FieldMap, Extractor, Normalizer, Extraction

Text is abstracted to what its readers tell apart. A cell is a sequence of lexemes (a run of digits,
a word, a symbol), so that "12-15" and "-12" differ and "30-Dec" has no year. A column label is
its words and a mark; `Parts` says which words of the instance contain which. A document is the lists
in its JSON and the tables, grids and cards of its HTML, with each row as the code sees it.

- `CellText`: the parsers of `utils/parsing.py`, with their null tokens, magnitudes, ranges and the
  inference of a missing year. The library's calendar (`Ordinal`, `MonthLength`) is external.
- `FieldMap`: `score_label`, `score_values` and the greedy assignment of `map_columns`, ties and order
  included. The code walks the sorted pairs and skips those whose field or column is used; `Greedy`
  takes the best pair that is still free, round after round, which takes the same ones.
- `Extractor`: where a dataset may be in a feed or a page, what makes a header, which dataset of a page
  is best. `JsonRaises` is the row that is no object.
- `Normalizer`: `normalize` with the fallbacks of each field, then `validate`
  with its repairs and refusals.
- `Extraction`: the chain as a state machine. The first usable strategy wins; otherwise the closest.

### Fetch, Providers, Outbound

A GET ends in a status, in a transport error (0), or in an exception that is neither (`Escapes`). The
actions are one attempt (`Get`), one wait (`Sleep`) and what `_fetch_and_extract` does with a body
(`Extract`, with whether it holds a record: one with none has no confidence). `Providers` is `send`
for one alert: the provider the service is configured with, the devices of the rule's channel, one
POST each, and `Report`, where the engine retires tokens and marks the delivery, but for the devices
that its session holds as switched off (`held_off`, any of them). `Replies` is what the push services
may answer; `Native` says whether the token is of the service it is sent to. One that is may still
be refused for another reason, as with a 400 for the payload.

### Accounts, RateLimit, Api

`db` holds the committed rows; `req[r]` is the session of a request: the rows it has loaded, the write
it plans and the write it has flushed. A session keeps the first values of a row (SQLAlchemy's
identity map) and an UPDATE names only the columns that differ from them (`Dirty`). A write waits for
the uncommitted writes it collides with, on a row or on a unique value (`Blocked`), and is then
refused if they made it illegal (`Clash`).

- `CheckPhone`, `ReadLogin`, `Authenticate`: the reads of `register`, `authenticate` and
  `get_current_user`, with their early answers; the last loads the caller's devices too.
- `SelectToken`, `SelectOwned`: the reads of a registration and a deregistration.
- `LoadPass`, `ReportGone`, `SelectGone`: a pass loads the users of its rules with their devices, sends
  to a device that is active by then and hears that it is gone, and retires it in the same session:
  a device of `LoadPass` keeps the values it was loaded with, another is read afresh.
- `Flush`, `Commit`, `Abort`: the one write, its commit, and a connection lost before it.
- `Deactivate`: an operator closes an account.

`current` is history, the retirements that no registration has cancelled. A registration cancels
those that are over, and (`Cancelled`) those of a session that read the device as off, whose UPDATE
will not name `is_active`.

`RateLimit` is one step per decision, because `dispatch` does not await before it hands a request on.
`admitted` is history; `hits` is what the middleware remembers. Ticks are finer than the seconds of
Retry-After.

### IpoStatus, Listing

`ipo_status_expression` is the CASE of the query, with SQL's NULLs; `derive_status` is the function
that labels. `Listing` has one action per point where the world may change: `Validate` (first reading
of the day), `Count` (second reading, first statement), `FetchPage` (second statement and labels),
`Follow`. An ORDER BY admits every order its keys leave open, so `FetchPage` picks one.

## 3. What the runs check

| Run | Shows |
|---|---|
| `engine_race` | `AtMostOneCall`, `LedgerTellsTruth`, `RowsBelongToLiveRules`, `OneLossPerCrash` and `ImplementsLedger`, with two workers, two edits of any kind, one crash, and a clock that ticks once, into the next window |
| `engine_live` | `EveryPassEnds`, `DueAlertClaimed`: rules of two users and of both kinds, an edit and a crash |
| `engine_optout` | **violated**: a rule with `only_on_close_date = false` is promised IPOs of other days; the pass queries today's only |
| `job_lock` | `ScrapesExclusive`, `ScrapeLockInUse`, `NeverWedged`: three jobs in one process, one in another, re-entrant acquisition, one fault of any kind |
| `scrape` | `ImplementsStore`, `LossReported`, `SnapshotsTellChanges`, `KnownStaysKnown` (dates and premium), `RetriesBounded`, `EveryScrapeEnds`: a scheduled scrape and the retry, three runs that may overlap, each of six responses, one failed statement or crash |
| `scrape_raises` | **violated**: `run` never raises. Dates of two scrapes merge into a row the CHECK refuses |
| `extraction` | `MappingStable`, `ReadsBack`, `IdentitySurvives`, `ValidFitsTable`: three issues across a turn of the year, as feed, table, grid and cards, with columns reversed, rotated, renamed or left out, and responses with something wrong: 106 in all. The cells that may be misread are named one by one in `Misread` |
| `api` | `OneAccountEach`, `SignUpTold`, `RefusedForCause`, `GoneTokensOff`, `WindowRespected`, `RetryHonoured`, `EveryRequestAnswered`: three requests, or two and a pass, in ten scenarios |
| `api_device` | **violated**: a registration answered 201 takes effect. One that races with the retirement of its token, or with another user's registration, leaves columns it did not find different as the other wrote them |
| `listing` | `LabelsAgree` always; `OnlyWanted`, `EachOnce`, `CountHonest` while neither data nor day change: forty queries over two states of the table and two days |
| `outbound` | `OnlyTransientRetried`, `SourceChosen`, `ReportOfTheYear`, `ResultTellsTruth`, `DeadRetired`, `EveryTargetTried`: every sequence of replies |
| `outbound_platform` | **violated**: a retired token is one its platform declared dead. A rule whose channel is not the provider's has its devices posted to the wrong service, which calls them dead |

*Where documentation and code part.* Besides the four violated runs, the models contain these. The
properties next to them except exactly these cases, by name, and the hazards at these lines say so.

| Code | What is said of it | What the models do |
|---|---|---|
| `utils/dates.py:73` | docs/notifications.md:12: the interval has elapsed since the last alert | windows are numbered from the epoch: two alerts may be a tick apart, on two sides of a bound; `AtMostOneCall` is about one window |
| `notification_worker.py:40` | :23, a skipped pass means that another is running | the lock may stay behind on another connection; `ScrapeLockInUse` is about scrapes, `NeverWedged` says it is freed |
| `scraper_worker.py:50` | :3-5, one scrape at a time | the lock is released before the commit; `ScrapesExclusive` is about the lock, `ScrapePipeline` has the overlap |
| `pipeline.py:139` | docs/scraper.md:184-187: a failed run keeps its payload | a run that falls back to a page that cannot be fetched keeps none |
| `pipeline.py:135` | docs/scraper.md:216-219: the page is tried when the feed is unreachable or unusable | an error of the feed that is no `FetchError` ends the run (`Escapes`); `SourceChosen` says nothing of such a run (its result is "unexpected") |
| `repositories/ipo.py:340` | docs/database.md:132-134 and the docstring of `_diff`: a blank cell never erases good data | a blank type or exchange is UNKNOWN, which is not None, and does; `KnownStaysKnown` is about the other fields (`Blankable`) |
| `field_map.py:354` | tests/unit/test_scraper_resilience.py:153: column order carries no meaning | GMP and GMP % tie for the premium, and the first in the page wins it: a page that prints GMP % first swaps the two. The test compares which fields are mapped, not to what; `ReadsBack` excepts it (`PremiumTied`) |
| `field_map.py:345` | tests/unit/test_scraper_resilience.py:159: a missing column degrades only its field | without the name column the feed's status column is taken for the name, and without the link column the cell with the badges for the link; `ReadsBack` excepts the raw status and the exchange then (`Misread`), and is silent about a page without its name column, which prints no name at all. The test drops GMP % |
| `repositories/device.py:91` | docs/notifications.md:264, `db/models/device.py:44-45`: a token the provider reports gone is deactivated | a device that was off when the pass began and is registered again during it stays on: its session holds `is_active` as False already; excepted in `Cancelled` and `held_off` |
| `providers.py:193` | :65-66, tokens reported as permanently invalid | FCM's 400 is also for a payload it refuses, and retires the token all the same; `DeadRetired` takes such a reply at the code's word |

*Bounds.* Engine: two workers are the smallest race, and every invariant is about one alert or two; the
crash lets one of them start again. With one rule, IPO, token and user each edit hits the row in
play, and two edits allow a rule to be deleted, or a device moved, and something else to happen after
it. `StartTime .. EndTime` is 25 and 26, the last tick of one two-tick window and the first of the
next, so that a pass of the one window may claim while another alerts in the next. Three-tick windows
(rules of `engine_live`, where an edit may change the interval) have no bound there. The workers are declared symmetric only in a run without liveness.

`JobLock`: the first process has three slots and two connections: a run that finds the pool empty
waits, as a checkout does in the code; the default pool is larger, which only makes waits rarer.

Scrapes: three runs because the longest stories need one to fill a row, one to change or lose
something and one to be compared with them (or two and a failure between them). One scheduled job and
the retry are enough for two scrapes to overlap (the retry starts while the next scheduled one
commits); a second scheduled job takes the run out of reach. The six responses take each branch of the
pipeline, among them a batch whose columns are recognised and whose records are not (`Broken`) and
dates that are in order alone and not merged (`Revised`).

Extraction: the columns of the real feed and page, each left out in turn, in the printed order and
reversed or rotated, with GMP % before GMP in some, and the whole page reversed without GMP % too; the day is 30 December, so that dates without a year lie on both sides.

Api: ten scenarios of three requests, each built so that two of them collide (one line in two
spellings, one address in two cases, one device in three hands) while the third meets an early answer
or the outcome of the others. In four of them one of the three is a pass, for the owner of the device, for
another user or for both, so that its session holds the device, as on or as off, or does not. A window of one second in half-second ticks with a limit of one is the
smallest in which Retry-After rounds; `PruneAt = 2` prunes with two keys; `MaxTime = 4` is two windows.
One lost connection, one account that may be closed.

Listing: four rows before the scrape and five after it, with every stage, NULLs in each date, equal
sort keys (among them `updated_at`, which the scrape moves) and pages of one, two and three; days 17 and 18 (a Thursday and a Friday), one scrape.

Outbound: two retries, three statuses, three confidences, months on both sides of April, three
devices. Every bound (`MaxEdits`, `MaxCrashes`, `MaxDepth`, `MaxFaults`, `MaxRuns`, `MaxTime`,
`LastDay`, `MaxScrapes`) is a guard of the actions it caps. Only `JobLock` never stops, and checks
deadlock; the others stop at their bounds, at the end of a walk or when every request is answered.

*Fairness.* Workers are weakly fair: the scheduler fires for ever and every await returns (HTTP calls
and pool checkouts have timeouts). Users, operators, scrapes, faults and the clock owe nothing. In
`JobLock` connections age (`pool_recycle`), and a run in its body infinitely often comes to its end
(`SF` on `Unlock \/ FailBody`): a pass has finitely many rules and IPOs, so finitely many commits.
Scrape steps are weakly fair for the same reason; the scheduler, which need not fire again, and the
pool owe nothing. In `Api` a request that was let in is weakly fair: the event loop runs it, and the
database wakes a write when the lock it waits for is free. Clients and the clock owe nothing.

`LossReported` and `SnapshotsTellChanges` except runs that started while another had not committed
(`overlapping`): such a run may compare with an older mapping, or take a snapshot of values the other
has just replaced. What such a run may still do is `AcceptLate` of `IpoStore`.

`DueAlertClaimed` speaks of an alert that *stays* due: the rule enabled, its user active, the hour
inside the window, the IPO matching. An alert whose window passes before a worker comes is not sent,
in the code as in the model. `OneLossPerCrash` is the loss `docs/notifications.md` accepts.
`ResultTellsTruth`, `DeadRetired` and `EveryTargetTried` speak of a provider that returns; one that
raises after some devices accepted is recorded as failed, and the dead tokens it had found are not
retired, in the code as in the model.

## 4. What is proved

Each theorem holds for every value of the constants under the named assumptions of its module, from
nothing but the specification.

*Engine* (`TimeAssumption`, `EngineAssumption`: each rule has an owner, intervals are at least one,
`Null` is no user and no alert).

- `EngineInvariant`: `Spec => []EngineInv`, `EngineInv == TypeOK /\ ClaimInv /\ RowInv`. None of the
  safety properties is inductive alone: that a settled row has had one call needs to know what the
  worker about to settle it has done, and that needs to know that nobody else holds its alert.
  `ClaimInv` says it: a worker between its claim and its settlement holds an alert no other holds,
  whose row is PENDING (or gone with its rule), and whose call has been made exactly if the worker is
  past it. `RowInv` says what a row tells of its call.
- `EngineTypes`, `NeverCalledTwice`, `LedgerIsTruthful`, `NoOrphanRows`: the properties of
  `engine_race` from it.
- `CrashesLoseOneEach` (`OneLossPerCrash`): `Lost` is finite and no larger than the count of crashes
  (`LossBound`). Every step but a crash has `Lost' \subseteq Lost`, and a crash adds at most its
  worker's alert. That a worker may settle an alert whose row it did not find, and lose nothing, is
  `GoneInv`: the row is gone with its rule, and a deleted rule does not come back.
- `EngineImplementsLedger`: `Spec => ImplementsLedger`. Each worker step and each edit is a step of
  `AlertLedger` or a stutter.
- `LedgerInvariant`: the abstract ledger calls an alert at most once.

`StepInv` splits by actor (workers, environment) and by part of the invariant; there is one step per
action in each lemma. `SessionParts` and `ClaimFrame` carry the untouched workers through a step.

*Scrapes* (`PipelineAssumption`: the retry is a job of its own, the mode is one of three;
`ResponseAssumption`: responses have the shape of an extraction, of which a field mapping is always
part (`ExtractionResult.field_mapping` is a dict from the start), and `Null` is no row).

- `ScrapeInvariant`: `Spec => []ScrapeInv`. That a flush writes the merge of its batch with the
  committed rows is only so if those rows are still as they were read, and that needs the lock: a
  job between its start and its release holds it (`RunInv`), and unless it overlaps it is alone
  (`PairInv`); rows it has written no other job writes (`Unlocked`), so they stay as they are until
  its commit (`MergeInv`).
- `ScrapesImplementStore`: `Spec => ImplementsStore`. `Commit` is the only step that moves the
  tables; it refuses, accepts in turn or accepts late, and every other step stutters.
- `KnownValuesStay`, `ScrapeTypes`, `RetriedOnce`: from the invariant; the last needs that a retry that
  is due was asked for by a failure no retry has answered yet.
- `SnapshotsTell` (`SnapshotsTellChanges`): only its own commit gives a run its row (`OwnCommit`), a
  run in turn commits over the rows it compared with, and `MovedFields` says that what an update
  moves is what its snapshot tells.
- `LossIsReported` (`LossReported`) has an invariant of its own, `LossInv`. The mapping is
  compared in `Compare` with the last successful run of the table as it is then; the property
  speaks of the last successful run *before* this one in the table as it is ever after. The two are the
  same because the holder of the lock is the newest run (`CompareInv`: `work[j].run = started`), so
  nothing later is committed when it compares (`ComparesWithLast`), and because a run that finds
  nothing uncommitted when it starts is never overtaken from below: of two runs in progress the
  later overlaps (`OrderInv`), and a row of a later run found while an earlier one is
  still uncommitted belongs to one that overlapped (last conjunct of `CompareInv`). `BeforeKeeps`
  then carries the comparison through every later commit. `LatestIs`, that a set of runs has a
  latest, is by well-foundedness.

*Job locks* (`JobLockAssumption`: each run has a process and a job, each connection the process that
opened it, `Null` is no connection).

- `LockInvariant`: `Spec => []JobLockInv`. That two scrapes never overlap needs to know whose session
  the lock belongs to: a connection is held by one run, or idle in one place of its own process's
  pool (`ConnInv`, `PoolInv`); a scrape commits only as its session ends, so it keeps the connection
  it locked on, and the lock names it until that connection dies (`LockInv`); and while nothing has
  failed the lock is held once, by a scrape that is running (`UseInv`).
- `LockTypes`, `OneScrapeAtATime` (`ScrapesExclusive`), `LockIsUsed` (`ScrapeLockInUse`) from it. A
  notification pass commits between its lock and its release, and has no such invariant (see the table
  of section 3).

*Accounts* (`AccountsAssumption`: the accounts at the start are stored in normal form and differ in phone
and e-mail; accounts, requests and tokens are different things, and `None` is none of them).

- `AccountsInvariant`: `Spec => []AccountsInv`. The unique constraints would make `OneAccountEach`
  obvious if a write were judged against committed rows at its commit; it is judged when it is
  flushed, and commits later. So the invariant says what a write in flight is worth: what a request
  has read, plans and has written fits its call (`CallInv`, `SessionInv`, `WriteInv`), two writes in
  flight touch neither the same row nor the same unique value, because the second waited for the first
  (`Apart`), and no write in flight clashes with a committed row (`WriteInv`). No request deletes a
  row, so one that was loaded is still there.
- `OneAccount` (`OneAccountEach`), `AnswerTrue` (`SignUpTold`), `CauseCommitted` (`RefusedForCause`) and
  `RetiredOff` (`GoneTokensOff`). The last needs `GoneInv`: `is_active` is left out of the UPDATE when
  the session read it as off, at the start of the pass if it holds the device. As long as nobody has
  switched it on since, leaving it out does no harm; a registration does switch it on, and then
  the retirement is `Cancelled`, which is what the code does and not what the docs say.

*Rate limiter* (`RateLimitAssumption`: limit, window and threshold are at least one). `LimitInvariant`:
the queue of a key is the recent end of all the times it was let through, and what is missing, dropped
by the loop or pruned with the key, has expired. `LimitHolds` (`WindowRespected`) follows: when
the queue has room, the request `Limit` places before the new one is among those that expired.
`WaitIsEnough` (`RetryHonoured`): a refused client was told a time at which the oldest hit its refusal
counted has expired (`RetryInv`), rounding included, and if nobody shares its key the queue has only
shrunk since.

*Outbound* (`FetchAssumption`: statuses and confidences are numbers, months are months;
`FleetAssumption`: devices are records with a token of their own). `OutboundInvariant`: the two
machines share nothing, so each step keeps the invariant of the one and leaves the other alone. A
fetch remembers how often it tried and why it may try again; a dispatch has posted to the first
devices of its list and remembers of the replies exactly who received and who is dead. From it
`RetriesTransient`, `BestSource`, `RightReport`, `SentIsReceived`, `GoneRetired` and `AllTried`. That the
list of targets has every device of the channel once (`_targets_for` goes through the devices in
turn) is an induction over the list. The library's induction takes an operator, so `SetInduction` does
it for a set: the naturals outside it would have a least one.

`MeetsEngine` joins this to the engine, whose `Send` and `Settle` take a call for one step with any
outcome of a certain form. It is an action property, `[][EngineSend]_dispatchVars`: until its last step a
call reports nothing and retires nothing; then it is FAILED or SENT, the tokens retired are of devices
it was handed, and not of all of them when it is SENT. The last part is what needs an invariant
(`CallInv`): a token is reported gone only once it was posted to, each is posted to once, and a reply of 200
reports none, so an accepted token is never among those reported. What `NotificationEngine` and its
proofs say with an arbitrary provider they therefore say with this one.

*Listing* (`ListingAssumption`: what the table's types and constraints allow, numbers or NULL, ids
that differ, price bands the right way round; and what the schema of the query lets in: known labels and
sort fields, pairs of bounds, a page size of at least one).

- `StatusAgrees`: the CASE and the function are one function. `LabelsAlwaysAgree` (`LabelsAgree`): with
  one reading of the day for both, every item ever shown bears the label that was asked for.
- `WalkInvariant`: `Spec => [](ListingInv /\ WalkInv)`. As long as nothing disturbs the walk, what the
  client has is the beginning of one list: the `i`-th item it was shown is the matching row with
  `i - 1` matching rows before it in the ORDER BY (`Numbered`), a page begins at `offset`, and the
  count was taken of the same rows. It rests on the ORDER BY being total, which the id at its end
  makes it, so that ranks are different and a page of ranks `offset` to `offset + page_size` is full.
- `WantedOnly` (`OnlyWanted`): each clause of the query means what its filter says. `OnceEach`
  (`EachOnce`): a finished walk has all ranks, so all rows, once and in order. `CountIsHonest`
  (`CountHonest`): the arithmetic of `PaginationMeta.build`.

*Extraction* (`TodayAssumption`: the day is a positive day number; `NullAssumption`: `None` is no number; `SourceAssumption`: a payload has the
shape of one, lists, tables, grids and cards of any length with any labels and any cells). The proofs
type words by `Words`, which is `STRING` and the one word the code itself makes, the text of an unknown
envelope: `tlapm` does not know that a literal is a `STRING`.

- `AlwaysMappingStable` (`MappingStable`), from `Results`: every attempt, and the result, is made from
  the columns and rows it names, and its matches are `Assigned`, which says that what is taken shares no
  field and no column and that a pair no longer free lost its place to one that scored no less. A
  round of `Greedy` takes the best free pair, if there is one (`RoundTakesBest`: candidates are ranked by
  score and place, `Better` is a total order of them), and so keeps `Assigned` (`RoundAssigns`); it
  also uses up a field, so that after as many rounds as fields no pair is free (`GreedyStable`). That
  the columns are a sequence, and the rows sequences of cells, is followed through every way in:
  envelopes, headers and their padding, grids, cards, dicts (`FlattenType` ... `DatasetsType`).
- `AlwaysValidFits` (`ValidFitsTable`), from `Fitting`, which adds that every IPO on its way to validation has
  numbers, or nothing, where validation compares. This is the typing of the parsers: whatever a cell
  says, the result of each is `Number` (`DecimalType`, `BandType`, `DateType`). For a date without a
  year it needs that `YearOf` chooses something, that is that each day is of some year
  (`NewYear`, `YearIs`), and that of three years one is the nearest. `RepairedFits` is then about one
  record: what `validate` clears is what would break a CHECK. Of equal ids validation keeps the
  first (`ValidateFits`).
- `OrderMeansNothing`: the promise of `tests/unit/test_scraper_resilience.py:153` for any labels and
  cells, with the condition it needs. If no match is tied with another column for its field
  (`NoMatchTied`), the same labels and cells in any other order are matched to the same fields with the
  same scores, and each row becomes the same fields. Without a tie the stable assignment is unique:
  were the two different, take the best match that only one of them has (`BestExists`); the
  other has given its column or its field to a match that scores no less (`StableUnique`), and
  that one would be better still, or tied. With a tie the first column wins, and the hazard at
  `field_map.py:354` stays.
- `DatesReadBack` and `YearlessReadBack`: `Dated` and `Yearless` are the ways to write a day that the
  docstring and comments of `parse_date` give, with the month as a number or by any of its names, with
  any mark its patterns let stand there, the year in full or by its last two figures, or left out (not a mark
  in one place and a space in the other). Read back, each is that day. The patterns overlap (three
  numbers may be ISO or day-first, a month may have its day before or after it), so there is one lemma for
  each form (`FormIso` ... `FormMonth`): the patterns tried before its own find nothing. A date without its year
  is the day of that name nearest to the day of the scrape (`NearestYear`), whichever side of the new
  year; that needs that a day is of one year (`YearOfDay`) and that a year later is at least 365 days
  later (`YearsApart`), leap days counted.
- `BandsReadBack`: whatever its text, a price band is never upside down or half known, and a band
  written either way round, with any of its separators, is that band: the hyphen is no sign.

Only model-checked:

- liveness (`EveryPassEnds`, `DueAlertClaimed`, `NeverWedged`, `EveryScrapeEnds`, `EveryRequestAnswered`), which
  is beyond the prover;
- `ReadsBack` and `IdentitySurvives`. They compare what is stored with what the site meant, and that is
  written down source by source (`truth`, `shown`); for every source they would need a definition of
  how the site prints a value, which the repository does not have. What can be said of every source
  is proved in parts: `OrderMeansNothing` for the columns, `DatesReadBack`, `YearlessReadBack` and
  `BandsReadBack` for the cells.

## 5. Not modelled

- Reads of one statement: one IPO, its history, the filter options, rules and devices of a user, the
  delivery history. They change nothing and relate nothing.
- Hashing, JWT, lxml, JSON, httpx, the FCM and Web Push protocols: library code, external.
- Message text, logging, security headers, request ids, configuration: formatting and wiring.
- Cron times, misfires and shutdown of the scheduler: APScheduler's.
- Migrations and bootstrap: one-shot DDL.

## 6. Plan

1. Done: engine, ledger, locks, scrapes, extraction, fetch and push, accounts and devices, rate
   limits, listing; the refinements to `AlertLedger` and `IpoStore`.
2. Done: every safety property of the passing runs as a theorem, but for the two named in section 4.
3. Done: what extraction promises of every source, column order and the reading of dates and price
   bands, and that a call to a provider is what the engine assumes of one.
4. Left: the same for amounts, ratings and premiums, whose forms the tests list but no docstring does.
