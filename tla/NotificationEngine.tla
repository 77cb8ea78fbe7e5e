------------------------ MODULE NotificationEngine ------------------------
(***************************************************************************)
(* The notification engine: workers evaluate every enabled rule against    *)
(* the IPOs closing today and dispatch alerts, one committed transaction   *)
(* at a time, while the API edits rules and devices and the scraper edits  *)
(* IPOs under them.  PostgreSQL runs at READ COMMITTED, so a worker keeps  *)
(* what it read at the start of its pass (expire_on_commit is off) and     *)
(* the database moves on.                                                  *)
(*                                                                         *)
(* Any number of workers may run passes at once: the advisory lock of the  *)
(* job entrypoints is an optimisation and is modelled in JobLock.  Each    *)
(* action is what happens between two points where another transaction     *)
(* may commit; a row a transaction wrote stays locked until its commit, so *)
(* a write and its commit are one action.                                  *)
(***************************************************************************)
EXTENDS NotificationRules, FiniteSets

CONSTANTS
  Workers,        \* processes that can run an evaluation pass
  Users, Rules, Ipos, Tokens,
  Kinds,          \* device types in use
  Owner,          \* Owner[r]: the user who owns rule r
  RuleForms,      \* the criteria a user may store in a rule
  IpoForms,       \* the data a scrape may store for an IPO
  StartTime, EndTime,     \* bound on the clock
  MaxEdits,       \* bound on API, operator and scraper writes
  MaxCrashes      \* bound on passes that die

Windows == {period_index(t, f.interval_minutes) : t \in StartTime .. EndTime, f \in RuleForms}
Alerts  == [rule : Rules, ipo : Ipos, period : Windows]

ASSUME EngineAssumption ==
  /\ Owner \in [Rules -> Users]
  /\ StartTime \in Nat /\ EndTime \in Nat /\ StartTime <= EndTime
  /\ \A f \in RuleForms : f.interval_minutes \in Nat \ {0} /\ f.channel \in Channels
  /\ Kinds \subseteq DeviceTypes
  /\ MaxEdits \in Nat /\ MaxCrashes \in Nat
  /\ Null \notin Users
  /\ Null \notin Alerts

VARIABLES
  \* the database
  clock,          \* the current tick
  rules,          \* notification_preferences
  evaluated,      \* rules whose last_evaluated_at is set
  active_users,   \* users with is_active
  ipos,           \* ipos
  devices,        \* devices, by push token; owner Null: no row
  ledger,         \* notification_deliveries: status by alert, NONE: no row
  \* the workers
  pc,             \* where each worker's pass stands
  work,           \* what its session holds in memory
  alert,          \* the alert whose claim it won and has not settled
  verdict,        \* the outcome it is about to record
  \* history and bounds
  calls,          \* calls[a]: provider calls made for alert a
  edits, crashes

database  == <<rules, evaluated, active_users, ipos, devices, ledger>>
session   == <<pc, work, alert, verdict>>
history   == <<calls>>
bounds    == <<edits, crashes>>
vars      == <<clock, database, session, history, bounds>>

Phases    == {"unborn", "live", "deleted"}
Verdicts  == {"SENT", "FAILED", "SKIPPED"}
Statuses  == {"NONE", "PENDING"} \cup Verdicts
Stages    == {"idle", "load_ipos", "next_rule", "dispatch", "targets", "send",
              "read_row", "settle", "mark"}

Live      == {r \in Rules : rules[r].phase = "live"}
Snapshots == [id : Rules, form : RuleForms]
IpoRows   == [id : Ipos, row : IpoForms]

\* A token nobody registered.
NoDevice == [owner |-> Null, kind |-> "ANDROID", is_active |-> FALSE]

\* What a session holds between passes: nothing.
NoWork == [now |-> StartTime, batch |-> {}, ids |-> {}, closing |-> {}, rule |-> Null,
           candidates |-> {}, targets |-> {}, invalid |-> {}, found |-> FALSE,
           held |-> [t \in Tokens |-> Null]]

(***************************************************************************)
(* A service in use, before the worker's first pass: any rules, devices    *)
(* and IPOs, no delivery yet.                                              *)
(***************************************************************************)
Init ==
  /\ clock = StartTime
  /\ rules \in [Rules -> [phase : {"unborn", "live"}, is_enabled : {TRUE}, form : RuleForms]]
  /\ evaluated = {}
  /\ active_users = Users
  /\ ipos \in [Ipos -> IpoForms]
  /\ devices \in [Tokens -> {NoDevice} \cup [owner : Users, kind : Kinds, is_active : {TRUE}]]
  /\ ledger = [a \in Alerts |-> "NONE"]
  /\ pc = [w \in Workers |-> "idle"]
  /\ work = [w \in Workers |-> NoWork]
  /\ alert = [w \in Workers |-> Null]
  /\ verdict = [w \in Workers |-> Null]
  /\ calls = [a \in Alerts |-> 0]
  /\ edits = 0
  /\ crashes = 0

----------------------------------------------------------------------------
(* The pass.                                                               *)

Goto(w, stage) == pc' = [pc EXCEPT ![w] = stage]

\* The pass is over; an open transaction is rolled back with its session.
EndPass(w) ==
  /\ Goto(w, "idle")
  /\ work' = [work EXCEPT ![w] = NoWork]
  /\ alert' = [alert EXCEPT ![w] = Null]
  /\ verdict' = [verdict EXCEPT ![w] = Null]

ActiveRules ==
  {[id |-> r, form |-> rules[r].form] :
      r \in {r \in Live : rules[r].is_enabled /\ Owner[r] \in active_users}}

\* The devices of the rules' users, active or not, come with them and stay in
\* the session as they are now.
DevicesOf(batch) ==
  [t \in Tokens |->
     IF devices[t].owner \in {Owner[s.id] : s \in batch}
     THEN [kind |-> devices[t].kind, is_active |-> devices[t].is_active] ELSE Null]

\* A pass outside the quiet-hours window, or with no rule to evaluate, does
\* nothing.
LoadRules(w) ==
  /\ pc[w] = "idle"
  /\ within_notification_window(clock)
  /\ ActiveRules # {}
  /\ work' = [work EXCEPT ![w].now = clock, ![w].batch = ActiveRules,
                          ![w].ids = {s.id : s \in ActiveRules},
                          ![w].held = DevicesOf(ActiveRules)]
  /\ Goto(w, "load_ipos")
  /\ UNCHANGED <<clock, database, alert, verdict, history, bounds>>

list_closing_on(day) ==
  {[id |-> i, row |-> ipos[i]] : i \in {i \in Ipos : ipos[i].close_date = day}}

LoadClosing(w) ==
  /\ pc[w] = "load_ipos"
  /\ work' = [work EXCEPT ![w].closing = list_closing_on(DayOf(work[w].now))]
  /\ Goto(w, "next_rule")
  /\ UNCHANGED <<clock, database, alert, verdict, history, bounds>>

\* The second query returns the rows of today's database, but an IPO the
\* session already holds keeps the attributes it was first loaded with.
Requery(w) ==
  LET held  == work[w].closing
      fresh == list_closing_on(DayOf(work[w].now))
      ids   == {c.id : c \in held}
  IN  {c \in fresh : c.id \notin ids} \cup {c \in held : \E f \in fresh : f.id = c.id}

\* Mutant: the rule taken up stays in the list.
NextRuleKeepsRule(w) ==
  /\ pc[w] = "next_rule"
  /\ \E s \in work[w].batch :
       work' = [work EXCEPT
         ![w].rule = s,
         ![w].candidates =
            {c \in work[w].closing : rule_matches_ipo(s.form, c.row, DayOf(work[w].now))}]
  /\ Goto(w, "dispatch")
  /\ UNCHANGED <<clock, database, alert, verdict, history, bounds>>

\* The next rule of the pass, with the IPOs of the loop that match it.
NextRule(w) ==
  /\ pc[w] = "next_rule"
  /\ \E s \in work[w].batch :
       LET loop == IF s.form.only_on_close_date THEN work[w].closing ELSE Requery(w)
       IN  work' = [work EXCEPT
             ![w].batch = @ \ {s},
             ![w].rule = s,
             ![w].candidates =
                {c \in loop : rule_matches_ipo(s.form, c.row, DayOf(work[w].now))}]
  /\ Goto(w, "dispatch")
  /\ UNCHANGED <<clock, database, alert, verdict, history, bounds>>

RuleDone(w) ==
  /\ pc[w] = "dispatch"
  /\ work[w].candidates = {}
  /\ Goto(w, "next_rule")
  /\ UNCHANGED <<clock, database, work, alert, verdict, history, bounds>>

\* The alert the pass of w is about when it dispatches candidate c.
AlertFor(w, c) ==
  [rule |-> work[w].rule.id, ipo |-> c.id,
   period |-> period_index(work[w].now, work[w].rule.form.interval_minutes)]

\* Mutant: the delivery has no foreign key to its rule.
ClaimWithoutForeignKey(w) ==
  /\ pc[w] = "dispatch"
  /\ \E c \in work[w].candidates :
       /\ ledger[AlertFor(w, c)] = "NONE"
       /\ ledger' = [ledger EXCEPT ![AlertFor(w, c)] = "PENDING"]
       /\ alert' = [alert EXCEPT ![w] = AlertFor(w, c)]
       /\ work' = [work EXCEPT ![w].candidates = @ \ {c}]
  /\ Goto(w, "targets")
  /\ UNCHANGED <<clock, rules, evaluated, active_users, ipos, devices, verdict, history, bounds>>

\* Mutant: an alert that failed is claimed again.
ClaimFailedAgain(w) ==
  /\ pc[w] = "dispatch"
  /\ \E c \in work[w].candidates :
       /\ work[w].rule.id \in Live
       /\ ledger[AlertFor(w, c)] \in {"NONE", "FAILED"}
       /\ ledger' = [ledger EXCEPT ![AlertFor(w, c)] = "PENDING"]
       /\ alert' = [alert EXCEPT ![w] = AlertFor(w, c)]
       /\ work' = [work EXCEPT ![w].candidates = @ \ {c}]
  /\ Goto(w, "targets")
  /\ UNCHANGED <<clock, rules, evaluated, active_users, ipos, devices, verdict, history, bounds>>

\* INSERT ... ON CONFLICT DO NOTHING, committed before anything is sent.
ClaimWon(w) ==
  /\ pc[w] = "dispatch"
  /\ \E c \in work[w].candidates :
       /\ work[w].rule.id \in Live
       /\ ledger[AlertFor(w, c)] = "NONE"
       /\ ledger' = [ledger EXCEPT ![AlertFor(w, c)] = "PENDING"]
       /\ alert' = [alert EXCEPT ![w] = AlertFor(w, c)]
       /\ work' = [work EXCEPT ![w].candidates = @ \ {c}]
  /\ Goto(w, "targets")
  /\ UNCHANGED <<clock, rules, evaluated, active_users, ipos, devices, verdict, history, bounds>>

\* Mutant: a duplicate ends the pass instead of the iteration.
DuplicateEndsPass(w) ==
  /\ pc[w] = "dispatch"
  /\ \E c \in work[w].candidates : ledger[AlertFor(w, c)] # "NONE"
  /\ EndPass(w)
  /\ UNCHANGED <<clock, database, history, bounds>>

\* Already notified for this rule, IPO and window.
ClaimDuplicate(w) ==
  /\ pc[w] = "dispatch"
  /\ \E c \in work[w].candidates :
       /\ ledger[AlertFor(w, c)] # "NONE"
       /\ work' = [work EXCEPT ![w].candidates = @ \ {c}]
  /\ UNCHANGED <<clock, database, pc, alert, verdict, history, bounds>>

\* The rule was deleted since the pass loaded it: the insert breaks its
\* foreign key, nothing catches the error and the whole pass ends.
ClaimRejected(w) ==
  /\ pc[w] = "dispatch"
  /\ work[w].candidates # {}
  /\ work[w].rule.id \notin Live
  /\ EndPass(w)
  /\ UNCHANGED <<clock, database, history, bounds>>

\* The query chooses by the rows of now; the type of a device the session
\* holds is the one it was loaded with.
Targets(w) ==
  {t \in Tokens : /\ devices[t].owner = Owner[work[w].rule.id]
                  /\ devices[t].is_active
                  /\ LET row == IF work[w].held[t] = Null THEN devices[t] ELSE work[w].held[t]
                     IN  row.kind \in Platforms(work[w].rule.form.channel)}

\* Mutant: an alert with nobody to call is recorded as a failed call.
NoTargetFails(w) ==
  LET found == Targets(w)
  IN  /\ pc[w] = "targets"
      /\ verdict' = [verdict EXCEPT ![w] = IF found = {} THEN "FAILED" ELSE @]
      /\ work' = [work EXCEPT ![w].targets = found]
      /\ Goto(w, IF found = {} THEN "read_row" ELSE "send")
      /\ UNCHANGED <<clock, database, alert, history, bounds>>

ResolveTargets(w) ==
  LET found == Targets(w)
  IN  /\ pc[w] = "targets"
      /\ \/ /\ found = {}
            /\ verdict' = [verdict EXCEPT ![w] = "SKIPPED"]
            /\ Goto(w, "read_row")
            /\ UNCHANGED work
         \/ /\ found # {}
            /\ work' = [work EXCEPT ![w].targets = found]
            /\ Goto(w, "send")
            /\ UNCHANGED verdict
      /\ UNCHANGED <<clock, database, alert, history, bounds>>

\* Mutant: an exception of the provider is not caught.
SendUncaught(w) ==
  /\ pc[w] = "send"
  /\ calls' = [calls EXCEPT ![alert[w]] = @ + 1]
  /\ EndPass(w)
  /\ UNCHANGED <<clock, database, bounds>>

\* A call succeeds when at least one device accepts the message; the devices
\* in bad are the ones the provider reports gone.  A call that raises fails and
\* reports none.
Send(w) ==
  /\ pc[w] = "send"
  /\ \E bad \in SUBSET work[w].targets, outcome \in {"SENT", "FAILED"} :
       /\ outcome = "SENT" => bad # work[w].targets
       /\ verdict' = [verdict EXCEPT ![w] = outcome]
       /\ work' = [work EXCEPT ![w].targets = {}, ![w].invalid = bad]
  /\ calls' = [calls EXCEPT ![alert[w]] = @ + 1]
  /\ Goto(w, "read_row")
  /\ UNCHANGED <<clock, database, alert, bounds>>

\* session.get of the delivery, in the transaction that will update it.
ReadRow(w) ==
  /\ pc[w] = "read_row"
  /\ work' = [work EXCEPT ![w].found = ledger[alert[w]] # "NONE"]
  /\ Goto(w, "settle")
  /\ UNCHANGED <<clock, database, alert, verdict, history, bounds>>

\* A flag the session holds as off already is left out of the UPDATE.
invalidate_tokens(w) ==
  LET held == work[w].held
  IN  devices' = [t \in Tokens |->
        IF t \in work[w].invalid /\ (held[t] # Null => held[t].is_active)
        THEN [devices[t] EXCEPT !.is_active = FALSE] ELSE devices[t]]

\* What the session holds of its devices once it has retired those.
HeldAfter(w) ==
  LET held == work[w].held
  IN  [t \in Tokens |-> IF t \in work[w].invalid /\ held[t] # Null
                        THEN [held[t] EXCEPT !.is_active = FALSE] ELSE held[t]]

\* Mutant: the verdict is dropped before it is written.
SettleAfterReset(w) ==
  /\ pc[w] = "settle"
  /\ work[w].found /\ ledger[alert[w]] # "NONE"
  /\ verdict' = [verdict EXCEPT ![w] = Null]
  /\ ledger' = [ledger EXCEPT ![alert[w]] = verdict'[w]]
  /\ alert' = [alert EXCEPT ![w] = Null]
  /\ Goto(w, "dispatch")
  /\ UNCHANGED <<clock, rules, evaluated, active_users, ipos, devices, work, history, bounds>>

\* Mutant: a failed delivery is freed to be tried again in its window.
SettleFreesFailed(w) ==
  /\ pc[w] = "settle"
  /\ work[w].found => ledger[alert[w]] # "NONE"
  /\ ledger' = [ledger EXCEPT ![alert[w]] = IF verdict[w] = "FAILED" THEN "NONE" ELSE verdict[w]]
  /\ alert' = [alert EXCEPT ![w] = Null]
  /\ verdict' = [verdict EXCEPT ![w] = Null]
  /\ work' = [work EXCEPT ![w].invalid = {}, ![w].found = FALSE]
  /\ Goto(w, "dispatch")
  /\ UNCHANGED <<clock, rules, evaluated, active_users, ipos, devices, history, bounds>>

\* mark_sent, mark_failed or mark_skipped, with the tokens to retire, in one
\* commit.  A row that had gone before it was read is left alone.
Settle(w) ==
  /\ pc[w] = "settle"
  /\ work[w].found => ledger[alert[w]] # "NONE"
  /\ ledger' = IF work[w].found THEN [ledger EXCEPT ![alert[w]] = verdict[w]] ELSE ledger
  /\ invalidate_tokens(w)
  /\ alert' = [alert EXCEPT ![w] = Null]
  /\ verdict' = [verdict EXCEPT ![w] = Null]
  /\ work' = [work EXCEPT ![w].invalid = {}, ![w].found = FALSE, ![w].held = HeldAfter(w)]
  /\ Goto(w, "dispatch")
  /\ UNCHANGED <<clock, rules, evaluated, active_users, ipos, history, bounds>>

\* The row went between the read and the update, which then matches no row:
\* the flush raises and the whole pass ends.
SettleStale(w) ==
  /\ pc[w] = "settle"
  /\ work[w].found
  /\ ledger[alert[w]] = "NONE"
  /\ EndPass(w)
  /\ UNCHANGED <<clock, database, history, bounds>>

\* mark_evaluated selects the rules that still exist ...
SelectEvaluated(w) ==
  /\ pc[w] = "next_rule"
  /\ work[w].batch = {}
  /\ work' = [work EXCEPT ![w].ids = @ \cap Live]
  /\ Goto(w, "mark")
  /\ UNCHANGED <<clock, database, alert, verdict, history, bounds>>

\* ... and stamps those of them that still exist when it writes.
MarkEvaluated(w) ==
  /\ pc[w] = "mark"
  /\ evaluated' = evaluated \cup (work[w].ids \cap Live)
  /\ EndPass(w)
  /\ UNCHANGED <<clock, rules, active_users, ipos, devices, ledger, history, bounds>>

\* The process dies, or a statement raises for want of a connection.
Crash(w) ==
  /\ pc[w] # "idle"
  /\ crashes < MaxCrashes
  /\ crashes' = crashes + 1
  /\ EndPass(w)
  /\ UNCHANGED <<clock, database, history, edits>>

WorkerStep(w) ==
  \/ LoadRules(w) \/ LoadClosing(w) \/ NextRule(w) \/ RuleDone(w)
  \/ ClaimWon(w) \/ ClaimDuplicate(w) \/ ClaimRejected(w)
  \/ ResolveTargets(w) \/ Send(w) \/ ReadRow(w) \/ Settle(w) \/ SettleStale(w)
  \/ SelectEvaluated(w) \/ MarkEvaluated(w)

----------------------------------------------------------------------------
(* The rest of the system, one committed transaction at a time.            *)

\* A write that leaves the database as it was is no step.
Edit ==
  /\ edits < MaxEdits
  /\ database' # database
  /\ edits' = edits + 1
  /\ UNCHANGED <<clock, session, history, crashes>>

CreatePreference(r, f, on) ==
  /\ rules[r].phase = "unborn"
  /\ rules' = [rules EXCEPT ![r] = [phase |-> "live", is_enabled |-> on, form |-> f]]
  /\ UNCHANGED <<evaluated, active_users, ipos, devices, ledger>>
  /\ Edit

UpdatePreference(r, f, on) ==
  /\ r \in Live
  /\ rules' = [rules EXCEPT ![r].is_enabled = on, ![r].form = f]
  /\ UNCHANGED <<evaluated, active_users, ipos, devices, ledger>>
  /\ Edit

\* The deliveries of the rule go with it (ON DELETE CASCADE).
DeletePreference(r) ==
  /\ r \in Live
  /\ rules' = [rules EXCEPT ![r].phase = "deleted"]
  /\ ledger' = [a \in Alerts |-> IF a.rule = r THEN "NONE" ELSE ledger[a]]
  /\ UNCHANGED <<evaluated, active_users, ipos, devices>>
  /\ Edit

\* A known token moves to the registering user and is reactivated.  The
\* request is one step here: its read and its write are not separated from a
\* token being retired between them.
RegisterDevice(t, u, kind) ==
  /\ devices' = [devices EXCEPT ![t] = [owner |-> u, kind |-> kind, is_active |-> TRUE]]
  /\ UNCHANGED <<rules, evaluated, active_users, ipos, ledger>>
  /\ Edit

DeregisterDevice(t) ==
  /\ devices[t].owner # Null
  /\ devices' = [devices EXCEPT ![t].is_active = FALSE]
  /\ UNCHANGED <<rules, evaluated, active_users, ipos, ledger>>
  /\ Edit

\* No route changes is_active: an operator does, in SQL.
SetUserActive(u) ==
  /\ \/ active_users' = active_users \ {u}
     \/ active_users' = active_users \cup {u}
  /\ UNCHANGED <<rules, evaluated, ipos, devices, ledger>>
  /\ Edit

\* What a scrape leaves in an IPO row.
ScrapeIpo(i, f) ==
  /\ ipos' = [ipos EXCEPT ![i] = f]
  /\ UNCHANGED <<rules, evaluated, active_users, devices, ledger>>
  /\ Edit

Tick ==
  /\ clock < EndTime
  /\ clock' = clock + 1
  /\ UNCHANGED <<database, session, history, bounds>>

Environment ==
  \/ \E r \in Rules, f \in RuleForms, on \in BOOLEAN :
       CreatePreference(r, f, on) \/ UpdatePreference(r, f, on)
  \/ \E r \in Rules : DeletePreference(r)
  \/ \E t \in Tokens : DeregisterDevice(t)
  \/ \E t \in Tokens, u \in Users, k \in Kinds : RegisterDevice(t, u, k)
  \/ \E u \in Users : SetUserActive(u)
  \/ \E i \in Ipos, f \in IpoForms : ScrapeIpo(i, f)
  \/ Tick

Next ==
  \/ \E w \in Workers : WorkerStep(w) \/ Crash(w)
  \/ Environment

Spec == Init /\ [][Next]_vars

\* The scheduler keeps starting passes and every await returns; users,
\* operators, scrapes and the clock owe nothing.
FairSpec == Spec /\ \A w \in Workers : WF_vars(WorkerStep(w))

----------------------------------------------------------------------------
(* Properties.                                                             *)

HeldRows == [Tokens -> [kind : DeviceTypes, is_active : BOOLEAN] \cup {Null}]

WorkTypes ==
  [now : StartTime .. EndTime, batch : SUBSET Snapshots, ids : SUBSET Rules,
   closing : SUBSET IpoRows, rule : Snapshots \cup {Null}, candidates : SUBSET IpoRows,
   targets : SUBSET Tokens, invalid : SUBSET Tokens, found : BOOLEAN,
   held : HeldRows]

TypeOK ==
  /\ clock \in StartTime .. EndTime
  /\ rules \in [Rules -> [phase : Phases, is_enabled : BOOLEAN, form : RuleForms]]
  /\ evaluated \subseteq Rules
  /\ active_users \subseteq Users
  /\ ipos \in [Ipos -> IpoForms]
  /\ devices \in [Tokens -> [owner : Users \cup {Null}, kind : DeviceTypes, is_active : BOOLEAN]]
  /\ ledger \in [Alerts -> Statuses]
  /\ pc \in [Workers -> Stages]
  /\ work \in [Workers -> WorkTypes]
  /\ alert \in [Workers -> Alerts \cup {Null}]
  /\ verdict \in [Workers -> Verdicts \cup {Null}]
  /\ calls \in [Alerts -> Nat]
  /\ edits \in Nat
  /\ crashes \in Nat

(* However many workers race, crash and restart, and whatever the API does *)
(* meanwhile, the provider is called at most once per rule, IPO and window:*)
(* engine.py promises it "under concurrency, restarts and scheduler        *)
(* overlap without any lock".                                              *)
AtMostOneCall == \A a \in Alerts : calls[a] <= 1

(* The delivery history a user reads is what happened: a SENT or FAILED    *)
(* row had its one provider call, a SKIPPED row or a window without a row  *)
(* had none.  A deleted rule has no rows left to tell.                     *)
LedgerTellsTruth ==
  \A a \in Alerts :
    /\ ledger[a] \in {"SENT", "FAILED"} => calls[a] = 1
    /\ ledger[a] = "SKIPPED" => calls[a] = 0
    /\ ledger[a] = "NONE" /\ a.rule \in Live => calls[a] = 0

(* No delivery outlives its rule, even one claimed by a pass that loaded   *)
(* the rule before it was deleted.                                         *)
RowsBelongToLiveRules == \A a \in Alerts : ledger[a] # "NONE" => a.rule \in Live

(* A row that is PENDING with no worker behind it is an alert that was     *)
(* lost for good: docs/notifications.md accepts one per crash, and errors  *)
(* of the provider, aborted passes and deletions must add none.            *)
Lost == {a \in Alerts : ledger[a] = "PENDING" /\ \A w \in Workers : alert[w] # a}
OneLossPerCrash == Cardinality(Lost) <= crashes

(* Every pass ends, whatever the users do to the rules it is walking.      *)
EveryPassEnds == \A w \in Workers : pc[w] # "idle" ~> pc[w] = "idle"

\* Rule a.rule wants an alert about a.ipo now, and a is the window of now.
Due(a) ==
  /\ rules[a.rule].phase = "live" /\ rules[a.rule].is_enabled
  /\ Owner[a.rule] \in active_users
  /\ within_notification_window(clock)
  /\ rule_matches_ipo(rules[a.rule].form, ipos[a.ipo], DayOf(clock))
  /\ a.period = period_index(clock, rules[a.rule].form.interval_minutes)

(* An alert that stays due is claimed, in spite of crashes, of passes that *)
(* die on another user's deleted rule and of data read before it was due.  *)
(* (For a rule that keeps to the close date; see OptOutReachesOtherDays.)  *)
DueAlertClaimed ==
  \A a \in Alerts :
    (Due(a) /\ ipos[a.ipo].close_date = DayOf(clock)) ~>
      (ledger[a] # "NONE" \/ ~(Due(a) /\ ipos[a.ipo].close_date = DayOf(clock)))

(* What docs/notifications.md, engine.py and test_opting_out_allows_other_ *)
(* days say of a rule with only_on_close_date = false: an IPO that closes  *)
(* on another day can alert too.                                           *)
OptOutReachesOtherDays ==
  \A a \in Alerts : Due(a) ~> (ledger[a] # "NONE" \/ ~Due(a))

(* The engine implements the ledger of AlertLedger.                        *)
AlertStatus == [a \in Alerts |-> IF rules[a.rule].phase = "deleted" THEN "FORGOTTEN"
                                 ELSE ledger[a]]
Owing(w) ==
  \/ pc[w] \in {"targets", "send"}
  \/ pc[w] \in {"read_row", "settle"} /\ verdict[w] = "SKIPPED"
OwedAlerts == {alert[w] : w \in {w \in Workers : Owing(w)}}

L == INSTANCE AlertLedger WITH status <- AlertStatus, owed <- OwedAlerts
ImplementsLedger == L!Spec

----------------------------------------------------------------------------
(* The inductive invariant behind the safety properties.                   *)

Holding == {"targets", "send", "read_row", "settle"}
Deleted(r) == rules[r].phase = "deleted"

(* A worker past its claim holds an alert whose row is still PENDING       *)
(* unless the rule was deleted under it, and whose call has been made      *)
(* exactly when the worker is past it.                                     *)
ClaimOf(w) ==
  /\ pc[w] = "dispatch" => work[w].rule \in Snapshots
  /\ pc[w] \in Holding => work[w].rule \in Snapshots /\ alert[w] \in Alerts
  /\ pc[w] \notin Holding => alert[w] = Null
  /\ pc[w] \in {"read_row", "settle"} => verdict[w] \in Verdicts
  /\ pc[w] \in Holding =>
       /\ \/ ledger[alert[w]] = "PENDING"
          \/ ledger[alert[w]] = "NONE" /\ Deleted(alert[w].rule)
       /\ calls[alert[w]] = IF Owing(w) THEN 0 ELSE 1

(* No two workers hold the same alert.                                     *)
ClaimInv ==
  /\ \A w \in Workers : ClaimOf(w)
  /\ \A v, w \in Workers : v # w /\ alert[v] # Null => alert[v] # alert[w]

(* What a row says of its call, and when there is none.                    *)
RowInv ==
  \A a \in Alerts :
    /\ calls[a] <= 1
    /\ ledger[a] \in {"SENT", "FAILED"} => calls[a] = 1
    /\ ledger[a] = "SKIPPED" => calls[a] = 0
    /\ ledger[a] = "NONE" /\ ~Deleted(a.rule) => calls[a] = 0
    /\ ledger[a] # "NONE" => a.rule \in Live

EngineInv == TypeOK /\ ClaimInv /\ RowInv
=============================================================================
