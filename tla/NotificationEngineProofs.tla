---------------------- MODULE NotificationEngineProofs ----------------------
(***************************************************************************)
(* Safety of the notification engine, for any number of workers, users,    *)
(* rules, IPOs, devices, edits and crashes: the invariant EngineInv is     *)
(* inductive, and the safety properties follow from it.                    *)
(***************************************************************************)
EXTENDS NotificationEngine, FiniteSetTheorems, TLAPS

USE EngineAssumption

(* What the two queries of a pass return has the type a session expects.   *)
LEMMA LoadedTypes ==
  ASSUME TypeOK, NEW w \in Workers, NEW day
  PROVE  /\ ActiveRules \subseteq Snapshots
         /\ {s.id : s \in ActiveRules} \subseteq Rules
         /\ list_closing_on(day) \subseteq IpoRows
         /\ Requery(w) \subseteq IpoRows
<1>1. ActiveRules \subseteq Snapshots
  BY DEF TypeOK, ActiveRules, Live, Snapshots
<1>2. {s.id : s \in ActiveRules} \subseteq Rules
  BY DEF ActiveRules, Live
<1>3. \A d : list_closing_on(d) \subseteq IpoRows
  BY DEF TypeOK, list_closing_on, IpoRows
<1>4. work[w].closing \subseteq IpoRows
  BY DEF TypeOK, WorkTypes
<1>5. Requery(w) \subseteq IpoRows
  BY <1>3, <1>4 DEF Requery
<1> QED
  BY <1>1, <1>2, <1>3, <1>5

(* The key a pass computes for a candidate is the key of an alert.         *)
LEMMA AlertForType ==
  ASSUME TypeOK, NEW w \in Workers, work[w].rule \in Snapshots, NEW c \in work[w].candidates
  PROVE  AlertFor(w, c) \in Alerts /\ AlertFor(w, c).rule = work[w].rule.id
<1>1. c.id \in Ipos
  BY DEF TypeOK, WorkTypes, IpoRows
<1>2. work[w].rule.id \in Rules /\ work[w].rule.form \in RuleForms
  BY DEF Snapshots
<1>3. work[w].now \in StartTime .. EndTime
  BY DEF TypeOK, WorkTypes
<1>4. period_index(work[w].now, work[w].rule.form.interval_minutes) \in Windows
  BY <1>2, <1>3 DEF Windows
<1> QED
  BY <1>1, <1>2, <1>4 DEF AlertFor, Alerts

(* Ending a pass keeps the session well typed.                             *)
LEMMA EndPassType ==
  ASSUME TypeOK, NEW w \in Workers, EndPass(w)
  PROVE  /\ pc' \in [Workers -> Stages]
         /\ work' \in [Workers -> WorkTypes]
         /\ alert' \in [Workers -> Alerts \cup {Null}]
         /\ verdict' \in [Workers -> Verdicts \cup {Null}]
<1>1. NoWork \in WorkTypes
  BY DEF NoWork, WorkTypes, HeldRows
<1> QED
  BY <1>1 DEF TypeOK, EndPass, Goto, Stages

LEMMA InitInv == Init => EngineInv
<1> SUFFICES ASSUME Init PROVE EngineInv
  OBVIOUS
<1>1. TypeOK
  <2>1. clock \in StartTime .. EndTime /\ edits \in Nat /\ crashes \in Nat
    BY DEF Init
  <2>2. rules \in [Rules -> [phase : Phases, is_enabled : BOOLEAN, form : RuleForms]]
    BY DEF Init, Phases
  <2>3. devices \in [Tokens -> [owner : Users \cup {Null}, kind : DeviceTypes, is_active : BOOLEAN]]
    <3> DEFINE Rows == [owner : Users \cup {Null}, kind : DeviceTypes, is_active : BOOLEAN]
    <3>1. NoDevice \in Rows
      BY DEF NoDevice, DeviceTypes
    <3>2. [owner : Users, kind : Kinds, is_active : {TRUE}] \subseteq Rows
      OBVIOUS
    <3> HIDE DEF Rows
    <3>3. {NoDevice} \cup [owner : Users, kind : Kinds, is_active : {TRUE}] \subseteq Rows
      BY <3>1, <3>2
    <3>4. devices \in [Tokens -> Rows]
      BY <3>3 DEF Init
    <3> QED
      BY <3>4 DEF Rows
  <2>4. work \in [Workers -> WorkTypes]
    BY DEF Init, NoWork, WorkTypes, HeldRows
  <2> QED
    BY <2>1, <2>2, <2>3, <2>4 DEF Init, TypeOK, Statuses, Stages, Verdicts
<1>2. ClaimInv
  BY DEF Init, ClaimInv, ClaimOf, Holding
<1>3. RowInv
  BY SMTT(30) DEF Init, RowInv
<1> QED
  BY <1>1, <1>2, <1>3 DEF EngineInv

(* Every assignment of a step to the session keeps it well typed.          *)
LEMMA SessionUpdates ==
  ASSUME NEW s \in WorkTypes
  PROVE  /\ \A t \in StartTime .. EndTime, B \in SUBSET Snapshots, I \in SUBSET Rules, H \in HeldRows :
              [s EXCEPT !.now = t, !.batch = B, !.ids = I, !.held = H] \in WorkTypes
         /\ \A C \in SUBSET IpoRows : [s EXCEPT !.closing = C] \in WorkTypes
         /\ \A C \in SUBSET IpoRows : [s EXCEPT !.candidates = C] \in WorkTypes
         /\ \A B \in SUBSET Snapshots, r \in Snapshots, C \in SUBSET IpoRows :
              [s EXCEPT !.batch = B, !.rule = r, !.candidates = C] \in WorkTypes
         /\ \A I \in SUBSET Rules : [s EXCEPT !.ids = I] \in WorkTypes
         /\ \A T \in SUBSET Tokens : [s EXCEPT !.targets = T] \in WorkTypes
         /\ \A T \in SUBSET Tokens : [s EXCEPT !.targets = {}, !.invalid = T] \in WorkTypes
         /\ \A H \in HeldRows : [s EXCEPT !.invalid = {}, !.found = FALSE, !.held = H] \in WorkTypes
         /\ \A b \in BOOLEAN : [s EXCEPT !.found = b] \in WorkTypes
BY ZenonT(30) DEF WorkTypes

(* The devices a session holds, as they were loaded and once it has retired *)
(* some of them.                                                           *)
LEMMA HeldTypes ==
  ASSUME TypeOK
  PROVE  /\ \A batch : DevicesOf(batch) \in HeldRows
         /\ \A w \in Workers : HeldAfter(w) \in HeldRows
<1> DEFINE Row == [kind : DeviceTypes, is_active : BOOLEAN]
<1>1. \A t \in Tokens : [kind |-> devices[t].kind, is_active |-> devices[t].is_active] \in Row
  BY DEF TypeOK
<1>2. \A row \in Row : [row EXCEPT !.is_active = FALSE] \in Row
  OBVIOUS
<1>3. ASSUME NEW w \in Workers PROVE work[w].held \in [Tokens -> Row \cup {Null}]
  BY <1>3 DEF TypeOK, WorkTypes, HeldRows
<1>4. HeldRows = [Tokens -> Row \cup {Null}]
  BY DEF HeldRows
<1> HIDE DEF Row
<1>5. ASSUME NEW batch PROVE DevicesOf(batch) \in [Tokens -> Row \cup {Null}]
  BY <1>1 DEF DevicesOf
<1>6. ASSUME NEW w \in Workers PROVE HeldAfter(w) \in [Tokens -> Row \cup {Null}]
  BY <1>2, <1>3 DEF HeldAfter
<1> QED
  BY <1>4, <1>5, <1>6

(* The parts of a session, for the steps that read them.                   *)
LEMMA SessionParts ==
  ASSUME TypeOK, NEW w \in Workers
  PROVE  /\ work[w] \in WorkTypes
         /\ work[w].now \in StartTime .. EndTime
         /\ work[w].batch \in SUBSET Snapshots
         /\ work[w].ids \in SUBSET Rules
         /\ work[w].closing \in SUBSET IpoRows
         /\ work[w].candidates \in SUBSET IpoRows
         /\ work[w].targets \in SUBSET Tokens
         /\ work[w].invalid \in SUBSET Tokens
BY DEF TypeOK, WorkTypes

(***************************************************************************)
(* Types.                                                                  *)
(***************************************************************************)
LEMMA WorkerTypes ==
  ASSUME EngineInv, NEW w \in Workers, WorkerStep(w) \/ Crash(w)
  PROVE  TypeOK'
<1> USE DEF EngineInv
<1>t. TypeOK
  OBVIOUS
<1>k. work[w] \in WorkTypes
  BY <1>t DEF TypeOK
<1>1. CASE LoadRules(w)
  <2>1. ActiveRules \in SUBSET Snapshots /\ {s.id : s \in ActiveRules} \in SUBSET Rules
    BY <1>t, LoadedTypes
  <2>2. clock \in StartTime .. EndTime
    BY <1>t, SMTT(30) DEF TypeOK
  <2>3. work' \in [Workers -> WorkTypes]
    <3>1. DevicesOf(ActiveRules) \in HeldRows
      BY <1>t, HeldTypes
    <3>2. work' = [work EXCEPT ![w] = [@ EXCEPT !.now = clock, !.batch = ActiveRules,
                                                !.ids = {s.id : s \in ActiveRules},
                                                !.held = DevicesOf(ActiveRules)]]
      BY <1>1 DEF LoadRules
    <3>3. [work[w] EXCEPT !.now = clock, !.batch = ActiveRules, !.ids = {s.id : s \in ActiveRules},
                          !.held = DevicesOf(ActiveRules)] \in WorkTypes
      BY <1>k, <2>1, <2>2, <3>1, SessionUpdates
    <3> QED
      BY <1>t, <3>2, <3>3 DEF TypeOK
  <2> QED
    BY <1>1, <1>t, <2>3 DEF LoadRules, Goto, TypeOK, Stages, database, history, bounds
<1>2. CASE LoadClosing(w)
  <2>1. work' \in [Workers -> WorkTypes]
    BY <1>2, <1>t, <1>k, LoadedTypes, SessionUpdates DEF LoadClosing, TypeOK
  <2> QED
    BY <1>2, <1>t, <2>1 DEF LoadClosing, Goto, TypeOK, Stages, database, history, bounds
<1>3. CASE NextRule(w)
  <2>1. PICK s \in work[w].batch :
          work' = [work EXCEPT
             ![w].batch = @ \ {s}, ![w].rule = s,
             ![w].candidates =
                {c \in IF s.form.only_on_close_date THEN work[w].closing ELSE Requery(w) :
                   rule_matches_ipo(s.form, c.row, DayOf(work[w].now))}]
    BY <1>3 DEF NextRule
  <2>2. s \in Snapshots /\ work[w].closing \subseteq IpoRows /\ Requery(w) \subseteq IpoRows
    BY <1>t, LoadedTypes, SessionParts
  <2> DEFINE C == {c \in IF s.form.only_on_close_date THEN work[w].closing ELSE Requery(w) :
                     rule_matches_ipo(s.form, c.row, DayOf(work[w].now))}
  <2>3. C \in SUBSET IpoRows /\ work[w].batch \ {s} \in SUBSET Snapshots
    BY <1>t, <2>2, SessionParts, SMTT(30)
  <2>4. work' \in [Workers -> WorkTypes]
    <3> HIDE DEF C
    <3> QED
      BY <1>t, <1>k, <2>1, <2>2, <2>3, SessionUpdates DEF TypeOK, C
  <2> QED
    BY <1>3, <1>t, <2>4 DEF NextRule, Goto, TypeOK, Stages, database, history, bounds
<1>4. CASE RuleDone(w)
  BY <1>4, <1>t DEF RuleDone, Goto, TypeOK, Stages, database, history, bounds
<1>5. CASE ClaimWon(w)
  <2>1. PICK c \in work[w].candidates :
          /\ ledger' = [ledger EXCEPT ![AlertFor(w, c)] = "PENDING"]
          /\ alert' = [alert EXCEPT ![w] = AlertFor(w, c)]
          /\ work' = [work EXCEPT ![w].candidates = @ \ {c}]
    BY <1>5 DEF ClaimWon
  <2>2. AlertFor(w, c) \in Alerts
    BY <1>5, <1>t, AlertForType, SMTT(30) DEF ClaimWon, ClaimInv, ClaimOf
  <2>3. work' \in [Workers -> WorkTypes]
    <3>1. work[w].candidates \ {c} \in SUBSET IpoRows
      BY <1>t, SessionParts
    <3> QED
      BY <1>t, <1>k, <2>1, <3>1, SessionUpdates DEF TypeOK
  <2> QED
    BY <1>5, <1>t, <2>1, <2>2, <2>3 DEF ClaimWon, Goto, TypeOK, Stages, Statuses, history, bounds
<1>6. CASE ClaimDuplicate(w)
  <2>1. work' \in [Workers -> WorkTypes]
    <3>1. PICK c \in work[w].candidates : work' = [work EXCEPT ![w].candidates = @ \ {c}]
      BY <1>6 DEF ClaimDuplicate
    <3>2. work[w].candidates \ {c} \in SUBSET IpoRows
      BY <1>t, SessionParts
    <3> QED
      BY <1>t, <1>k, <3>1, <3>2, SessionUpdates DEF TypeOK
  <2> QED
    BY <1>6, <1>t, <2>1, SMTT(30) DEF ClaimDuplicate, TypeOK, database, history, bounds
<1>7. CASE ClaimRejected(w)
  BY <1>7, <1>t, EndPassType DEF ClaimRejected, TypeOK, database, history, bounds
<1>8. CASE ResolveTargets(w)
  <2>1. work' \in [Workers -> WorkTypes]
    <3> DEFINE found == Targets(w)
    <3>1. found \in SUBSET Tokens
      BY DEF Targets
    <3>2. work' = work \/ work' = [work EXCEPT ![w].targets = found]
      BY <1>8 DEF ResolveTargets
    <3> HIDE DEF found
    <3>3. [work[w] EXCEPT !.targets = found] \in WorkTypes
      BY <1>k, <3>1, SessionUpdates
    <3> QED
      BY <1>t, <3>2, <3>3 DEF TypeOK
  <2>2. verdict' \in [Workers -> Verdicts \cup {Null}] /\ pc' \in [Workers -> Stages]
    BY <1>8, <1>t DEF ResolveTargets, TypeOK, Goto, Stages, Verdicts
  <2> QED
    BY <1>8, <1>t, <2>1, <2>2 DEF ResolveTargets, TypeOK, database, history, bounds
<1>9. CASE Send(w)
  <2>1. alert[w] \in Alerts
    BY <1>9 DEF Send, ClaimInv, ClaimOf, Holding
  <2>2. work' \in [Workers -> WorkTypes]
    <3>1. PICK bad \in SUBSET work[w].targets :
            work' = [work EXCEPT ![w].targets = {}, ![w].invalid = bad]
      BY <1>9 DEF Send
    <3> QED
      BY <1>t, <1>k, <3>1, SessionParts, SessionUpdates DEF TypeOK
  <2>3. verdict' \in [Workers -> Verdicts \cup {Null}] /\ pc' \in [Workers -> Stages]
    BY <1>9, <1>t DEF Send, TypeOK, Goto, Stages, Verdicts
  <2>4. calls' \in [Alerts -> Nat]
    BY <1>9, <1>t, <2>1 DEF Send, TypeOK
  <2> QED
    BY <1>9, <1>t, <2>2, <2>3, <2>4 DEF Send, TypeOK, database, bounds
<1>10. CASE ReadRow(w)
  <2>1. work' \in [Workers -> WorkTypes]
    BY <1>10, <1>t, <1>k, SessionUpdates DEF ReadRow, TypeOK
  <2> QED
    BY <1>10, <1>t, <2>1, SMTT(30) DEF ReadRow, Goto, TypeOK, Stages, database, history, bounds
<1>11. CASE Settle(w)
  <2>1. alert[w] \in Alerts /\ verdict[w] \in Verdicts
    BY <1>11, SMTT(30) DEF Settle, ClaimInv, ClaimOf, Holding
  <2>2. work' \in [Workers -> WorkTypes]
    <3>1. HeldAfter(w) \in HeldRows
      BY <1>t, HeldTypes
    <3>2. work' = [work EXCEPT ![w] = [@ EXCEPT !.invalid = {}, !.found = FALSE, !.held = HeldAfter(w)]]
      BY <1>11 DEF Settle
    <3>3. [work[w] EXCEPT !.invalid = {}, !.found = FALSE, !.held = HeldAfter(w)] \in WorkTypes
      BY <1>k, <3>1, SessionUpdates
    <3> QED
      BY <1>t, <3>2, <3>3 DEF TypeOK
  <2>3. ledger' \in [Alerts -> Statuses]
    BY <1>11, <1>t, <2>1 DEF Settle, TypeOK, Statuses
  <2>4. devices' \in [Tokens -> [owner : Users \cup {Null}, kind : DeviceTypes, is_active : BOOLEAN]]
    <3> DEFINE Device == [owner : Users \cup {Null}, kind : DeviceTypes, is_active : BOOLEAN]
    <3>1. devices \in [Tokens -> Device]
      BY <1>t DEF TypeOK
    <3>2. \A d \in Device : [d EXCEPT !.is_active = FALSE] \in Device
      OBVIOUS
    <3>3. invalidate_tokens(w)
      BY <1>11 DEF Settle
    <3> HIDE DEF Device
    <3>4. devices' \in [Tokens -> Device]
      BY <3>1, <3>2, <3>3 DEF invalidate_tokens
    <3> QED
      BY <3>4 DEF Device
  <2>5. pc' \in [Workers -> Stages]
    BY <1>11, <1>t DEF Settle, TypeOK, Goto, Stages
  <2> QED
    BY <1>11, <1>t, <2>2, <2>3, <2>4, <2>5 DEF Settle, TypeOK, history, bounds
<1>12. CASE SettleStale(w)
  BY <1>12, <1>t, EndPassType DEF SettleStale, TypeOK, database, history, bounds
<1>13. CASE SelectEvaluated(w)
  <2>1. work[w].ids \cap Live \in SUBSET Rules
    BY <1>t, SessionParts, SMTT(30)
  <2>2. work' \in [Workers -> WorkTypes]
    BY <1>13, <1>t, <1>k, <2>1, SessionUpdates DEF SelectEvaluated, TypeOK
  <2> QED
    BY <1>13, <1>t, <2>2 DEF SelectEvaluated, Goto, TypeOK, Stages, database, history, bounds
<1>14. CASE MarkEvaluated(w)
  <2>1. work[w].ids \subseteq Rules
    BY <1>t, SessionParts
  <2> QED
    BY <1>14, <1>t, <2>1, EndPassType DEF MarkEvaluated, TypeOK, history, bounds
<1>15. CASE Crash(w)
  BY <1>15, <1>t, EndPassType DEF Crash, TypeOK, database, history
<1> QED
  BY <1>1, <1>2, <1>3, <1>4, <1>5, <1>6, <1>7, <1>8, <1>9, <1>10, <1>11, <1>12, <1>13,
     <1>14, <1>15 DEF WorkerStep

LEMMA EnvironmentTypes ==
  ASSUME TypeOK, Environment
  PROVE  TypeOK'
<1>1. ASSUME NEW r \in Rules, NEW f \in RuleForms, NEW on \in BOOLEAN,
             CreatePreference(r, f, on) \/ UpdatePreference(r, f, on)
      PROVE  TypeOK'
  <2>1. rules' \in [Rules -> [phase : Phases, is_enabled : BOOLEAN, form : RuleForms]]
    <3> DEFINE Rows == [phase : Phases, is_enabled : BOOLEAN, form : RuleForms]
    <3>1. [phase |-> "live", is_enabled |-> on, form |-> f] \in Rows
      BY DEF Phases
    <3>2. \A row \in Rows : [row EXCEPT !.is_enabled = on, !.form = f] \in Rows
      OBVIOUS
    <3> HIDE DEF Rows
    <3>3. rules \in [Rules -> Rows]
      BY DEF TypeOK, Rows
    <3>4. CASE CreatePreference(r, f, on)
      BY <3>1, <3>3, <3>4 DEF CreatePreference, Rows
    <3>5. CASE UpdatePreference(r, f, on)
      <4>1. rules' = [rules EXCEPT ![r].is_enabled = on, ![r].form = f]
        BY <3>5 DEF UpdatePreference
      <4>2. [rules[r] EXCEPT !.is_enabled = on, !.form = f] \in Rows
        BY <3>2, <3>3
      <4> QED
        BY <3>3, <4>1, <4>2 DEF Rows
    <3> QED
      BY <1>1, <3>4, <3>5
  <2> QED
    BY <1>1, <2>1 DEF CreatePreference, UpdatePreference, Edit, TypeOK, session, history
<1>2. ASSUME NEW r \in Rules, DeletePreference(r)
      PROVE  TypeOK'
  <2>1. rules' \in [Rules -> [phase : Phases, is_enabled : BOOLEAN, form : RuleForms]]
    <3> DEFINE Rows == [phase : Phases, is_enabled : BOOLEAN, form : RuleForms]
    <3>1. \A row \in Rows : [row EXCEPT !.phase = "deleted"] \in Rows
      BY DEF Phases
    <3> HIDE DEF Rows
    <3>2. rules' \in [Rules -> Rows]
      BY <1>2, <3>1 DEF DeletePreference, TypeOK, Rows
    <3> QED
      BY <3>2 DEF Rows
  <2>2. ledger' \in [Alerts -> Statuses]
    BY <1>2 DEF DeletePreference, TypeOK, Statuses
  <2> QED
    BY <1>2, <2>1, <2>2 DEF DeletePreference, Edit, TypeOK, session, history
<1>3. ASSUME NEW t \in Tokens, DeregisterDevice(t)
      PROVE  TypeOK'
  <2>1. devices' \in [Tokens -> [owner : Users \cup {Null}, kind : DeviceTypes, is_active : BOOLEAN]]
    <3> DEFINE Rows == [owner : Users \cup {Null}, kind : DeviceTypes, is_active : BOOLEAN]
    <3>1. \A row \in Rows : [row EXCEPT !.is_active = FALSE] \in Rows
      OBVIOUS
    <3> HIDE DEF Rows
    <3>2. devices' \in [Tokens -> Rows]
      BY <1>3, <3>1 DEF DeregisterDevice, TypeOK, Rows
    <3> QED
      BY <3>2 DEF Rows
  <2> QED
    BY <1>3, <2>1 DEF DeregisterDevice, Edit, TypeOK, session, history
<1>4. ASSUME NEW t \in Tokens, NEW u \in Users, NEW k \in Kinds, RegisterDevice(t, u, k)
      PROVE  TypeOK'
  <2>1. devices' \in [Tokens -> [owner : Users \cup {Null}, kind : DeviceTypes, is_active : BOOLEAN]]
    BY <1>4 DEF RegisterDevice, TypeOK
  <2> QED
    BY <1>4, <2>1 DEF RegisterDevice, Edit, TypeOK, session, history
<1>5. ASSUME NEW u \in Users, SetUserActive(u)
      PROVE  TypeOK'
  BY <1>5 DEF SetUserActive, Edit, TypeOK, session, history
<1>6. ASSUME NEW i \in Ipos, NEW f \in IpoForms, ScrapeIpo(i, f)
      PROVE  TypeOK'
  BY <1>6 DEF ScrapeIpo, Edit, TypeOK, session, history
<1>7. CASE Tick
  BY <1>7 DEF Tick, TypeOK, database, session, history, bounds
<1> QED
  BY <1>1, <1>2, <1>3, <1>4, <1>5, <1>6, <1>7 DEF Environment

(***************************************************************************)
(* The claim.                                                              *)
(***************************************************************************)
(* A step leaves the claim of a worker alone when it changes neither its   *)
(* session nor the row, the calls and the rule of the alert it holds.      *)
LEMMA ClaimFrame ==
  ASSUME NEW v \in Workers, ClaimOf(v),
         pc'[v] = pc[v], alert'[v] = alert[v], verdict'[v] = verdict[v],
         work'[v] = work[v],
         alert[v] \in Alerts =>
           /\ ledger'[alert[v]] = ledger[alert[v]]
           /\ calls'[alert[v]] = calls[alert[v]]
           /\ Deleted(alert[v].rule) => Deleted(alert[v].rule)'
  PROVE  ClaimOf(v)'
BY DEF ClaimOf, Owing, Holding

(* A worker that ends its pass, or goes on without an alert, disturbs the  *)
(* claim of no other worker.                                               *)
LEMMA ClaimKept ==
  ASSUME TypeOK, ClaimInv, NEW w \in Workers,
         \A v \in Workers \ {w} :
            pc'[v] = pc[v] /\ alert'[v] = alert[v] /\ verdict'[v] = verdict[v] /\ work'[v] = work[v],
         \A a \in Alerts : a # alert[w] => ledger'[a] = ledger[a] /\ calls'[a] = calls[a],
         rules' = rules,
         alert'[w] \in {Null, alert[w]},
         ClaimOf(w)'
  PROVE  ClaimInv'
<1>1. ASSUME NEW v \in Workers, v # w
      PROVE  ClaimOf(v)'
  <2>1. alert[v] \in Alerts => alert[v] # alert[w]
    BY <1>1 DEF ClaimInv
  <2>2. ClaimOf(v) /\ (Deleted(alert[v].rule) => Deleted(alert[v].rule)')
    BY <1>1 DEF ClaimInv, Deleted
  <2> QED
    BY <1>1, <2>1, <2>2, ClaimFrame
<1>2. ASSUME NEW u \in Workers, NEW v \in Workers, u # v, alert'[u] # Null
      PROVE  alert'[u] # alert'[v]
  BY <1>2 DEF ClaimInv
<1> QED
  BY <1>1, <1>2 DEF ClaimInv

(* Ending a pass without touching the ledger gives the claim up.           *)
LEMMA EndPassClaim ==
  ASSUME TypeOK, ClaimInv, NEW w \in Workers, EndPass(w), UNCHANGED <<rules, ledger, calls>>
  PROVE  ClaimInv'
<1>1. pc'[w] = "idle" /\ alert'[w] = Null
  BY DEF EndPass, Goto, TypeOK
<1>2. ClaimOf(w)'
  BY <1>1 DEF ClaimOf, Holding
<1>3. \A v \in Workers \ {w} :
        pc'[v] = pc[v] /\ alert'[v] = alert[v] /\ verdict'[v] = verdict[v] /\ work'[v] = work[v]
  BY DEF EndPass, Goto, TypeOK
<1> QED
  BY <1>1, <1>2, <1>3, ClaimKept

LEMMA WorkerClaim ==
  ASSUME EngineInv, TypeOK', NEW w \in Workers, WorkerStep(w) \/ Crash(w)
  PROVE  ClaimInv'
<1>t. TypeOK /\ ClaimInv /\ RowInv /\ ClaimOf(w)
  BY DEF EngineInv, ClaimInv
<1>1. CASE LoadRules(w)
  <2>1. pc'[w] = "load_ipos" /\ alert'[w] = alert[w] /\ alert[w] = Null
    BY <1>1, <1>t DEF LoadRules, Goto, TypeOK, ClaimOf, Holding
  <2>2. ClaimOf(w)'
    BY <2>1 DEF ClaimOf, Holding
  <2> QED
    BY <1>1, <1>t, <2>1, <2>2, ClaimKept DEF LoadRules, Goto, TypeOK, database, history
<1>2. CASE LoadClosing(w)
  <2>1. pc'[w] = "next_rule" /\ alert'[w] = alert[w] /\ alert[w] = Null
    BY <1>2, <1>t DEF LoadClosing, Goto, TypeOK, ClaimOf, Holding
  <2>2. ClaimOf(w)'
    BY <2>1 DEF ClaimOf, Holding
  <2> QED
    BY <1>2, <1>t, <2>1, <2>2, ClaimKept DEF LoadClosing, Goto, TypeOK, database, history
<1>3. CASE NextRule(w)
  <2>1. pc'[w] = "dispatch" /\ alert'[w] = alert[w] /\ alert[w] = Null
    BY <1>3, <1>t DEF NextRule, Goto, TypeOK, ClaimOf, Holding
  <2>2. work'[w].rule \in Snapshots
    <3>1. PICK s \in work[w].batch : \E C :
            work' = [work EXCEPT ![w].batch = @ \ {s}, ![w].rule = s, ![w].candidates = C]
      BY <1>3 DEF NextRule
    <3>2. PICK C :
            work' = [work EXCEPT ![w].batch = @ \ {s}, ![w].rule = s, ![w].candidates = C]
      BY <3>1
    <3>3. s \in Snapshots
      BY <1>t, SessionParts
    <3>4. work[w] \in WorkTypes
      BY <1>t, SessionParts
    <3>5. work'[w].rule = s
      BY <1>t, <3>2, <3>4 DEF TypeOK, WorkTypes
    <3> QED
      BY <3>3, <3>5
  <2>3. ClaimOf(w)'
    BY <2>1, <2>2 DEF ClaimOf, Holding
  <2> QED
    BY <1>3, <1>t, <2>1, <2>3, ClaimKept DEF NextRule, Goto, TypeOK, database, history
<1>4. CASE RuleDone(w)
  <2>1. pc'[w] = "next_rule" /\ alert'[w] = alert[w] /\ alert[w] = Null
    BY <1>4, <1>t DEF RuleDone, Goto, TypeOK, ClaimOf, Holding
  <2>2. ClaimOf(w)'
    BY <2>1 DEF ClaimOf, Holding
  <2> QED
    BY <1>4, <1>t, <2>1, <2>2, ClaimKept DEF RuleDone, Goto, TypeOK, database, history
<1>5. CASE ClaimWon(w)
  <2> DEFINE rule == work[w].rule
  <2>1. PICK c \in work[w].candidates :
          /\ rule.id \in Live
          /\ ledger[AlertFor(w, c)] = "NONE"
          /\ ledger' = [ledger EXCEPT ![AlertFor(w, c)] = "PENDING"]
          /\ alert' = [alert EXCEPT ![w] = AlertFor(w, c)]
          /\ work' = [work EXCEPT ![w].candidates = @ \ {c}]
    BY <1>5 DEF ClaimWon
  <2> DEFINE a == AlertFor(w, c)
  <2>2. rule \in Snapshots
    BY <1>5, <1>t DEF ClaimWon, ClaimOf
  <2>3. a \in Alerts /\ a.rule = rule.id
    BY <1>t, <2>2, AlertForType
  <2>4. calls[a] = 0
    <3>1. ~ Deleted(a.rule)
      BY <2>1, <2>3 DEF Live, Deleted
    <3> QED
      BY <1>t, <2>1, <2>3, <3>1 DEF RowInv
  <2>5. \A v \in Workers : alert[v] # a
    <3> SUFFICES ASSUME NEW v \in Workers, alert[v] = a PROVE FALSE
      OBVIOUS
    <3>1. pc[v] \in Holding
      BY <1>t, <2>3 DEF ClaimInv, ClaimOf
    <3>2. Deleted(a.rule)
      BY <1>t, <2>1, <3>1 DEF ClaimInv, ClaimOf
    <3> QED
      BY <2>1, <2>3, <3>2 DEF Live, Deleted
  <2>6. work'[w].rule = rule
    <3>1. work[w] \in WorkTypes
      BY <1>t, SessionParts
    <3> QED
      BY <1>t, <2>1, <3>1 DEF TypeOK, WorkTypes
  <2>7. pc'[w] = "targets" /\ alert'[w] = a /\ ledger'[a] = "PENDING" /\ calls'[a] = 0
    BY <1>5, <1>t, <2>1, <2>3, <2>4 DEF ClaimWon, Goto, TypeOK, history
  <2> HIDE DEF a, rule
  <2>8. ClaimOf(w)'
    BY <2>2, <2>3, <2>6, <2>7 DEF ClaimOf, Holding, Owing
  <2>9. \A v \in Workers \ {w} :
          pc'[v] = pc[v] /\ alert'[v] = alert[v] /\ verdict'[v] = verdict[v] /\ work'[v] = work[v]
    BY <1>5, <1>t, <2>1 DEF ClaimWon, Goto, TypeOK
  <2>10. \A b \in Alerts : b # a => ledger'[b] = ledger[b] /\ calls'[b] = calls[b]
    BY <1>5, <1>t, <2>1 DEF ClaimWon, TypeOK, history, a
  <2>11. ASSUME NEW v \in Workers, v # w
         PROVE  ClaimOf(v)'
    BY <1>5, <1>t, <2>5, <2>9, <2>10, <2>11, ClaimFrame DEF ClaimWon, ClaimInv, Deleted
  <2>12. ASSUME NEW u \in Workers, NEW v \in Workers, u # v, alert'[u] # Null
         PROVE  alert'[u] # alert'[v]
    BY <1>t, <2>5, <2>7, <2>9, <2>12 DEF ClaimInv
  <2> QED
    BY <2>8, <2>11, <2>12 DEF ClaimInv
<1>6. CASE ClaimDuplicate(w)
  <2>1. pc' = pc /\ pc[w] = "dispatch" /\ alert'[w] = alert[w] /\ alert[w] = Null
    BY <1>6, <1>t DEF ClaimDuplicate, ClaimOf, Holding
  <2>2. PICK c : work' = [work EXCEPT ![w].candidates = @ \ {c}]
    BY <1>6 DEF ClaimDuplicate
  <2>3. work'[w].rule = work[w].rule
    <3>1. work[w] \in WorkTypes
      BY <1>t, SessionParts
    <3> QED
      BY <1>t, <2>2, <3>1 DEF TypeOK, WorkTypes
  <2>4. ClaimOf(w)'
    BY <1>t, <2>1, <2>3 DEF ClaimOf, Holding
  <2> QED
    BY <1>6, <1>t, <2>1, <2>2, <2>4, ClaimKept DEF ClaimDuplicate, TypeOK, database, history
<1>7. CASE ClaimRejected(w)
  BY <1>7, <1>t, EndPassClaim DEF ClaimRejected, database, history
<1>8. CASE ResolveTargets(w)
  <2>1. pc[w] = "targets" /\ pc'[w] \in {"read_row", "send"} /\ alert'[w] = alert[w]
    BY <1>8, <1>t DEF ResolveTargets, Goto, TypeOK
  <2>2. pc'[w] = "read_row" => verdict'[w] = "SKIPPED"
    BY <1>8, <1>t DEF ResolveTargets, Goto, TypeOK
  <2>3. work'[w].rule = work[w].rule
    <3>1. work[w] \in WorkTypes
      BY <1>t, SessionParts
    <3>2. PICK found : work' = work \/ work' = [work EXCEPT ![w].targets = found]
      BY <1>8 DEF ResolveTargets
    <3> QED
      BY <1>t, <3>1, <3>2 DEF TypeOK, WorkTypes
  <2>4. ledger' = ledger /\ calls' = calls /\ rules' = rules
    BY <1>8 DEF ResolveTargets, database, history
  <2>5. ClaimOf(w)'
    BY <1>t, <2>1, <2>2, <2>3, <2>4 DEF ClaimOf, Holding, Owing, Deleted, Verdicts
  <2>6. \A v \in Workers \ {w} :
          pc'[v] = pc[v] /\ alert'[v] = alert[v] /\ verdict'[v] = verdict[v] /\ work'[v] = work[v]
    BY <1>8, <1>t DEF ResolveTargets, Goto, TypeOK
  <2> QED
    BY <1>t, <2>1, <2>4, <2>5, <2>6, ClaimKept
<1>9. CASE Send(w)
  <2>1. alert[w] \in Alerts /\ pc[w] = "send"
    BY <1>9, <1>t DEF Send, ClaimOf, Holding
  <2>2. PICK bad \in SUBSET work[w].targets, outcome \in {"SENT", "FAILED"} :
          /\ verdict' = [verdict EXCEPT ![w] = outcome]
          /\ work' = [work EXCEPT ![w].targets = {}, ![w].invalid = bad]
    BY <1>9 DEF Send
  <2>3. pc'[w] = "read_row" /\ alert' = alert /\ verdict'[w] \in {"SENT", "FAILED"}
    BY <1>9, <1>t, <2>2 DEF Send, Goto, TypeOK
  <2>4. work'[w].rule = work[w].rule
    <3>1. work[w] \in WorkTypes
      BY <1>t, SessionParts
    <3> QED
      BY <1>t, <2>2, <3>1 DEF TypeOK, WorkTypes
  <2>5. calls'[alert[w]] = 1
    BY <1>9, <1>t, <2>1 DEF Send, TypeOK, ClaimOf, Owing, Holding
  <2>6. ledger' = ledger /\ rules' = rules
    BY <1>9 DEF Send, database
  <2>7. ClaimOf(w)'
    BY <1>t, <2>1, <2>3, <2>4, <2>5, <2>6 DEF ClaimOf, Holding, Owing, Deleted, Verdicts
  <2>8. \A v \in Workers \ {w} :
          pc'[v] = pc[v] /\ alert'[v] = alert[v] /\ verdict'[v] = verdict[v] /\ work'[v] = work[v]
    BY <1>9, <1>t, <2>2 DEF Send, Goto, TypeOK
  <2>9. \A a \in Alerts : a # alert[w] => ledger'[a] = ledger[a] /\ calls'[a] = calls[a]
    BY <1>9, <1>t, <2>6 DEF Send, TypeOK
  <2> QED
    BY <1>t, <2>3, <2>6, <2>7, <2>8, <2>9, ClaimKept
<1>10. CASE ReadRow(w)
  <2>1. pc[w] = "read_row" /\ pc'[w] = "settle" /\ alert' = alert /\ verdict' = verdict
    BY <1>10, <1>t DEF ReadRow, Goto, TypeOK
  <2>2. PICK b : work' = [work EXCEPT ![w].found = b]
    BY <1>10 DEF ReadRow
  <2>3. work'[w].rule = work[w].rule
    <3>1. work[w] \in WorkTypes
      BY <1>t, SessionParts
    <3> QED
      BY <1>t, <2>2, <3>1 DEF TypeOK, WorkTypes
  <2>4. ledger' = ledger /\ calls' = calls /\ rules' = rules
    BY <1>10 DEF ReadRow, database, history
  <2>5. ClaimOf(w)'
    BY <1>t, <2>1, <2>3, <2>4 DEF ClaimOf, Holding, Owing, Deleted
  <2>6. \A v \in Workers \ {w} : pc'[v] = pc[v] /\ work'[v] = work[v]
    BY <1>10, <1>t, <2>2 DEF ReadRow, Goto, TypeOK
  <2> QED
    BY <1>t, <2>1, <2>4, <2>5, <2>6, ClaimKept
<1>11. CASE Settle(w)
  <2>1. pc'[w] = "dispatch" /\ alert'[w] = Null
    BY <1>11, <1>t DEF Settle, Goto, TypeOK
  <2>2. work[w].rule \in Snapshots
    BY <1>11, <1>t DEF Settle, ClaimOf, Holding
  <2>3. work'[w].rule = work[w].rule
    <3>1. work[w] \in WorkTypes
      BY <1>t, SessionParts
    <3> QED
      BY <1>11, <1>t, <3>1 DEF Settle, TypeOK, WorkTypes
  <2>4. ClaimOf(w)'
    BY <2>1, <2>2, <2>3 DEF ClaimOf, Holding
  <2>5. \A a \in Alerts : a # alert[w] => ledger'[a] = ledger[a] /\ calls'[a] = calls[a]
    BY <1>11, <1>t DEF Settle, TypeOK, history
  <2>6. \A v \in Workers \ {w} :
          pc'[v] = pc[v] /\ alert'[v] = alert[v] /\ verdict'[v] = verdict[v] /\ work'[v] = work[v]
    BY <1>11, <1>t DEF Settle, Goto, TypeOK
  <2> QED
    BY <1>11, <1>t, <2>1, <2>4, <2>5, <2>6, ClaimKept DEF Settle
<1>12. CASE SettleStale(w)
  BY <1>12, <1>t, EndPassClaim DEF SettleStale, database, history
<1>13. CASE SelectEvaluated(w)
  <2>1. pc'[w] = "mark" /\ alert'[w] = alert[w] /\ alert[w] = Null
    BY <1>13, <1>t DEF SelectEvaluated, Goto, TypeOK, ClaimOf, Holding
  <2>2. ClaimOf(w)'
    BY <2>1 DEF ClaimOf, Holding
  <2> QED
    BY <1>13, <1>t, <2>1, <2>2, ClaimKept DEF SelectEvaluated, Goto, TypeOK, database, history
<1>14. CASE MarkEvaluated(w)
  BY <1>14, <1>t, EndPassClaim DEF MarkEvaluated, history
<1>15. CASE Crash(w)
  BY <1>15, <1>t, EndPassClaim DEF Crash, database, history
<1> QED
  BY <1>1, <1>2, <1>3, <1>4, <1>5, <1>6, <1>7, <1>8, <1>9, <1>10, <1>11, <1>12, <1>13,
     <1>14, <1>15 DEF WorkerStep

(* Deleting a rule marks it and no other.                                  *)
LEMMA DeletedRule ==
  ASSUME TypeOK, NEW r \in Rules, DeletePreference(r)
  PROVE  Deleted(r)' /\ \A q \in Rules : q # r => rules'[q] = rules[q]
<1>1. rules' = [rules EXCEPT ![r] = [rules[r] EXCEPT !.phase = "deleted"]]
  BY DEF DeletePreference
<1>2. rules[r] \in [phase : Phases, is_enabled : BOOLEAN, form : RuleForms]
  BY DEF TypeOK
<1>3. DOMAIN rules = Rules
  BY DEF TypeOK
<1> QED
  BY <1>1, <1>2, <1>3 DEF Deleted

LEMMA EnvironmentClaim ==
  ASSUME EngineInv, Environment
  PROVE  ClaimInv'
<1>t. TypeOK /\ ClaimInv
  BY DEF EngineInv
<1>1. session' = session /\ calls' = calls
  BY DEF Environment, CreatePreference, UpdatePreference, DeletePreference, RegisterDevice,
         DeregisterDevice, SetUserActive, ScrapeIpo, Tick, Edit, history
<1>2. \A r \in Rules : Deleted(r) => Deleted(r)'
  <2>1. ASSUME NEW r \in Rules, NEW f \in RuleForms, NEW on \in BOOLEAN,
               CreatePreference(r, f, on) \/ UpdatePreference(r, f, on)
        PROVE  \A q \in Rules : Deleted(q) => Deleted(q)'
    BY <1>t, <2>1 DEF CreatePreference, UpdatePreference, Live, Deleted, TypeOK
  <2>2. ASSUME NEW r \in Rules, DeletePreference(r)
        PROVE  \A q \in Rules : Deleted(q) => Deleted(q)'
    BY <1>t, <2>2 DEF DeletePreference, Deleted, TypeOK
  <2> QED
    BY <2>1, <2>2 DEF Environment, RegisterDevice, DeregisterDevice, SetUserActive, ScrapeIpo,
                      Tick, database, Deleted
<1>3. \A a \in Alerts : ledger'[a] = ledger[a] \/ (ledger'[a] = "NONE" /\ Deleted(a.rule)')
  <2>1. ASSUME NEW r \in Rules, DeletePreference(r)
        PROVE  \A a \in Alerts : ledger'[a] = ledger[a] \/ (ledger'[a] = "NONE" /\ Deleted(a.rule)')
    BY <1>t, <2>1, DeletedRule DEF DeletePreference, Deleted
  <2>2. ledger' = ledger \/ \E r \in Rules : DeletePreference(r)
    BY DEF Environment, CreatePreference, UpdatePreference, RegisterDevice,
           DeregisterDevice, SetUserActive, ScrapeIpo, Tick, database
  <2> QED
    BY <2>1, <2>2 DEF Deleted
<1>4. ASSUME NEW w \in Workers
      PROVE  ClaimOf(w)'
  <2>1. ClaimOf(w)
    BY <1>t DEF ClaimInv
  <2>2. pc' = pc /\ work' = work /\ alert' = alert /\ verdict' = verdict
    BY <1>1 DEF session
  <2>3. pc[w] \in Holding =>
          \/ ledger'[alert[w]] = "PENDING"
          \/ ledger'[alert[w]] = "NONE" /\ Deleted(alert[w].rule)'
    <3> SUFFICES ASSUME pc[w] \in Holding
                 PROVE  \/ ledger'[alert[w]] = "PENDING"
                        \/ ledger'[alert[w]] = "NONE" /\ Deleted(alert[w].rule)'
      OBVIOUS
    <3> DEFINE a == alert[w]
    <3>1. a \in Alerts /\ (ledger[a] = "PENDING" \/ (ledger[a] = "NONE" /\ Deleted(a.rule)))
      BY <2>1 DEF ClaimOf
    <3>2. a.rule \in Rules
      BY <3>1 DEF Alerts
    <3>3. ledger'[a] = ledger[a] \/ (ledger'[a] = "NONE" /\ rules'[a.rule].phase = "deleted")
      BY <1>3, <3>1 DEF Deleted
    <3>4. Deleted(a.rule) => rules'[a.rule].phase = "deleted"
      BY <1>2, <3>2 DEF Deleted
    <3>5. Deleted(alert[w].rule)' <=> rules'[a.rule].phase = "deleted"
      BY <2>2 DEF Deleted
    <3> QED
      BY <3>1, <3>3, <3>4, <3>5
  <2> QED
    BY <1>1, <2>1, <2>2, <2>3 DEF ClaimOf, Owing
<1> QED
  BY <1>t, <1>1, <1>4 DEF ClaimInv, session

(***************************************************************************)
(* The rows.                                                               *)
(***************************************************************************)
LEMMA WorkerRows ==
  ASSUME EngineInv, TypeOK', NEW w \in Workers, WorkerStep(w) \/ Crash(w)
  PROVE  RowInv'
<1>t. TypeOK /\ ClaimOf(w) /\ RowInv /\ TypeOK'
  BY DEF EngineInv, ClaimInv
<1>1. CASE UNCHANGED <<rules, ledger, calls>>
  BY <1>1, <1>t DEF RowInv, Live, Deleted
<1>2. CASE ClaimWon(w)
  <2>1. PICK c \in work[w].candidates :
          /\ work[w].rule.id \in Live
          /\ ledger[AlertFor(w, c)] = "NONE"
          /\ ledger' = [ledger EXCEPT ![AlertFor(w, c)] = "PENDING"]
    BY <1>2 DEF ClaimWon
  <2> DEFINE a == AlertFor(w, c)
  <2>2. a \in Alerts /\ a.rule = work[w].rule.id
    BY <1>2, <1>t, AlertForType DEF ClaimWon, ClaimOf
  <2>3. rules' = rules /\ calls' = calls
    BY <1>2 DEF ClaimWon, history
  <2> HIDE DEF a
  <2>4. ledger'[a] = "PENDING" /\ \A b \in Alerts : b # a => ledger'[b] = ledger[b]
    BY <1>t, <2>1, <2>2 DEF TypeOK, a
  <2> QED
    BY <1>t, <2>1, <2>2, <2>3, <2>4 DEF RowInv, Live, Deleted
<1>3. CASE Send(w)
  <2>1. alert[w] \in Alerts /\ calls[alert[w]] = 0
    BY <1>3, <1>t DEF Send, ClaimOf, Holding, Owing
  <2>2. \/ ledger[alert[w]] = "PENDING"
        \/ ledger[alert[w]] = "NONE" /\ Deleted(alert[w].rule)
    BY <1>3, <1>t DEF Send, ClaimOf, Holding
  <2>3. rules' = rules /\ ledger' = ledger
    BY <1>3 DEF Send, database
  <2>4. calls'[alert[w]] = 1 /\ \A a \in Alerts : a # alert[w] => calls'[a] = calls[a]
    BY <1>3, <1>t, <2>1 DEF Send, TypeOK
  <2> QED
    BY <1>t, <2>1, <2>2, <2>3, <2>4 DEF RowInv, Live, Deleted
<1>4. CASE Settle(w)
  <2>1. alert[w] \in Alerts /\ verdict[w] \in Verdicts
    BY <1>4, <1>t DEF Settle, ClaimOf, Holding
  <2>2. calls[alert[w]] = IF verdict[w] = "SKIPPED" THEN 0 ELSE 1
    BY <1>4, <1>t DEF Settle, ClaimOf, Holding, Owing
  <2>3. rules' = rules /\ calls' = calls
    BY <1>4 DEF Settle, history
  <2>4. CASE ledger' = ledger
    BY <1>t, <2>3, <2>4 DEF RowInv, Live, Deleted
  <2>5. CASE /\ ledger[alert[w]] # "NONE"
             /\ ledger' = [ledger EXCEPT ![alert[w]] = verdict[w]]
    BY <1>t, <2>1, <2>2, <2>3, <2>5 DEF RowInv, Live, Deleted, Verdicts, TypeOK
  <2> QED
    BY <1>4, <2>4, <2>5 DEF Settle
<1> QED
  <2>1. \/ UNCHANGED <<rules, ledger, calls>>
        \/ ClaimWon(w) \/ Send(w) \/ Settle(w)
    BY DEF WorkerStep, LoadRules, LoadClosing, NextRule, RuleDone, ClaimDuplicate, ClaimRejected,
           ResolveTargets, ReadRow, SettleStale, SelectEvaluated, MarkEvaluated, Crash,
           database, history
  <2> QED
    BY <2>1, <1>1, <1>2, <1>3, <1>4, SMTT(30)

LEMMA EnvironmentRows ==
  ASSUME EngineInv, TypeOK', Environment
  PROVE  RowInv'
<1>t. TypeOK /\ RowInv
  BY DEF EngineInv
<1>1. ASSUME NEW r \in Rules, NEW f \in RuleForms, NEW on \in BOOLEAN,
             CreatePreference(r, f, on) \/ UpdatePreference(r, f, on)
      PROVE  RowInv'
  <2>1. \A q \in Rules : (q \in Live => q \in Live') /\ (Deleted(q) => Deleted(q)')
    <3>1. \A q \in Rules : q # r => rules'[q] = rules[q]
      BY <1>t, <1>1 DEF CreatePreference, UpdatePreference, TypeOK
    <3>2. rules[r].phase # "deleted"
      BY <1>1 DEF CreatePreference, UpdatePreference, Live
    <3>3. rules'[r].phase = "live"
      <4>1. CASE CreatePreference(r, f, on)
        BY <1>t, <4>1 DEF CreatePreference, TypeOK
      <4>2. CASE UpdatePreference(r, f, on)
        BY <1>t, <4>2 DEF UpdatePreference, Live, TypeOK
      <4> QED
        BY <1>1, <4>1, <4>2
    <3> QED
      BY <3>1, <3>2, <3>3 DEF Live, Deleted
  <2>2. ledger' = ledger /\ calls' = calls
    BY <1>1 DEF CreatePreference, UpdatePreference, Edit, history
  <2> QED
    BY <1>t, <2>1, <2>2 DEF RowInv, Alerts
<1>2. ASSUME NEW r \in Rules, DeletePreference(r)
      PROVE  RowInv'
  <2>1. /\ Deleted(r)'
        /\ \A q \in Rules : q # r => (q \in Live => q \in Live')
        /\ \A q \in Rules : q # r => (Deleted(q) => Deleted(q)')
    BY <1>t, <1>2, DeletedRule DEF Live, Deleted
  <2>2. ledger' = [a \in Alerts |-> IF a.rule = r THEN "NONE" ELSE ledger[a]] /\ calls' = calls
    BY <1>2 DEF DeletePreference, Edit, history
  <2> QED
    <3>1. \A a \in Alerts : a.rule \in Rules
      BY DEF Alerts
    <3>2. \A a \in Alerts : ledger'[a] = IF a.rule = r THEN "NONE" ELSE ledger[a]
      BY <2>2
    <3> SUFFICES ASSUME NEW a \in Alerts
                 PROVE  /\ calls[a] <= 1
                        /\ ledger'[a] \in {"SENT", "FAILED"} => calls[a] = 1
                        /\ ledger'[a] = "SKIPPED" => calls[a] = 0
                        /\ ledger'[a] = "NONE" /\ ~ Deleted(a.rule)' => calls[a] = 0
                        /\ ledger'[a] # "NONE" => a.rule \in Live'
      BY <2>2 DEF RowInv
    <3>3. CASE a.rule = r
      BY <1>t, <2>1, <3>2, <3>3 DEF RowInv, Deleted
    <3>4. CASE a.rule # r
      <4>1. Deleted(a.rule) => Deleted(a.rule)'
        BY <2>1, <3>1, <3>4 DEF Deleted
      <4>2. a.rule \in Live => a.rule \in Live'
        BY <2>1, <3>1, <3>4
      <4>3. ledger'[a] = ledger[a]
        BY <3>2, <3>4
      <4> QED
        BY <1>t, <4>1, <4>2, <4>3 DEF RowInv
    <3> QED
      BY <3>3, <3>4
<1>3. CASE UNCHANGED <<rules, ledger, calls>>
  BY <1>3, <1>t DEF RowInv, Live, Deleted
<1> QED
  BY <1>1, <1>2, <1>3 DEF Environment, RegisterDevice, DeregisterDevice, SetUserActive, ScrapeIpo,
                          Tick, Edit, database, history

(***************************************************************************)
(* The theorems.                                                           *)
(***************************************************************************)
LEMMA StepInv == EngineInv /\ [Next]_vars => EngineInv'
<1> SUFFICES ASSUME EngineInv, [Next]_vars PROVE EngineInv'
  OBVIOUS
<1>1. ASSUME NEW w \in Workers, WorkerStep(w) \/ Crash(w)
      PROVE  EngineInv'
  BY <1>1, WorkerTypes, WorkerClaim, WorkerRows DEF EngineInv
<1>2. CASE Environment
  BY <1>2, EnvironmentTypes, EnvironmentClaim, EnvironmentRows DEF EngineInv
<1>3. CASE UNCHANGED vars
  BY <1>3 DEF vars, database, session, history, bounds, EngineInv, TypeOK, ClaimInv, ClaimOf,
              RowInv, Live, Deleted, Owing
<1> QED
  BY <1>1, <1>2, <1>3 DEF Next

(* The invariant holds in every reachable state of every instance.         *)
THEOREM EngineInvariant == Spec => []EngineInv
BY InitInv, StepInv, PTL DEF Spec

(* Every variable keeps its type.                                          *)
THEOREM EngineTypes == Spec => []TypeOK
<1>1. EngineInv => TypeOK
  BY DEF EngineInv
<1> QED
  BY <1>1, EngineInvariant, PTL

(* However many workers evaluate the same rules at once, crash and restart, *)
(* the provider is called at most once for a rule, an IPO and a window: the *)
(* promise of the claim-before-send protocol of engine.py.                 *)
THEOREM NeverCalledTwice == Spec => []AtMostOneCall
<1>1. EngineInv => AtMostOneCall
  BY DEF EngineInv, RowInv, AtMostOneCall
<1> QED
  BY <1>1, EngineInvariant, PTL

(* What the delivery history shows a user of a call is what happened.      *)
THEOREM LedgerIsTruthful == Spec => []LedgerTellsTruth
<1>1. EngineInv => LedgerTellsTruth
  BY DEF EngineInv, RowInv, LedgerTellsTruth, Live, Deleted
<1> QED
  BY <1>1, EngineInvariant, PTL

(* A delivery never outlives its rule, whatever pass claims it.            *)
THEOREM NoOrphanRows == Spec => []RowsBelongToLiveRules
<1>1. EngineInv => RowsBelongToLiveRules
  BY DEF EngineInv, RowInv, RowsBelongToLiveRules
<1> QED
  BY <1>1, EngineInvariant, PTL

(***************************************************************************)
(* Losses.  An alert is lost as the worker that claimed it lets go of it   *)
(* while its row is PENDING.  A pass that settles either writes the row or *)
(* has found it gone, for good; one that ends early has no alert or one    *)
(* whose row is gone; so only a crash loses, and it loses one.             *)
(***************************************************************************)
GoneInv ==
  \A w \in Workers : pc[w] = "settle" /\ ~work[w].found => ledger[alert[w]] # "PENDING"

LossBound == IsFiniteSet(Lost) /\ Cardinality(Lost) <= crashes

\* What the steps of a worker do to its alert and the rows.
LEMMA StepsOfAlert ==
  ASSUME EngineInv, GoneInv, NEW w \in Workers, WorkerStep(w)
  PROVE  /\ \A v \in Workers \ {w} : /\ pc'[v] = pc[v] /\ alert'[v] = alert[v]
                                     /\ work'[v] = work[v]
         /\ UNCHANGED <<rules, crashes>>
         /\ \/ /\ alert' = alert /\ ledger' = ledger
               /\ pc'[w] = "settle" => (work'[w].found <=> ledger[alert[w]] # "NONE")
            \/ /\ pc'[w] # "settle" /\ ledger' = ledger /\ alert'[w] = Null
               /\ alert[w] = Null \/ ledger[alert[w]] # "PENDING"
            \/ /\ pc'[w] # "settle" /\ alert[w] = Null
               /\ \E a \in Alerts : /\ a.rule \in Live /\ ledger[a] = "NONE" /\ alert'[w] = a
                                    /\ ledger' = [ledger EXCEPT ![a] = "PENDING"]
            \/ /\ pc'[w] # "settle" /\ alert'[w] = Null /\ alert[w] \in Alerts
               /\ \E status \in Statuses \ {"PENDING"} :
                    \/ ledger' = [ledger EXCEPT ![alert[w]] = status]
                    \/ ledger' = ledger /\ ledger[alert[w]] = status
<1>t. TypeOK /\ ClaimOf(w)
  BY Zenon DEF EngineInv, ClaimInv
<1>o. /\ \A v \in Workers \ {w} : /\ pc'[v] = pc[v] /\ alert'[v] = alert[v]
                                  /\ work'[v] = work[v]
      /\ UNCHANGED <<rules, crashes>>
  BY <1>t, ZenonT(30) DEF WorkerStep, LoadRules, LoadClosing, NextRule, RuleDone, ClaimWon,
     ClaimDuplicate, ClaimRejected, ResolveTargets, Send, ReadRow, Settle, SettleStale,
     SelectEvaluated, MarkEvaluated, EndPass, Goto, TypeOK, database, bounds
<1>1. CASE \/ LoadRules(w) \/ LoadClosing(w) \/ NextRule(w) \/ RuleDone(w) \/ ClaimDuplicate(w)
           \/ ResolveTargets(w) \/ Send(w) \/ SelectEvaluated(w)
  <2>1. alert' = alert /\ ledger' = ledger
    BY <1>1, ZenonT(30) DEF LoadRules, LoadClosing, NextRule, RuleDone, ClaimDuplicate,
       ResolveTargets, Send, SelectEvaluated, database
  <2>2. pc'[w] # "settle"
    BY <1>1, <1>t DEF LoadRules, LoadClosing, NextRule, RuleDone, ClaimDuplicate, ResolveTargets,
       Send, SelectEvaluated, Goto, TypeOK
  <2> QED
    BY <1>o, <2>1, <2>2
<1>2. CASE ReadRow(w)
  <2>1. alert' = alert /\ ledger' = ledger
    BY <1>2 DEF ReadRow, database
  <2>2. work[w] \in WorkTypes
    BY <1>t DEF TypeOK
  <2>3. work'[w].found <=> ledger[alert[w]] # "NONE"
    BY <1>2, <1>t, <2>2 DEF ReadRow, TypeOK, WorkTypes
  <2> QED
    BY <1>o, <2>1, <2>3
<1>3. CASE ClaimRejected(w) \/ SettleStale(w) \/ MarkEvaluated(w)
  <2>1. pc'[w] # "settle" /\ alert'[w] = Null
    BY <1>3, <1>t DEF ClaimRejected, SettleStale, MarkEvaluated, EndPass, Goto, TypeOK
  <2>2. ledger' = ledger
    BY <1>3 DEF ClaimRejected, SettleStale, MarkEvaluated, database
  <2>3. alert[w] = Null \/ ledger[alert[w]] # "PENDING"
    BY <1>3, <1>t DEF ClaimRejected, SettleStale, MarkEvaluated, ClaimOf, Holding
  <2> QED
    BY <1>o, <2>1, <2>2, <2>3
<1>4. CASE ClaimWon(w)
  <2>1. pc'[w] # "settle" /\ alert[w] = Null /\ work[w].rule \in Snapshots
    BY <1>4, <1>t DEF ClaimWon, Goto, TypeOK, ClaimOf, Holding
  <2>2. PICK c \in work[w].candidates :
          /\ work[w].rule.id \in Live
          /\ ledger[AlertFor(w, c)] = "NONE"
          /\ ledger' = [ledger EXCEPT ![AlertFor(w, c)] = "PENDING"]
          /\ alert' = [alert EXCEPT ![w] = AlertFor(w, c)]
    BY <1>4 DEF ClaimWon
  <2>3. PICK a \in Alerts : a = AlertFor(w, c) /\ a.rule = work[w].rule.id
    BY <1>t, <2>1, AlertForType
  <2>4. /\ a.rule \in Live /\ ledger[a] = "NONE" /\ alert'[w] = a
        /\ ledger' = [ledger EXCEPT ![a] = "PENDING"]
    BY <1>t, <2>2, <2>3 DEF TypeOK
  <2> QED
    BY <1>o, <2>1, <2>4
<1>5. CASE Settle(w)
  <2>1. pc'[w] # "settle" /\ alert'[w] = Null /\ alert[w] \in Alerts /\ verdict[w] \in Verdicts
    BY <1>5, <1>t DEF Settle, Goto, TypeOK, ClaimOf, Holding
  <2>2. CASE work[w].found
    <3>1. ledger' = [ledger EXCEPT ![alert[w]] = verdict[w]]
      BY <1>5, <2>2 DEF Settle
    <3>2. verdict[w] \in Statuses \ {"PENDING"}
      BY <2>1 DEF Verdicts, Statuses
    <3> QED
      BY <1>o, <2>1, <3>1, <3>2
  <2>3. CASE ~work[w].found
    <3>1. ledger' = ledger /\ ledger[alert[w]] # "PENDING"
      BY <1>5, <2>3 DEF Settle, GoneInv
    <3>2. ledger[alert[w]] \in Statuses \ {"PENDING"}
      BY <1>t, <2>1, <3>1 DEF TypeOK
    <3> QED
      BY <1>o, <2>1, <3>1, <3>2
  <2> QED
    BY <2>2, <2>3
<1> QED
  BY <1>1, <1>2, <1>3, <1>4, <1>5 DEF WorkerStep

\* A worker that does not crash loses nothing.
LEMMA WorkersLoseNothing ==
  ASSUME EngineInv, GoneInv, NEW w \in Workers, WorkerStep(w)
  PROVE  GoneInv' /\ Lost' \subseteq Lost /\ crashes' = crashes
<1>t. /\ TypeOK /\ ClaimInv /\ RowInv
      /\ \A v \in Workers \ {w} : pc'[v] = pc[v] /\ alert'[v] = alert[v] /\ work'[v] = work[v]
      /\ UNCHANGED <<rules, crashes>>
  BY StepsOfAlert DEF EngineInv
<1>n. \A v \in Workers : alert[v] # Null => alert[v] \in Alerts
  BY <1>t DEF TypeOK
<1>s. \A v \in Workers : pc[v] = "settle" => alert[v] \in Alerts
  BY <1>t DEF ClaimInv, ClaimOf, Holding
<1>1. CASE /\ alert' = alert /\ ledger' = ledger
           /\ pc'[w] = "settle" => (work'[w].found <=> ledger[alert[w]] # "NONE")
  BY <1>t, <1>1 DEF GoneInv, Lost
<1>2. CASE /\ pc'[w] # "settle" /\ ledger' = ledger /\ alert'[w] = Null
           /\ alert[w] = Null \/ ledger[alert[w]] # "PENDING"
  <2>1. GoneInv'
    BY <1>t, <1>2 DEF GoneInv
  <2>2. ASSUME NEW a \in Lost' PROVE a \in Lost
    BY <1>t, <1>2, EngineAssumption DEF Lost
  <2> QED
    BY <1>t, <2>1, <2>2
<1>3. ASSUME pc'[w] # "settle", alert[w] = Null,
             NEW a \in Alerts, a.rule \in Live, ledger[a] = "NONE", alert'[w] = a,
             ledger' = [ledger EXCEPT ![a] = "PENDING"]
      PROVE  GoneInv' /\ Lost' \subseteq Lost
  <2>1. \A b \in Alerts : ledger'[b] = IF b = a THEN "PENDING" ELSE ledger[b]
    BY <1>t, <1>3 DEF TypeOK
  <2>2. ASSUME NEW v \in Workers \ {w}, pc[v] = "settle", ~work[v].found
        PROVE  ledger'[alert[v]] # "PENDING"
    <3>1. alert[v] \in Alerts /\ ledger[alert[v]] # "PENDING"
      BY <1>s, <2>2 DEF GoneInv
    <3>2. Deleted(alert[v].rule)
      BY <1>t, <2>2, <3>1 DEF ClaimInv, ClaimOf, Holding
    <3>3. alert[v] # a
      BY <1>3, <3>2 DEF Deleted, Live
    <3> QED
      BY <2>1, <3>1, <3>3
  <2>3. GoneInv'
    BY <1>t, <1>3, <2>2 DEF GoneInv
  <2>4. ASSUME NEW b \in Lost' PROVE b \in Lost
    <3>1. b \in Alerts /\ b # a /\ ledger[b] = "PENDING"
      BY <1>3, <2>1, <2>4 DEF Lost
    <3>2. \A v \in Workers : alert[v] # b
      BY <1>t, <1>3, <2>4, <3>1, EngineAssumption DEF Lost
    <3> QED
      BY <3>1, <3>2 DEF Lost
  <2> QED
    BY <2>3, <2>4
<1>4. ASSUME pc'[w] # "settle", alert'[w] = Null, alert[w] \in Alerts,
             NEW status \in Statuses \ {"PENDING"},
             \/ ledger' = [ledger EXCEPT ![alert[w]] = status]
             \/ ledger' = ledger /\ ledger[alert[w]] = status
      PROVE  GoneInv' /\ Lost' \subseteq Lost
  <2>1. \A b \in Alerts : ledger'[b] = IF b = alert[w] THEN status ELSE ledger[b]
    BY <1>t, <1>4 DEF TypeOK
  <2>2. GoneInv'
    BY <1>t, <1>s, <1>4, <2>1 DEF GoneInv
  <2>3. ASSUME NEW b \in Lost' PROVE b \in Lost
    <3>1. b \in Alerts /\ b # alert[w] /\ ledger[b] = "PENDING"
      BY <1>4, <2>1, <2>3 DEF Lost
    <3>2. \A v \in Workers : alert[v] # b
      BY <1>t, <2>3, <3>1 DEF Lost
    <3> QED
      BY <3>1, <3>2 DEF Lost
  <2> QED
    BY <2>2, <2>3
<1> QED
  BY <1>t, <1>1, <1>2, <1>3, <1>4, StepsOfAlert

\* Whoever edits what loses nothing.
LEMMA EditsLoseNothing ==
  ASSUME EngineInv, GoneInv, Environment
  PROVE  GoneInv' /\ Lost' \subseteq Lost /\ crashes' = crashes
<1>t. TypeOK /\ ClaimInv
  BY DEF EngineInv
<1>1. session' = session /\ crashes' = crashes
  BY DEF Environment, CreatePreference, UpdatePreference, DeletePreference, RegisterDevice,
     DeregisterDevice, SetUserActive, ScrapeIpo, Tick, Edit, bounds
<1>2. \A a \in Alerts : ledger'[a] \in {ledger[a], "NONE"}
  BY <1>t DEF Environment, CreatePreference, UpdatePreference, DeletePreference, RegisterDevice,
     DeregisterDevice, SetUserActive, ScrapeIpo, Tick, database
<1>3. \A v \in Workers : pc[v] = "settle" => alert[v] \in Alerts
  BY <1>t DEF ClaimInv, ClaimOf, Holding
<1>4. GoneInv'
  BY <1>1, <1>2, <1>3 DEF GoneInv, session
<1>5. Lost' \subseteq Lost
  BY <1>1, <1>2 DEF Lost, session
<1> QED
  BY <1>1, <1>4, <1>5

\* A crash loses the alert of its worker, if it had one.
LEMMA CrashLosesOne ==
  ASSUME EngineInv, GoneInv, NEW w \in Workers, Crash(w)
  PROVE  GoneInv' /\ Lost' \subseteq Lost \cup {alert[w]} /\ crashes' = crashes + 1
<1>t. TypeOK
  BY DEF EngineInv
<1>1. /\ pc'[w] = "idle" /\ crashes' = crashes + 1 /\ ledger' = ledger
      /\ \A v \in Workers \ {w} : pc'[v] = pc[v] /\ alert'[v] = alert[v] /\ work'[v] = work[v]
  BY <1>t DEF Crash, EndPass, Goto, TypeOK, database
<1>2. GoneInv'
  BY <1>1 DEF GoneInv
<1>3. Lost' \subseteq Lost \cup {alert[w]}
  BY <1>1 DEF Lost
<1> QED
  BY <1>1, <1>2, <1>3

LEMMA LossStep == EngineInv /\ GoneInv /\ LossBound /\ [Next]_vars => GoneInv' /\ LossBound'
<1> SUFFICES ASSUME EngineInv, GoneInv, LossBound, [Next]_vars PROVE GoneInv' /\ LossBound'
  OBVIOUS
<1>1. ASSUME Lost' \subseteq Lost, crashes' = crashes PROVE LossBound'
  <2>1. IsFiniteSet(Lost') /\ Cardinality(Lost') <= Cardinality(Lost)
    BY <1>1, FS_Subset DEF LossBound
  <2>2. Cardinality(Lost) \in Nat /\ Cardinality(Lost') \in Nat /\ crashes \in Nat
    BY <2>1, FS_CardinalityType DEF LossBound, EngineInv, TypeOK
  <2> QED
    BY <1>1, <2>1, <2>2 DEF LossBound
<1>2. ASSUME NEW a, Lost' \subseteq Lost \cup {a}, crashes' = crashes + 1 PROVE LossBound'
  <2>1. /\ IsFiniteSet(Lost \cup {a})
        /\ Cardinality(Lost \cup {a}) = IF a \in Lost THEN Cardinality(Lost) ELSE Cardinality(Lost) + 1
    BY FS_AddElement DEF LossBound
  <2>2. IsFiniteSet(Lost') /\ Cardinality(Lost') <= Cardinality(Lost \cup {a})
    BY <1>2, <2>1, FS_Subset
  <2>3. Cardinality(Lost) \in Nat /\ Cardinality(Lost') \in Nat /\ crashes \in Nat
    BY <2>2, FS_CardinalityType DEF LossBound, EngineInv, TypeOK
  <2> QED
    BY <1>2, <2>1, <2>2, <2>3 DEF LossBound
<1>3. CASE UNCHANGED vars
  <2>1. GoneInv' /\ Lost' \subseteq Lost /\ crashes' = crashes
    BY <1>3 DEF vars, database, session, bounds, GoneInv, Lost
  <2> QED
    BY <1>1, <2>1
<1>4. ASSUME NEW w \in Workers, Crash(w) PROVE GoneInv' /\ LossBound'
  <2>1. PICK a : a = alert[w]
    OBVIOUS
  <2> QED
    BY <1>2, <1>4, <2>1, CrashLosesOne
<1> QED
  BY <1>1, <1>3, <1>4, WorkersLoseNothing, EditsLoseNothing DEF Next

(* No more alerts are lost for good than passes crashed: errors of the     *)
(* provider, passes that end early and deletions lose none.                *)
THEOREM CrashesLoseOneEach == Spec => []OneLossPerCrash
<1>1. Init => GoneInv /\ LossBound
  <2> SUFFICES ASSUME Init PROVE GoneInv /\ LossBound
    OBVIOUS
  <2>1. GoneInv /\ Lost = {} /\ crashes = 0
    BY DEF Init, GoneInv, Lost
  <2> QED
    BY <2>1, FS_EmptySet DEF LossBound
<1>2. LossBound => OneLossPerCrash
  BY DEF LossBound, OneLossPerCrash
<1> QED
  BY <1>1, <1>2, InitInv, StepInv, LossStep, PTL DEF Spec

(***************************************************************************)
(* The engine implements the abstract ledger of AlertLedger: under the     *)
(* refinement mapping of NotificationEngine every step of a worker, of the *)
(* API, of an operator or of a scrape is a step of the ledger or leaves it *)
(* alone.                                                                  *)
(***************************************************************************)

(* A step of w alone changes what is owed by what w owes.                  *)
LEMMA OwedUpdate ==
  ASSUME ClaimInv, NEW w \in Workers,
         \A v \in Workers \ {w} :
            pc'[v] = pc[v] /\ alert'[v] = alert[v] /\ verdict'[v] = verdict[v]
  PROVE  /\ Owing(w) /\ Owing(w)' /\ alert'[w] = alert[w] => OwedAlerts' = OwedAlerts
         /\ ~ Owing(w) /\ ~ Owing(w)' => OwedAlerts' = OwedAlerts
         /\ ~ Owing(w) /\ Owing(w)' => OwedAlerts' = OwedAlerts \cup {alert'[w]}
         /\ Owing(w) /\ ~ Owing(w)' =>
              alert[w] \in OwedAlerts /\ OwedAlerts' = OwedAlerts \ {alert[w]}
<1> DEFINE Others == {alert[v] : v \in {v \in Workers \ {w} : Owing(v)}}
<1>1. \A v \in Workers \ {w} : Owing(v)' <=> Owing(v)
  BY DEF Owing
<1>2. OwedAlerts = IF Owing(w) THEN Others \cup {alert[w]} ELSE Others
  BY DEF OwedAlerts
<1>3. OwedAlerts' = IF Owing(w)' THEN Others \cup {alert'[w]} ELSE Others
  <2>1. OwedAlerts' = {alert'[v] : v \in {v \in Workers : Owing(v)'}}
    BY DEF OwedAlerts
  <2> QED
    BY <1>1, <2>1
<1>4. Owing(w) => alert[w] \notin Others
  <2> SUFFICES ASSUME Owing(w), NEW v \in Workers \ {w}, Owing(v), alert[v] = alert[w]
               PROVE  FALSE
    OBVIOUS
  <2>1. alert[v] \in Alerts
    BY DEF ClaimInv, ClaimOf, Owing, Holding
  <2> QED
    BY <2>1 DEF ClaimInv
<1> QED
  BY <1>2, <1>3, <1>4

(* The status the ledger shows is the row, until the rule is deleted.      *)
LEMMA StatusKept ==
  ASSUME UNCHANGED <<rules, ledger>>
  PROVE  AlertStatus' = AlertStatus
BY DEF AlertStatus

LEMMA InitRefines == Init => L!Init
<1> SUFFICES ASSUME Init PROVE L!Init
  OBVIOUS
<1>1. \A a \in Alerts : rules[a.rule].phase # "deleted"
  BY DEF Init, Alerts
<1>2. AlertStatus = [a \in Alerts |-> "NONE"]
  BY <1>1 DEF AlertStatus, Init
<1>3. OwedAlerts = {}
  BY DEF OwedAlerts, Owing, Init
<1> QED
  BY <1>2, <1>3 DEF L!Init, Init

(* A pass that ends early drops the alert it owes, or drops nothing.       *)
LEMMA EndPassRefines ==
  ASSUME EngineInv, NEW w \in Workers, EndPass(w), UNCHANGED <<rules, ledger, calls>>
  PROVE  [L!Next]_L!ledgerVars
<1>t. TypeOK /\ ClaimInv /\ ClaimOf(w)
  BY DEF EngineInv, ClaimInv
<1>1. AlertStatus' = AlertStatus /\ calls' = calls
  BY StatusKept
<1>2. pc'[w] = "idle"
  BY <1>t DEF EndPass, Goto, TypeOK
<1>3. ~ Owing(w)'
  BY <1>2 DEF Owing
<1>4. \A v \in Workers \ {w} : pc'[v] = pc[v] /\ alert'[v] = alert[v] /\ verdict'[v] = verdict[v]
  BY <1>t DEF EndPass, Goto, TypeOK
<1>5. CASE Owing(w)
  <2>1. alert[w] \in Alerts
    BY <1>t, <1>5 DEF ClaimOf, Owing, Holding
  <2>2. L!Lose(alert[w])
    BY <1>t, <1>1, <1>3, <1>4, <1>5, OwedUpdate DEF L!Lose
  <2> QED
    BY <2>1, <2>2 DEF L!Next
<1>6. CASE ~ Owing(w)
  BY <1>t, <1>1, <1>3, <1>4, <1>6, OwedUpdate DEF L!ledgerVars
<1> QED
  BY <1>5, <1>6

(* A step within a pass that owes as much after as before and writes no    *)
(* row changes nothing the ledger knows.                                   *)
LEMMA QuietStepRefines ==
  ASSUME EngineInv, NEW w \in Workers, UNCHANGED <<rules, ledger, calls, alert>>,
         \A v \in Workers \ {w} : pc'[v] = pc[v] /\ verdict'[v] = verdict[v],
         Owing(w)' <=> Owing(w)
  PROVE  [L!Next]_L!ledgerVars
<1>1. OwedAlerts' = OwedAlerts
  BY OwedUpdate DEF EngineInv
<1> QED
  BY <1>1, StatusKept DEF L!ledgerVars

LEMMA WorkerRefines ==
  ASSUME EngineInv, NEW w \in Workers, WorkerStep(w) \/ Crash(w)
  PROVE  [L!Next]_L!ledgerVars
<1>t. TypeOK /\ ClaimInv /\ RowInv /\ ClaimOf(w)
  BY DEF EngineInv, ClaimInv
<1>1. CASE LoadRules(w)
  <2>1. pc[w] = "idle" /\ pc'[w] = "load_ipos"
    BY <1>1, <1>t DEF LoadRules, Goto, TypeOK
  <2> QED
    BY <1>1, <1>t, <2>1, QuietStepRefines DEF LoadRules, Goto, TypeOK, Owing, database, history
<1>2. CASE LoadClosing(w)
  <2>1. pc[w] = "load_ipos" /\ pc'[w] = "next_rule"
    BY <1>2, <1>t DEF LoadClosing, Goto, TypeOK
  <2> QED
    BY <1>2, <1>t, <2>1, QuietStepRefines DEF LoadClosing, Goto, TypeOK, Owing, database, history
<1>3. CASE NextRule(w)
  <2>1. pc[w] = "next_rule" /\ pc'[w] = "dispatch"
    BY <1>3, <1>t DEF NextRule, Goto, TypeOK
  <2> QED
    BY <1>3, <1>t, <2>1, QuietStepRefines DEF NextRule, Goto, TypeOK, Owing, database, history
<1>4. CASE RuleDone(w)
  <2>1. pc[w] = "dispatch" /\ pc'[w] = "next_rule"
    BY <1>4, <1>t DEF RuleDone, Goto, TypeOK
  <2> QED
    BY <1>4, <1>t, <2>1, QuietStepRefines DEF RuleDone, Goto, TypeOK, Owing, database, history
<1>5. CASE ClaimWon(w)
  <2>1. PICK c \in work[w].candidates :
          /\ work[w].rule.id \in Live
          /\ ledger[AlertFor(w, c)] = "NONE"
          /\ ledger' = [ledger EXCEPT ![AlertFor(w, c)] = "PENDING"]
          /\ alert' = [alert EXCEPT ![w] = AlertFor(w, c)]
    BY <1>5 DEF ClaimWon
  <2> DEFINE a == AlertFor(w, c)
  <2>2. a \in Alerts /\ a.rule = work[w].rule.id
    BY <1>5, <1>t, AlertForType DEF ClaimWon, ClaimOf
  <2>3. rules' = rules /\ calls' = calls
    BY <1>5 DEF ClaimWon, history
  <2>4. ~ Owing(w) /\ Owing(w)' /\ alert'[w] = a
    BY <1>5, <1>t, <2>1 DEF ClaimWon, Goto, TypeOK, Owing
  <2>5. \A v \in Workers \ {w} : pc'[v] = pc[v] /\ alert'[v] = alert[v] /\ verdict'[v] = verdict[v]
    BY <1>5, <1>t, <2>1 DEF ClaimWon, Goto, TypeOK
  <2>6. rules[a.rule].phase = "live"
    BY <2>1, <2>2 DEF Live
  <2>7. ledger[a] = "NONE" /\ ledger' = [ledger EXCEPT ![a] = "PENDING"]
    BY <2>1
  <2> HIDE DEF a
  <2>8. AlertStatus[a] = "NONE" /\ AlertStatus' = [AlertStatus EXCEPT ![a] = "PENDING"]
    BY <1>t, <2>2, <2>3, <2>6, <2>7 DEF AlertStatus, TypeOK
  <2>9. OwedAlerts' = OwedAlerts \cup {a}
    BY <1>t, <2>4, <2>5, OwedUpdate
  <2>10. L!Claim(a)
    BY <2>3, <2>8, <2>9 DEF L!Claim
  <2> QED
    BY <2>2, <2>10 DEF L!Next
<1>6. CASE ClaimDuplicate(w)
  <2>1. UNCHANGED <<rules, ledger, calls, alert, pc, verdict>>
    BY <1>6 DEF ClaimDuplicate, database, history
  <2> QED
    BY <2>1, QuietStepRefines DEF Owing
<1>7. CASE ClaimRejected(w)
  BY <1>7, EndPassRefines DEF ClaimRejected, database, history
<1>8. CASE ResolveTargets(w)
  <2>1. UNCHANGED <<rules, ledger, calls, alert>> /\ pc[w] = "targets"
    BY <1>8 DEF ResolveTargets, database, history
  <2>2. pc'[w] = "send" \/ (pc'[w] = "read_row" /\ verdict'[w] = "SKIPPED")
    BY <1>8, <1>t DEF ResolveTargets, Goto, TypeOK
  <2>3. \A v \in Workers \ {w} : pc'[v] = pc[v] /\ verdict'[v] = verdict[v]
    BY <1>8, <1>t DEF ResolveTargets, Goto, TypeOK
  <2>4. Owing(w) /\ Owing(w)'
    BY <2>1, <2>2 DEF Owing
  <2> QED
    BY <2>1, <2>3, <2>4, QuietStepRefines
<1>9. CASE Send(w)
  <2>1. alert[w] \in Alerts /\ pc[w] = "send"
    BY <1>9, <1>t DEF Send, ClaimOf, Holding
  <2>2. pc'[w] = "read_row" /\ verdict'[w] \in {"SENT", "FAILED"}
    BY <1>9, <1>t DEF Send, Goto, TypeOK
  <2>3. UNCHANGED <<rules, ledger, alert>>
    BY <1>9 DEF Send, database
  <2>4. Owing(w) /\ ~ Owing(w)'
    BY <2>1, <2>2 DEF Owing
  <2>5. \A v \in Workers \ {w} : pc'[v] = pc[v] /\ alert'[v] = alert[v] /\ verdict'[v] = verdict[v]
    BY <1>9, <1>t, <2>3 DEF Send, Goto, TypeOK
  <2>6. alert[w] \in OwedAlerts /\ OwedAlerts' = OwedAlerts \ {alert[w]}
    BY <1>t, <2>4, <2>5, OwedUpdate
  <2>7. L!Call(alert[w])
    BY <1>9, <2>3, <2>6, StatusKept DEF L!Call, Send
  <2> QED
    BY <2>1, <2>7 DEF L!Next
<1>10. CASE ReadRow(w)
  <2>1. UNCHANGED <<rules, ledger, calls, alert, verdict>>
    BY <1>10 DEF ReadRow, database, history
  <2>2. pc[w] = "read_row" /\ pc'[w] = "settle" /\ \A v \in Workers \ {w} : pc'[v] = pc[v]
    BY <1>10, <1>t DEF ReadRow, Goto, TypeOK
  <2>3. Owing(w)' <=> Owing(w)
    BY <2>1, <2>2 DEF Owing
  <2> QED
    BY <2>1, <2>2, <2>3, QuietStepRefines
<1>11. CASE Settle(w)
  <2> DEFINE a == alert[w]
  <2>1. a \in Alerts /\ verdict[w] \in Verdicts /\ pc[w] = "settle"
    BY <1>11, <1>t DEF Settle, ClaimOf, Holding
  <2>2. Owing(w) <=> verdict[w] = "SKIPPED"
    BY <2>1 DEF Owing
  <2>3. pc'[w] = "dispatch"
    BY <1>11, <1>t DEF Settle, Goto, TypeOK
  <2>4. ~ Owing(w)'
    BY <2>3 DEF Owing
  <2>5. rules' = rules /\ calls' = calls
    BY <1>11 DEF Settle, history
  <2>6. \A v \in Workers \ {w} : pc'[v] = pc[v] /\ alert'[v] = alert[v] /\ verdict'[v] = verdict[v]
    BY <1>11, <1>t DEF Settle, Goto, TypeOK
  <2>7. /\ Owing(w) => a \in OwedAlerts /\ OwedAlerts' = OwedAlerts \ {a}
        /\ ~ Owing(w) => OwedAlerts' = OwedAlerts
    BY <1>t, <2>4, <2>6, OwedUpdate
  <2>8. ~ Owing(w) => a \notin OwedAlerts
    BY <1>t, <2>1 DEF OwedAlerts, ClaimInv
  <2>9. calls[a] = IF Owing(w) THEN 0 ELSE 1
    BY <1>t, <2>1 DEF ClaimOf, Holding
  <2>10. CASE ledger' = ledger
    <3>1. AlertStatus' = AlertStatus
      BY <2>5, <2>10, StatusKept
    <3>2. CASE Owing(w)
      <4>1. L!Lose(a)
        BY <2>5, <2>7, <3>1, <3>2 DEF L!Lose
      <4> QED
        BY <2>1, <4>1 DEF L!Next
    <3>3. CASE ~ Owing(w)
      BY <2>5, <2>7, <3>1, <3>3 DEF L!ledgerVars
    <3> QED
      BY <3>2, <3>3
  <2>11. CASE ledger[a] # "NONE" /\ ledger' = [ledger EXCEPT ![a] = verdict[w]]
    <3>1. ledger[a] = "PENDING"
      BY <1>t, <2>1, <2>11 DEF ClaimOf, Holding
    <3>2. rules[a.rule].phase = "live"
      BY <1>t, <2>1, <2>11 DEF RowInv, Live
    <3> HIDE DEF a
    <3>3. AlertStatus[a] = "PENDING" /\ AlertStatus' = [AlertStatus EXCEPT ![a] = verdict[w]]
      BY <1>t, <2>1, <2>5, <2>11, <3>1, <3>2 DEF AlertStatus, TypeOK
    <3>4. CASE verdict[w] = "SKIPPED"
      <4>1. L!Skip(a)
        BY <2>2, <2>5, <2>7, <3>3, <3>4 DEF L!Skip
      <4> QED
        BY <2>1, <4>1 DEF L!Next
    <3>5. CASE verdict[w] \in {"SENT", "FAILED"}
      <4>1. ~ Owing(w)
        BY <2>2, <3>5
      <4>2. L!Settle(a)
        BY <2>5, <2>7, <2>8, <2>9, <3>3, <3>5, <4>1 DEF L!Settle
      <4> QED
        BY <2>1, <4>2 DEF L!Next
    <3> QED
      BY <2>1, <3>4, <3>5 DEF Verdicts
  <2> QED
    BY <1>11, <2>10, <2>11 DEF Settle
<1>12. CASE SettleStale(w)
  BY <1>12, EndPassRefines DEF SettleStale, database, history
<1>13. CASE SelectEvaluated(w)
  <2>1. pc[w] = "next_rule" /\ pc'[w] = "mark"
    BY <1>13, <1>t DEF SelectEvaluated, Goto, TypeOK
  <2> QED
    BY <1>13, <1>t, <2>1, QuietStepRefines DEF SelectEvaluated, Goto, TypeOK, Owing, database, history
<1>14. CASE MarkEvaluated(w)
  BY <1>14, EndPassRefines DEF MarkEvaluated, history
<1>15. CASE Crash(w)
  BY <1>15, EndPassRefines DEF Crash, database, history
<1> QED
  BY <1>1, <1>2, <1>3, <1>4, <1>5, <1>6, <1>7, <1>8, <1>9, <1>10, <1>11, <1>12, <1>13,
     <1>14, <1>15 DEF WorkerStep

(* An edit of the API is invisible to the ledger, unless it deletes a rule. *)
LEMMA EnvironmentRefines ==
  ASSUME EngineInv, Environment
  PROVE  [L!Next]_L!ledgerVars
<1>t. TypeOK
  BY DEF EngineInv
<1>1. session' = session /\ calls' = calls
  BY DEF Environment, CreatePreference, UpdatePreference, DeletePreference, RegisterDevice,
         DeregisterDevice, SetUserActive, ScrapeIpo, Tick, Edit, history
<1>2. OwedAlerts' = OwedAlerts
  BY <1>1 DEF session, OwedAlerts, Owing
<1>3. ASSUME NEW r \in Rules, NEW f \in RuleForms, NEW on \in BOOLEAN,
             CreatePreference(r, f, on) \/ UpdatePreference(r, f, on)
      PROVE  AlertStatus' = AlertStatus
  <2>1. \A q \in Rules : q # r => rules'[q] = rules[q]
    BY <1>t, <1>3 DEF CreatePreference, UpdatePreference, TypeOK
  <2>2. rules[r].phase # "deleted" /\ rules'[r].phase # "deleted"
    <3>1. CASE CreatePreference(r, f, on)
      BY <1>t, <3>1 DEF CreatePreference, TypeOK
    <3>2. CASE UpdatePreference(r, f, on)
      BY <1>t, <3>2 DEF UpdatePreference, Live, TypeOK
    <3> QED
      BY <1>3, <3>1, <3>2
  <2>3. \A a \in Alerts : rules'[a.rule].phase = "deleted" <=> rules[a.rule].phase = "deleted"
    BY <2>1, <2>2 DEF Alerts
  <2>4. ledger' = ledger
    BY <1>3 DEF CreatePreference, UpdatePreference
  <2> QED
    BY <2>3, <2>4 DEF AlertStatus
<1>4. ASSUME NEW r \in Rules, DeletePreference(r)
      PROVE  \E A \in SUBSET Alerts : L!Forget(A)
  <2> DEFINE A == {a \in Alerts : a.rule = r}
  <2>1. rules'[r].phase = "deleted" /\ \A q \in Rules : q # r => rules'[q] = rules[q]
    BY <1>t, <1>4, DeletedRule DEF Deleted
  <2>2. \A a \in Alerts : a.rule \in Rules
    BY DEF Alerts
  <2>3. \A a \in Alerts : ledger'[a] = IF a.rule = r THEN "NONE" ELSE ledger[a]
    BY <1>4 DEF DeletePreference
  <2>4. AlertStatus' = [a \in Alerts |-> IF a \in A THEN "FORGOTTEN" ELSE AlertStatus[a]]
    BY <2>1, <2>2, <2>3 DEF AlertStatus
  <2>5. L!Forget(A)
    BY <1>1, <1>2, <2>4 DEF L!Forget
  <2> QED
    BY <2>5
<1>5. \/ UNCHANGED <<rules, ledger>>
      \/ \E r \in Rules : DeletePreference(r)
      \/ \E r \in Rules, f \in RuleForms, on \in BOOLEAN :
           CreatePreference(r, f, on) \/ UpdatePreference(r, f, on)
  BY DEF Environment, RegisterDevice, DeregisterDevice, SetUserActive, ScrapeIpo, Tick, database
<1>6. CASE \E r \in Rules : DeletePreference(r)
  BY <1>4, <1>6 DEF L!Next
<1>7. CASE AlertStatus' = AlertStatus
  BY <1>1, <1>2, <1>7 DEF L!ledgerVars
<1> QED
  BY <1>3, <1>5, <1>6, <1>7, StatusKept

(* The detailed engine implements the abstract ledger: every alert is      *)
(* claimed once, called for at most once by the winner of its claim, and   *)
(* settled once, and a crash or an aborted pass can only lose it.          *)
THEOREM EngineImplementsLedger == Spec => ImplementsLedger
<1>1. EngineInv /\ [Next]_vars => [L!Next]_L!ledgerVars
  <2> SUFFICES ASSUME EngineInv, [Next]_vars PROVE [L!Next]_L!ledgerVars
    OBVIOUS
  <2>1. CASE UNCHANGED vars
    BY <2>1 DEF vars, database, session, history, AlertStatus, OwedAlerts, Owing, L!ledgerVars
  <2> QED
    BY <2>1, WorkerRefines, EnvironmentRefines DEF Next
<1> QED
  BY <1>1, InitRefines, EngineInvariant, PTL DEF Spec, ImplementsLedger, L!Spec
=============================================================================
