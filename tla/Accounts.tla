------------------------------ MODULE Accounts ------------------------------
(***************************************************************************)
(* The requests that write users and devices: sign-up, login, profile      *)
(* update, device registration and deregistration, and the worker's pass   *)
(* that retires a token.  Each makes one to three reads and at most one    *)
(* write at READ COMMITTED: statements of different requests interleave,   *)
(* a write waits for the uncommitted writes it collides with.              *)
(*                                                                         *)
(* db holds the committed rows: a user's by its id, a device's by its      *)
(* token.  The identity map of a session keeps the values of the first     *)
(* load, and an UPDATE names only the columns that differ from them.       *)
(***************************************************************************)
EXTENDS Integers, Sequences, FiniteSets

CONSTANTS
  Requests,    \* a sign-up's account takes its request's name as its id
  Users,       \* the accounts at the start: id -> row
  Devices,     \* the devices at the start: token -> row
  Scenarios,   \* the calls of the requests: request -> call
  Closable,    \* the accounts an operator may close
  None

\* Numbers and addresses are stored normalized and are unique.  A device's
\* token is no account's id: they are keys of two tables.
ASSUME AccountsAssumption ==
  /\ \A u \in DOMAIN Users :
       /\ DOMAIN Users[u] = {"phone", "email", "active", "password"}
       /\ Users[u].phone = [country |-> Users[u].phone.country, line |-> Users[u].phone.line]
       /\ Users[u].phone.country \notin {"", "0"}
       /\ Users[u].email # None => Users[u].email = [name |-> Users[u].email.name, upper |-> FALSE]
  /\ \A u, v \in DOMAIN Users :
       u # v => Users[u].phone # Users[v].phone /\ (Users[u].email = Users[v].email => Users[u].email = None)
  /\ \A t \in DOMAIN Devices : DOMAIN Devices[t] = {"owner", "active", "gone"}
  /\ \A calls \in Scenarios : \A r \in Requests :
       /\ calls[r].op \in {"register", "login", "update_me", "device", "deregister", "retire"}
       /\ calls[r].op \in {"device", "deregister", "retire"} =>
            calls[r].token \notin DOMAIN Users \union Requests \union {None}
       /\ calls[r].op = "retire" => calls[r].owners \subseteq DOMAIN Users
  /\ DOMAIN Devices \intersect (DOMAIN Users \union Requests) = {}
  /\ DOMAIN Users \intersect Requests = {}
  /\ None \notin DOMAIN Users \union Requests \union DOMAIN Devices

VARIABLES
  db,
  req,         \* request -> its step, call, loaded rows, planned and open write, answer
  current,     \* history: retirements that no registration has cancelled
  faults       \* connections lost so far

accountVars == <<db, req, current, faults>>

Empty == [k \in {} |-> None]

\* No write is open.
Closed == [key |-> None, cols |-> Empty]

AccountsInit ==
  /\ db = [k \in DOMAIN Users \union DOMAIN Devices |->
             IF k \in DOMAIN Users THEN Users[k] ELSE Devices[k]]
  /\ \E calls \in Scenarios :
       req = [r \in Requests |->
              [step |-> "idle", call |-> calls[r], seen |-> Empty, plan |-> None,
               write |-> Closed, answer |-> 0, refused |-> 0, until |-> 0]]
  /\ current = {}
  /\ faults = 0

-----------------------------------------------------------------------------
\* Numbers and passwords.  A number as typed is [prefix, line]: a line of the
\* default region may be typed bare, after a trunk 0 or after the country code.
Region == "IN"

\* The text as it was typed.
as_typed(typed) ==
  IF typed.line = None THEN None ELSE [country |-> typed.prefix, line |-> typed.line]

normalize_phone_number(typed) ==
  IF typed.line = None THEN None
  ELSE [country |-> IF typed.prefix \in {"", "0"} THEN Region ELSE typed.prefix, line |-> typed.line]

StrongEnough(password) == password # "short"

hash_password(password) == [of |-> password, params |-> "current"]
verify_password(password, hashed) == hashed.of = password

\* lower(): the addresses of the model are [name, upper].
lower(email) == IF email = None THEN None ELSE [name |-> email.name, upper |-> FALSE]

-----------------------------------------------------------------------------
\* Rows.
IsUser(row) == "phone" \in DOMAIN row
UserIds == {k \in DOMAIN db : IsUser(db[k])}

\* The unique values a row or a set of assigned columns holds.
Unique(cols) ==
  {<<f, cols[f]>> : f \in {"phone", "email"} \intersect DOMAIN cols} \ {<<"email", None>>}

Over(cols, row) ==
  [f \in DOMAIN row \union DOMAIN cols |-> IF f \in DOMAIN cols THEN cols[f] ELSE row[f]]

\* What an open write keeps others from: its row, the unique values it takes
\* and those it gives up.
Held(r) ==
  LET w == req[r].write
  IN  {<<"row", w.key>>} \union Unique(w.cols)
      \union (IF w.key \in DOMAIN db
              THEN Unique([f \in DOMAIN w.cols |-> db[w.key][f]]) ELSE {})

Open(r) == req[r].write.key # None

Blocked(r, key, cols) ==
  \E o \in Requests \ {r} : Open(o) /\ Held(o) \intersect ({<<"row", key>>} \union Unique(cols)) # {}

\* A unique constraint of the committed rows refuses the write.
Clash(key, cols, insert) ==
  \/ insert /\ key \in DOMAIN db
  \/ \E k \in DOMAIN db \ {key} : Unique(db[k]) \intersect Unique(cols) # {}

\* SELECT: a row already in the session keeps its first values.
Load(r, keys) ==
  [k \in DOMAIN req[r].seen \union keys |-> IF k \in DOMAIN req[r].seen THEN req[r].seen[k] ELSE db[k]]

\* The columns of an UPDATE: those whose value changed in the session.  The
\* time a token is found gone is another one each time.
Dirty(loaded, wanted) ==
  [f \in {g \in DOMAIN wanted : wanted[g] # loaded[g] \/ (g = "gone" /\ wanted[g])} |-> wanted[f]]

-----------------------------------------------------------------------------
\* Steps of a request.
At(r, step, op) == req[r].step = step /\ req[r].call.op = op

Moves(r, changes) == req' = [req EXCEPT ![r] = Over(changes, @)]

\* The session is left as it is.
no_rollback(status) == [step |-> "done", answer |-> status]

\* The session is closed and what it wrote is rolled back.
Rollback(status) ==
  [step |-> "done", answer |-> status, write |-> Closed, plan |-> None, seen |-> Empty]

Answer(r, status) == Moves(r, Rollback(status)) /\ UNCHANGED <<db, current, faults>>

\* Go on to write `wanted` to the row: an INSERT when it is not in the session.
Planned(key, wanted, seen) ==
  [step |-> "write", seen |-> seen, plan |-> [key |-> key, wanted |-> wanted]]

Plan(r, key, wanted, seen) ==
  /\ Moves(r, Planned(key, wanted, seen))
  /\ UNCHANGED <<db, current, faults>>

\* Any account at all.
any_account(phone) == UserIds # {}

exists_by_phone(phone) == \E u \in UserIds : db[u].phone = phone

\* register: the number and password are checked, then the existence of the
\* number; the INSERT follows in a later step.
CheckPhone(r) ==
  /\ At(r, "arrived", "register")
  /\ LET c == req[r].call
         phone == normalize_phone_number(c.phone)
     IN  CASE phone = None \/ ~StrongEnough(c.password) -> Answer(r, 422)
           [] phone # None /\ StrongEnough(c.password) /\ exists_by_phone(phone) -> Answer(r, 409)
           [] OTHER -> Plan(r, r, [phone |-> phone, email |-> lower(c.email), active |-> TRUE,
                                   password |-> hash_password(c.password)], Empty)

\* authenticate: the row found by number; an outdated hash is replaced along
\* with last_login_at, a column the model leaves out.
ReadLogin(r) ==
  /\ At(r, "arrived", "login")
  /\ LET c == req[r].call
         found == {u \in UserIds : db[u].phone = normalize_phone_number(c.phone)}
     IN  IF \A u \in found : ~verify_password(c.password, db[u].password) THEN Answer(r, 401)
         ELSE \E u \in found :
                IF ~db[u].active THEN Answer(r, 403)
                ELSE Plan(r, u, [password |-> IF db[u].password.params = "current" THEN db[u].password
                                              ELSE hash_password(c.password)], Load(r, {u}))

\* get_current_user: the user of the token, whose devices are loaded with it.
Authenticate(r) ==
  /\ req[r].step = "arrived" /\ req[r].call.op \in {"update_me", "device", "deregister"}
  /\ LET c == req[r].call
         own == {k \in DOMAIN db \ UserIds : db[k].owner = c.user}
     IN  CASE c.user \notin UserIds -> Answer(r, 404)
           [] c.user \in UserIds /\ ~db[c.user].active -> Answer(r, 403)
           [] OTHER -> IF c.op = "update_me"
                       THEN Plan(r, c.user, IF c.email = None THEN Empty ELSE [email |-> lower(c.email)],
                                 Load(r, own \union {c.user}))
                       ELSE /\ Moves(r, [step |-> "select", seen |-> Load(r, own \union {c.user})])
                            /\ UNCHANGED <<db, current, faults>>

\* DeviceRepository.register: the token's row, whoever owns it, or a new one.
SelectToken(r) ==
  /\ At(r, "select", "device")
  /\ LET c == req[r].call
     IN  Plan(r, c.token, [owner |-> c.user, active |-> TRUE, gone |-> FALSE],
              Load(r, {c.token} \intersect DOMAIN db))

\* deregister: the row as the database has it must be the caller's.
SelectOwned(r) ==
  /\ At(r, "select", "deregister")
  /\ LET c == req[r].call
     IN  IF c.token \in DOMAIN db /\ db[c.token].owner = c.user
         THEN Plan(r, c.token, [active |-> FALSE], Load(r, {c.token}))
         ELSE Answer(r, 404)

\* A pass starts: the enabled rules, their active users and all the devices
\* of those, active or not, which the session keeps to its end.
LoadPass(r) ==
  /\ At(r, "arrived", "retire")
  /\ LET c == req[r].call
         users == {u \in c.owners \intersect UserIds : db[u].active}
         rows == users \union {k \in DOMAIN db \ UserIds : db[k].owner \in users}
     IN  IF users = {} THEN Answer(r, 200)
         ELSE /\ Moves(r, [step |-> "sending", seen |-> Load(r, rows)])
              /\ current' = current \union (IF c.token \in rows THEN {r} ELSE {})
              /\ UNCHANGED <<db, faults>>

\* _dispatch: a device that is active now and belongs to a user of the pass is
\* sent to, and the provider reports its token gone.
ReportGone(r) ==
  /\ At(r, "sending", "retire")
  /\ LET c == req[r].call
     IN  IF c.token \in DOMAIN db /\ db[c.token].active /\ db[c.token].owner \in DOMAIN req[r].seen
         THEN Moves(r, [step |-> "gone"]) /\ UNCHANGED <<db, current, faults>>
         ELSE Answer(r, 200)

\* Only the flag that stops pushes is forgotten.
gone_only(r) ==
  /\ At(r, "gone", "retire")
  /\ LET c == req[r].call
     IN  /\ Moves(r, Planned(c.token, [gone |-> TRUE], Load(r, {c.token})))
         /\ current' = current \union (IF c.token \in DOMAIN req[r].seen THEN {} ELSE {r})
         /\ UNCHANGED <<db, faults>>

\* invalidate_token, in the worker's session: a device it already holds keeps
\* the values of the pass's start.  No row is ever deleted.
SelectGone(r) ==
  /\ At(r, "gone", "retire") /\ req[r].call.token \in DOMAIN db
  /\ LET c == req[r].call
     IN  /\ Moves(r, Planned(c.token, [active |-> FALSE, gone |-> TRUE], Load(r, {c.token})))
         /\ current' = current \union (IF c.token \in DOMAIN req[r].seen THEN {} ELSE {r})
         /\ UNCHANGED <<db, faults>>

\* The row that is already there is taken for the caller's.
as_created(op) == IF op = "register" THEN 201 ELSE 409

\* IntegrityError: PHONE_ALREADY_REGISTERED from register, else the handler's.
Conflict(op) == 409

\* flush: one INSERT or UPDATE, which waits for whoever it collides with.
Flush(r) ==
  /\ req[r].step = "write"
  /\ LET p == req[r].plan
         insert == p.key \notin DOMAIN req[r].seen
         cols == IF insert THEN p.wanted ELSE Dirty(req[r].seen[p.key], p.wanted)
     IN  /\ ~Blocked(r, p.key, cols)
         /\ IF Clash(p.key, cols, insert) THEN Answer(r, Conflict(req[r].call.op))
            ELSE /\ Moves(r, [step |-> "commit", write |-> [key |-> p.key, cols |-> cols]])
                 /\ UNCHANGED <<db, current, faults>>

Success(op) == CASE op \in {"register", "device"} -> 201
                 [] op \in {"login", "update_me"} -> 200
                 [] OTHER -> 204

\* History: a registration cancels the retirements that are over, and those
\* whose session read the device as off and will not write that it is.
Cancelled(token) ==
  {o \in current :
     /\ req[o].call.token = token
     /\ req[o].step = "done" \/ (token \in DOMAIN req[o].seen /\ ~req[o].seen[token].active)}

Commit(r) ==
  /\ req[r].step = "commit"
  /\ LET w == req[r].write
         row == IF w.key \in DOMAIN db THEN Over(w.cols, db[w.key]) ELSE w.cols
     IN  db' = [k \in DOMAIN db \union {w.key} |-> IF k = w.key THEN row ELSE db[k]]
  /\ Moves(r, Rollback(Success(req[r].call.op)))
  /\ current' = current \ (IF req[r].call.op = "device" THEN Cancelled(req[r].call.token) ELSE {})
  /\ UNCHANGED faults

Busy(r) == req[r].step \in {"arrived", "select", "sending", "gone", "write", "commit"}

\* The connection is lost before the commit.
Abort(r) ==
  /\ Busy(r)
  /\ Moves(r, Rollback(500))
  /\ faults' = faults + 1
  /\ UNCHANGED <<db, current>>

\* An operator closes an account, in one statement of his own.
Deactivate(u) ==
  /\ u \in UserIds \intersect Closable /\ db[u].active
  /\ ~\E o \in Requests : Open(o) /\ <<"row", u>> \in Held(o)
  /\ db' = [db EXCEPT ![u].active = FALSE]
  /\ UNCHANGED <<req, current, faults>>

Serve(r) ==
  \/ CheckPhone(r) \/ ReadLogin(r) \/ Authenticate(r)
  \/ SelectToken(r) \/ SelectOwned(r)
  \/ LoadPass(r) \/ ReportGone(r) \/ SelectGone(r)
  \/ Flush(r) \/ Commit(r)
=============================================================================
