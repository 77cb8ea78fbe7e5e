----------------------------- MODULE ApiProofs -----------------------------
(***************************************************************************)
(* The API for any accounts, devices and requests, any number of clients   *)
(* and any limit, window and pruning threshold: what the requests do to    *)
(* the rows, how many of them a window lets through, and what a client     *)
(* that was turned away may count on.                                      *)
(***************************************************************************)
EXTENDS Api, SequenceTheorems, WellFoundedInduction, TLAPS

-----------------------------------------------------------------------------
(***************************************************************************)
(* Accounts and devices.  What a request is about to write, or has written *)
(* and not committed, fits its call and its row; a value it takes is taken *)
(* by no committed row and no other open write; and a row that was loaded  *)
(* is still there.                                                         *)
(***************************************************************************)
AccountIds == DOMAIN Users \union Requests
Fields == {"step", "call", "seen", "plan", "write", "answer", "refused", "until"}

IsPhone(phone) ==
  phone = [country |-> phone.country, line |-> phone.line] /\ phone.country \notin {"", "0"}
IsEmail(email) == email # None => email = [name |-> email.name, upper |-> FALSE]

Full(key) ==
  IF key \in AccountIds THEN {"phone", "email", "active", "password"} ELSE {"owner", "active", "gone"}

Columns(key, cols) ==
  /\ DOMAIN cols \subseteq Full(key)
  /\ "phone" \in DOMAIN cols => IsPhone(cols.phone)
  /\ "email" \in DOMAIN cols => IsEmail(cols.email)

RowsInv ==
  /\ None \notin DOMAIN db
  /\ \A k \in DOMAIN db : Columns(k, db[k]) /\ DOMAIN db[k] = Full(k)
  /\ \A k, l \in DOMAIN db : k # l => Unique(db[k]) \intersect Unique(db[l]) = {}

\* The row a sign-up inserts.
Account(c) ==
  [phone |-> normalize_phone_number(c.phone), email |-> lower(c.email), active |-> TRUE,
   password |-> hash_password(c.password)]

\* What the call of r may write to a row.
Intended(r, key, cols) ==
  LET c == req[r].call
  IN  /\ key # None /\ Columns(key, cols)
      /\ c.op = "register" => key = r /\ cols = Account(c) /\ c.phone.line # None
      /\ c.op \in {"login", "update_me"} =>
           /\ key \in AccountIds /\ key \in DOMAIN db /\ "phone" \notin DOMAIN cols
           /\ "password" \in DOMAIN cols => cols.password.of = db[key].password.of
      /\ c.op \in {"device", "deregister", "retire"} =>
           /\ key = c.token
           /\ "active" \in DOMAIN cols => cols.active = (c.op = "device")

CallInv(r) ==
  LET c == req[r].call
  IN  /\ c.op \in {"register", "login", "update_me", "device", "deregister", "retire"}
      /\ c.op \in {"device", "deregister", "retire"} => c.token \notin AccountIds \union {None}

SessionInv(r) ==
  LET q == req[r]
  IN  /\ DOMAIN q = Fields
      /\ q.step \in {"idle", "refused", "arrived"} => q.seen = Empty
      /\ DOMAIN q.seen \subseteq DOMAIN db
      /\ q.step = "write" =>
           /\ Intended(r, q.plan.key, q.plan.wanted)
           /\ q.plan.key \notin DOMAIN q.seen => DOMAIN q.plan.wanted = Full(q.plan.key)
           /\ q.call.op = "register" => q.seen = Empty
      /\ q.step # "commit" => q.write = Closed

WriteInv(r) ==
  LET w == req[r].write
  IN  req[r].step = "commit" =>
        /\ Intended(r, w.key, w.cols)
        /\ w.key \notin DOMAIN db => DOMAIN w.cols = Full(w.key)
        /\ \A k \in DOMAIN db \ {w.key} : Unique(db[k]) \intersect Unique(w.cols) = {}

Apart(r, o) ==
  req[r].step = "commit" /\ req[o].step = "commit" =>
    /\ req[r].write.key # req[o].write.key
    /\ Unique(req[r].write.cols) \intersect Unique(req[o].write.cols) = {}

\* The account of a sign-up is there exactly if the answer says so.
SignInv(r) ==
  LET q == req[r]
  IN  q.call.op = "register" =>
        IF q.step = "done" /\ q.answer = 201
        THEN /\ r \in DOMAIN db
             /\ db[r].phone.line = q.call.phone.line
             /\ db[r].password.of = q.call.password
        ELSE r \notin DOMAIN db

\* A retirement clears the flag of a row in its session, which may have read
\* it as cleared only if it still is.
Knows(r, seen) ==
  LET t == req[r].call.token
  IN  t \in DOMAIN seen /\ (seen[t].active = FALSE => db[t].active = FALSE)

Retires(r, wanted, seen) == wanted = [active |-> FALSE, gone |-> TRUE] /\ Knows(r, seen)

\* A retirement that stands: what it leaves out of its UPDATE, because it read
\* it so, is so.
GoneInv(r) ==
  LET q == req[r]
      t == q.call.token
  IN  r \in current =>
        /\ q.call.op = "retire" /\ q.step \notin {"idle", "refused", "arrived"}
        /\ q.step \in {"sending", "gone"} => Knows(r, q.seen)
        /\ q.step = "write" => Retires(r, q.plan.wanted, q.seen)
        /\ q.step = "commit" =>
             /\ t \in DOMAIN db
             /\ "active" \notin DOMAIN q.write.cols => db[t].active = FALSE
        /\ q.step = "done" /\ q.answer = 204 => t \in DOMAIN db /\ db[t].active = FALSE

RequestInv(r) == CallInv(r) /\ SessionInv(r) /\ WriteInv(r) /\ SignInv(r) /\ GoneInv(r)

AccountsInv ==
  /\ req = [r \in Requests |-> req[r]]
  /\ current \subseteq Requests
  /\ RowsInv
  /\ \A r \in Requests : RequestInv(r)
  /\ \A r, o \in Requests : r # o => Apart(r, o)

-----------------------------------------------------------------------------
LEMMA OverIs ==
  ASSUME NEW cols, NEW row
  PROVE  /\ DOMAIN Over(cols, row) = DOMAIN row \union DOMAIN cols
         /\ \A f \in DOMAIN cols : Over(cols, row)[f] = cols[f]
         /\ \A f \in DOMAIN row \ DOMAIN cols : Over(cols, row)[f] = row[f]
BY DEF Over

LEMMA DirtyIs ==
  ASSUME NEW loaded, NEW wanted
  PROVE  LET d == Dirty(loaded, wanted)
         IN  /\ DOMAIN d \subseteq DOMAIN wanted
             /\ \A f \in DOMAIN d : d[f] = wanted[f]
             /\ \A f \in DOMAIN wanted \ DOMAIN d : loaded[f] = wanted[f]
BY DEF Dirty

LEMMA UniqueIs ==
  ASSUME NEW cols, NEW x
  PROVE  x \in Unique(cols) <=>
           \/ "phone" \in DOMAIN cols /\ x = <<"phone", cols["phone"]>>
           \/ "email" \in DOMAIN cols /\ x = <<"email", cols["email"]>> /\ cols["email"] # None
<1>1. x \in Unique(cols) <=>
        /\ \E f \in {"phone", "email"} \intersect DOMAIN cols : x = <<f, cols[f]>>
        /\ x # <<"email", None>>
  BY DEF Unique
<1>2. \A a, b : <<"phone", a>> # <<"email", b>>
  OBVIOUS
<1>3. \A a, b : <<"email", a>> = <<"email", b>> <=> a = b
  OBVIOUS
<1> QED
  BY <1>1, <1>2, <1>3

LEMMA UniqueOver ==
  ASSUME NEW cols, NEW row
  PROVE  Unique(Over(cols, row)) \subseteq Unique(cols) \union Unique(row)
<1> SUFFICES ASSUME NEW x \in Unique(Over(cols, row)) PROVE x \in Unique(cols) \union Unique(row)
  OBVIOUS
<1>1. \/ "phone" \in DOMAIN Over(cols, row) /\ x = <<"phone", Over(cols, row)["phone"]>>
      \/ /\ "email" \in DOMAIN Over(cols, row) /\ x = <<"email", Over(cols, row)["email"]>>
         /\ Over(cols, row)["email"] # None
  BY UniqueIs
<1>2. \A f \in DOMAIN Over(cols, row) :
        \/ f \in DOMAIN cols /\ Over(cols, row)[f] = cols[f]
        \/ f \in DOMAIN row /\ Over(cols, row)[f] = row[f]
  BY DEF Over
<1> DEFINE over == Over(cols, row)
<1> HIDE DEF over
<1>3. CASE "phone" \in DOMAIN over /\ x = <<"phone", over["phone"]>>
  BY <1>2, <1>3, UniqueIs DEF over
<1>4. CASE "email" \in DOMAIN over /\ x = <<"email", over["email"]>> /\ over["email"] # None
  BY <1>2, <1>4, UniqueIs DEF over
<1> QED
  BY <1>1, <1>3, <1>4 DEF over

LEMMA UniqueDirty ==
  ASSUME NEW loaded, NEW wanted
  PROVE  Unique(Dirty(loaded, wanted)) \subseteq Unique(wanted)
<1> SUFFICES ASSUME NEW x \in Unique(Dirty(loaded, wanted)) PROVE x \in Unique(wanted)
  OBVIOUS
<1>1. \/ "phone" \in DOMAIN Dirty(loaded, wanted) /\ x = <<"phone", Dirty(loaded, wanted)["phone"]>>
      \/ /\ "email" \in DOMAIN Dirty(loaded, wanted) /\ x = <<"email", Dirty(loaded, wanted)["email"]>>
         /\ Dirty(loaded, wanted)["email"] # None
  BY UniqueIs
<1> QED
  BY <1>1, DirtyIs, UniqueIs

LEMMA UserRows ==
  ASSUME RowsInv
  PROVE  /\ UserIds = DOMAIN db \intersect AccountIds
         /\ \A u, v \in UserIds : db[u].phone = db[v].phone => u = v
<1>1. UserIds = DOMAIN db \intersect AccountIds
  <2>1. \A k \in DOMAIN db : DOMAIN db[k] = Full(k)
    BY DEF RowsInv
  <2>2. \A k \in AccountIds : "phone" \in Full(k)
    BY DEF Full
  <2>3. \A k : k \notin AccountIds => "phone" \notin Full(k)
    BY DEF Full
  <2> QED
    BY <2>1, <2>2, <2>3, Zenon DEF UserIds, IsUser
<1>2. ASSUME NEW u \in UserIds, NEW v \in UserIds, db[u].phone = db[v].phone, u # v PROVE FALSE
  <2>1. <<"phone", db[u]["phone"]>> \in Unique(db[u]) /\ <<"phone", db[v]["phone"]>> \in Unique(db[v])
    BY UniqueIs DEF UserIds, IsUser
  <2> QED
    BY <1>2, <2>1 DEF RowsInv, UserIds
<1> QED
  BY <1>1, <1>2

(* A step of r leaves the other requests as they are.                      *)
LEMMA MovesIs ==
  ASSUME AccountsInv, NEW r \in Requests, NEW changes, DOMAIN changes \subseteq Fields, Moves(r, changes)
  PROVE  /\ req' = [o \in Requests |-> req'[o]]
         /\ \A o \in Requests \ {r} : req'[o] = req[o]
         /\ DOMAIN req'[r] = Fields
         /\ \A f \in DOMAIN changes : req'[r][f] = changes[f]
         /\ \A f \in Fields \ DOMAIN changes : req'[r][f] = req[r][f]
<1>1. DOMAIN req[r] = Fields /\ req = [o \in Requests |-> req[o]]
  BY DEF AccountsInv, RequestInv, SessionInv
<1>2. req' = [req EXCEPT ![r] = Over(changes, req[r])]
  BY DEF Moves
<1>3. req'[r] = Over(changes, req[r]) /\ (\A o \in Requests \ {r} : req'[o] = req[o])
      /\ req' = [o \in Requests |-> req'[o]]
  BY <1>1, <1>2
<1>4. /\ DOMAIN req'[r] = DOMAIN req[r] \union DOMAIN changes
      /\ \A f \in DOMAIN changes : req'[r][f] = changes[f]
      /\ \A f \in DOMAIN req[r] \ DOMAIN changes : req'[r][f] = req[r][f]
  BY <1>3 DEF Over
<1> QED
  BY <1>1, <1>3, <1>4

(* A step of r that commits nothing.                                       *)
LEMMA FrameInv ==
  ASSUME AccountsInv, NEW r \in Requests,
         req' = [o \in Requests |-> req'[o]], \A o \in Requests \ {r} : req'[o] = req[o],
         db' = db, current' \subseteq current \union {r},
         RequestInv(r)', \A o \in Requests \ {r} : Apart(r, o)'
  PROVE  AccountsInv'
<1>1. current' \subseteq Requests
  BY DEF AccountsInv
<1>0. RowsInv'
  <2>1. RowsInv
    BY DEF AccountsInv
  <2> QED
    BY <2>1 DEF RowsInv
<1>2. ASSUME NEW o \in Requests PROVE RequestInv(o)'
  <2>1. CASE o = r
    BY <2>1, SMTT(30)
  <2>2. CASE o # r
    <3>1. RequestInv(o) /\ req'[o] = req[o] /\ (o \in current' => o \in current)
      BY <2>2 DEF AccountsInv
    <3>2. CallInv(o)' /\ SessionInv(o)' /\ WriteInv(o)' /\ SignInv(o)'
      BY <3>1, SMTT(30) DEF RequestInv, CallInv, SessionInv, WriteInv, SignInv, Intended
    <3>3. GoneInv(o)'
      BY <3>1 DEF RequestInv, GoneInv, Retires, Knows
    <3> QED
      BY <3>2, <3>3 DEF RequestInv
  <2> QED
    BY <2>1, <2>2
<1>3. ASSUME NEW a \in Requests, NEW b \in Requests, a # b PROVE Apart(a, b)'
  <2>1. CASE a = r
    BY <1>3, <2>1
  <2>2. CASE b = r
    <3>1. Apart(r, a)'
      BY <1>3, <2>2
    <3> QED
      BY <2>2, <3>1 DEF Apart
  <2>3. CASE a # r /\ b # r
    <3>1. Apart(a, b) /\ req'[a] = req[a] /\ req'[b] = req[b]
      BY <1>3, <2>3 DEF AccountsInv
    <3> QED
      BY <3>1 DEF Apart
  <2> QED
    BY <2>1, <2>2, <2>3
<1> QED
  BY <1>0, <1>1, <1>2, <1>3 DEF AccountsInv

(* A request that is answered without a commit leaves nothing behind.      *)
LEMMA AnswerInv ==
  ASSUME AccountsInv, NEW r \in Requests, NEW status, status # 201, req[r].step # "done",
         r \in current => status # 204,
         Moves(r, Rollback(status)), UNCHANGED <<db, current>>
  PROVE  AccountsInv'
<1> DEFINE c == Rollback(status)
<1>1. DOMAIN c = {"step", "answer", "write", "plan", "seen"} /\ c.step = "done" /\ c.answer = status
      /\ c.write = Closed /\ c.seen = Empty
  BY DEF Rollback
<1>2. DOMAIN c \subseteq Fields
  BY <1>1 DEF Fields
<1> HIDE DEF c
<1>3. /\ req' = [o \in Requests |-> req'[o]]
      /\ \A o \in Requests \ {r} : req'[o] = req[o]
      /\ DOMAIN req'[r] = Fields
      /\ \A f \in DOMAIN c : req'[r][f] = c[f]
      /\ \A f \in Fields \ DOMAIN c : req'[r][f] = req[r][f]
  BY <1>2, MovesIs DEF c
<1>4. /\ req'[r].step = "done" /\ req'[r].answer = status /\ req'[r].write = Closed
      /\ req'[r].seen = Empty /\ req'[r].call = req[r].call
  BY <1>1, <1>3 DEF Fields
<1>5. RequestInv(r) /\ db' = db /\ current' = current
  BY DEF AccountsInv
<1>6. DOMAIN Empty = {}
  BY DEF Empty
<1>7. CallInv(r)' /\ SessionInv(r)' /\ WriteInv(r)'
  BY <1>3, <1>4, <1>5, <1>6 DEF RequestInv, CallInv, SessionInv, WriteInv
<1>8. SignInv(r)' /\ GoneInv(r)'
  BY <1>4, <1>5 DEF RequestInv, SignInv, GoneInv
<1>9. \A o \in Requests \ {r} : Apart(r, o)'
  BY <1>4 DEF Apart
<1> QED
  BY <1>3, <1>5, <1>7, <1>8, <1>9, FrameInv DEF RequestInv

(* What a request plans to write fits its call.                            *)
LEMMA PlannedInv ==
  ASSUME AccountsInv, NEW r \in Requests, NEW key, NEW wanted, NEW seen,
         req[r].step \notin {"commit", "done"}, DOMAIN seen \subseteq DOMAIN db,
         Intended(r, key, wanted), key \notin DOMAIN seen => DOMAIN wanted = Full(key),
         req[r].call.op = "register" => seen = Empty,
         current' \subseteq current \union {r},
         r \in current' => req[r].call.op = "retire" /\ Retires(r, wanted, seen),
         Moves(r, Planned(key, wanted, seen)), UNCHANGED db
  PROVE  AccountsInv'
<1> DEFINE c == [step |-> "write", seen |-> seen, plan |-> [key |-> key, wanted |-> wanted]]
<1>1. DOMAIN c = {"step", "seen", "plan"} /\ c.step = "write" /\ c.seen = seen
      /\ c.plan.key = key /\ c.plan.wanted = wanted
  OBVIOUS
<1>2. DOMAIN c \subseteq Fields /\ Moves(r, c) /\ db' = db
  BY <1>1 DEF Fields, Planned
<1> HIDE DEF c
<1>3. /\ req' = [o \in Requests |-> req'[o]]
      /\ \A o \in Requests \ {r} : req'[o] = req[o]
      /\ DOMAIN req'[r] = Fields
      /\ \A f \in DOMAIN c : req'[r][f] = c[f]
      /\ \A f \in Fields \ DOMAIN c : req'[r][f] = req[r][f]
  BY <1>2, MovesIs
<1>4. /\ req'[r].step = "write" /\ req'[r].seen = seen /\ req'[r].plan.key = key
      /\ req'[r].plan.wanted = wanted /\ req'[r].call = req[r].call /\ req'[r].write = req[r].write
  BY <1>1, <1>3 DEF Fields
<1>5. RequestInv(r)
  BY DEF AccountsInv
<1>6. Intended(r, key, wanted)'
  BY <1>2, <1>4 DEF Intended
<1>7. CallInv(r)' /\ WriteInv(r)'
  BY <1>4, <1>5 DEF RequestInv, CallInv, WriteInv
<1>8. SessionInv(r)'
  <2>1. Intended(r, req[r].plan.key, req[r].plan.wanted)'
    BY <1>4, <1>6
  <2> QED
    BY <1>2, <1>3, <1>4, <1>5, <2>1 DEF RequestInv, SessionInv
<1>9. SignInv(r)' /\ GoneInv(r)'
  BY <1>2, <1>4, <1>5 DEF RequestInv, SignInv, GoneInv, Retires, Knows
<1>10. \A o \in Requests \ {r} : Apart(r, o)'
  BY <1>4 DEF Apart
<1> QED
  BY <1>2, <1>3, <1>7, <1>8, <1>9, <1>10, FrameInv DEF RequestInv

LEMMA PlanInv ==
  ASSUME AccountsInv, NEW r \in Requests, NEW key, NEW wanted, NEW seen,
         req[r].step \in {"arrived", "select"}, DOMAIN seen \subseteq DOMAIN db,
         Intended(r, key, wanted), key \notin DOMAIN seen => DOMAIN wanted = Full(key),
         req[r].call.op = "register" => seen = Empty,
         r \notin current, Plan(r, key, wanted, seen)
  PROVE  AccountsInv'
<1>1. req[r].step \notin {"commit", "done"} /\ current' = current /\ db' = db /\ Moves(r, Planned(key, wanted, seen))
  BY DEF Plan
<1> QED
  BY <1>1, PlannedInv, SMTT(30)

LEMMA LoadIs ==
  ASSUME NEW r, NEW keys
  PROVE  /\ DOMAIN Load(r, keys) = DOMAIN req[r].seen \union keys
         /\ \A k \in keys \ DOMAIN req[r].seen : Load(r, keys)[k] = db[k]
BY DEF Load

(* What a sign-up inserts is a whole row with a normalized number.         *)
LEMMA AccountIs ==
  ASSUME NEW r \in Requests, req[r].call.phone.line # None
  PROVE  /\ Columns(r, Account(req[r].call)) /\ DOMAIN Account(req[r].call) = Full(r)
         /\ Account(req[r].call).phone.line = req[r].call.phone.line
         /\ Account(req[r].call).password.of = req[r].call.password
<1> DEFINE c == req[r].call
           a == Account(c)
<1>1. /\ DOMAIN a = {"phone", "email", "active", "password"}
      /\ a.phone = normalize_phone_number(c.phone) /\ a.email = lower(c.email)
      /\ a.password.of = c.password
  BY DEF Account, hash_password
<1>2. IsPhone(normalize_phone_number(c.phone)) /\ normalize_phone_number(c.phone).line = c.phone.line
  BY DEF IsPhone, normalize_phone_number, Region
<1>3. IsEmail(lower(c.email))
  BY DEF IsEmail, lower
<1>4. Full(r) = {"phone", "email", "active", "password"}
  BY DEF Full, AccountIds
<1> HIDE DEF a
<1>5. Columns(r, a)
  BY <1>1, <1>2, <1>3, <1>4 DEF Columns
<1> QED
  BY <1>1, <1>2, <1>4, <1>5 DEF a

LEMMA CheckPhoneInv ==
  ASSUME AccountsInv, NEW r \in Requests, CheckPhone(r)
  PROVE  AccountsInv'
<1> DEFINE c == req[r].call
<1>1. req[r].step = "arrived" /\ c.op = "register"
  BY DEF CheckPhone, At
<1>2. \/ Answer(r, 422) \/ Answer(r, 409)
      \/ normalize_phone_number(c.phone) # None /\ Plan(r, r, Account(c), Empty)
  BY DEF CheckPhone, Account
<1>3. GoneInv(r)
  BY DEF AccountsInv, RequestInv
<1>4. r \notin current
  BY <1>1, <1>3 DEF GoneInv
<1>5. CASE Answer(r, 422) \/ Answer(r, 409)
  BY <1>1, <1>5, AnswerInv DEF Answer
<1>6. CASE normalize_phone_number(c.phone) # None /\ Plan(r, r, Account(c), Empty)
  <2>1. c.phone.line # None
    BY <1>6 DEF normalize_phone_number
  <2>2. Columns(r, Account(c)) /\ DOMAIN Account(c) = Full(r)
    BY <2>1, AccountIs
  <2>3. PICK wanted, seen : wanted = Account(c) /\ seen = Empty /\ Plan(r, r, wanted, seen)
    BY <1>6 DEF Plan, Moves
  <2>4. Intended(r, r, wanted)
    BY <1>1, <2>1, <2>2, <2>3, AccountsAssumption DEF Intended
  <2>5. DOMAIN seen \subseteq DOMAIN db /\ seen = Empty /\ DOMAIN wanted = Full(r)
    BY <2>2, <2>3 DEF Empty
  <2>6. req[r].step \in {"arrived", "select"}
    BY <1>1
  <2> QED
    BY <1>4, <2>3, <2>4, <2>5, <2>6, PlanInv
<1> QED
  BY <1>2, <1>5, <1>6

LEMMA ReadLoginInv ==
  ASSUME AccountsInv, NEW r \in Requests, ReadLogin(r)
  PROVE  AccountsInv'
<1> DEFINE c == req[r].call
           found == {u \in UserIds : db[u].phone = normalize_phone_number(c.phone)}
           hash(u) == [password |-> IF db[u].password.params = "current" THEN db[u].password
                                    ELSE hash_password(c.password)]
<1>1. req[r].step = "arrived" /\ c.op = "login"
  BY DEF ReadLogin, At
<1>2. \/ Answer(r, 401) \/ Answer(r, 403)
      \/ /\ \E u \in found : verify_password(c.password, db[u].password)
         /\ \E u \in found : Plan(r, u, hash(u), Load(r, {u}))
  BY DEF ReadLogin
<1>3. RowsInv /\ GoneInv(r) /\ SessionInv(r)
  BY DEF AccountsInv, RequestInv
<1>4. r \notin current
  BY <1>1, <1>3 DEF GoneInv
<1>5. CASE Answer(r, 401) \/ Answer(r, 403)
  BY <1>1, <1>5, AnswerInv DEF Answer
<1>6. CASE /\ \E u \in found : verify_password(c.password, db[u].password)
           /\ \E u \in found : Plan(r, u, hash(u), Load(r, {u}))
  <2>1. PICK u, wanted, seen :
           u \in found /\ wanted = hash(u) /\ seen = Load(r, {u}) /\ Plan(r, u, wanted, seen)
    BY <1>6 DEF Plan, Moves
  <2>2. PICK v \in found : verify_password(c.password, db[v].password)
    BY <1>6
  <2>3. u = v /\ u \in DOMAIN db /\ u \in AccountIds
    BY <1>3, <2>1, UserRows
  <2>4. DOMAIN wanted = {"password"} /\ wanted.password.of = db[u].password.of
    BY <2>1, <2>2, <2>3 DEF verify_password, hash_password
  <2>5. Intended(r, u, wanted)
    <3>1. Columns(u, wanted)
      BY <2>3, <2>4 DEF Columns, Full
    <3>2. u # None
      BY <1>3, <2>3 DEF RowsInv
    <3> QED
      BY <1>1, <2>3, <2>4, <3>1, <3>2 DEF Intended
  <2>6. DOMAIN seen = {u}
    <3>1. DOMAIN req[r].seen = {}
      BY <1>1, <1>3 DEF SessionInv, Empty
    <3> QED
      BY <2>1, <3>1 DEF Load
  <2>7. req[r].step \in {"arrived", "select"} /\ c.op # "register"
    BY <1>1
  <2> QED
    BY <1>4, <2>1, <2>3, <2>5, <2>6, <2>7, PlanInv
<1> QED
  BY <1>2, <1>5, <1>6

LEMMA AuthenticateInv ==
  ASSUME AccountsInv, NEW r \in Requests, Authenticate(r)
  PROVE  AccountsInv'
<1> DEFINE c == req[r].call
           own == {k \in DOMAIN db \ UserIds : db[k].owner = c.user}
           email == IF c.email = None THEN Empty ELSE [email |-> lower(c.email)]
<1>1. req[r].step = "arrived" /\ c.op \in {"update_me", "device", "deregister"}
  BY DEF Authenticate
<1>2. \/ Answer(r, 404) \/ Answer(r, 403)
      \/ /\ c.user \in UserIds /\ c.op = "update_me"
         /\ Plan(r, c.user, email, Load(r, own \union {c.user}))
      \/ /\ c.user \in UserIds /\ c.op \in {"device", "deregister"}
         /\ Moves(r, [step |-> "select", seen |-> Load(r, own \union {c.user})])
         /\ UNCHANGED <<db, current, faults>>
  BY <1>1 DEF Authenticate
<1>3. RowsInv /\ RequestInv(r) /\ GoneInv(r) /\ SessionInv(r)
  BY DEF AccountsInv, RequestInv
<1>4. r \notin current
  BY <1>1, <1>3 DEF GoneInv
<1>5. DOMAIN req[r].seen = {}
  BY <1>1, <1>3 DEF SessionInv, Empty
<1>6. \A k \in UserIds : k \in DOMAIN db /\ k \in AccountIds /\ k # None
  BY <1>3, UserRows DEF RowsInv
<1>7. CASE Answer(r, 404) \/ Answer(r, 403)
  BY <1>1, <1>7, AnswerInv DEF Answer
<1>8. CASE /\ c.user \in UserIds /\ c.op = "update_me"
           /\ Plan(r, c.user, email, Load(r, own \union {c.user}))
  <2>1. PICK key, wanted, seen : key = c.user /\ wanted = email /\ seen = Load(r, own \union {c.user})
                                 /\ Plan(r, key, wanted, seen)
    BY <1>8 DEF Plan, Moves
  <2>2. key \in DOMAIN db /\ key \in AccountIds /\ key # None /\ key \in UserIds
    BY <1>6, <1>8, <2>1
  <2>3. DOMAIN seen = own \union {key}
    BY <1>5, <2>1 DEF Load
  <2>4. DOMAIN seen \subseteq DOMAIN db /\ key \in DOMAIN seen
    BY <2>2, <2>3
  <2>5. DOMAIN wanted \subseteq {"email"} /\ ("email" \in DOMAIN wanted => IsEmail(wanted.email))
    BY <2>1 DEF Empty, lower, IsEmail
  <2>6. Columns(key, wanted)
    BY <2>2, <2>5 DEF Columns, Full
  <2>7. Intended(r, key, wanted)
    BY <1>8, <2>2, <2>5, <2>6 DEF Intended
  <2>8. req[r].step \in {"arrived", "select"} /\ c.op # "register"
    BY <1>1
  <2> QED
    BY <1>4, <2>1, <2>4, <2>7, <2>8, PlanInv
<1>9. CASE /\ c.user \in UserIds /\ c.op \in {"device", "deregister"}
           /\ Moves(r, [step |-> "select", seen |-> Load(r, own \union {c.user})])
           /\ UNCHANGED <<db, current, faults>>
  <2>1. PICK seen, changes : /\ seen = Load(r, own \union {c.user})
                             /\ changes = [step |-> "select", seen |-> seen] /\ Moves(r, changes)
    BY <1>9 DEF Moves
  <2>2. DOMAIN seen = own \union {c.user}
    BY <1>5, <2>1 DEF Load
  <2>3. DOMAIN seen \subseteq DOMAIN db
    BY <1>6, <1>9, <2>2
  <2>4. DOMAIN changes = {"step", "seen"} /\ changes.step = "select" /\ changes.seen = seen
    BY <2>1
  <2>5. DOMAIN changes \subseteq Fields
    BY <2>4 DEF Fields
  <2>6. /\ req' = [o \in Requests |-> req'[o]]
        /\ \A o \in Requests \ {r} : req'[o] = req[o]
        /\ DOMAIN req'[r] = Fields
        /\ \A f \in DOMAIN changes : req'[r][f] = changes[f]
        /\ \A f \in Fields \ DOMAIN changes : req'[r][f] = req[r][f]
    <3>1. Moves(r, changes)
      BY <2>1
    <3> QED
      BY <2>5, <3>1, MovesIs
  <2>7. /\ req'[r].step = "select" /\ req'[r].seen = seen /\ req'[r].call = c
        /\ req'[r].write = req[r].write
    BY <2>4, <2>6 DEF Fields
  <2>8. CallInv(r)' /\ SessionInv(r)' /\ WriteInv(r)'
    <3>1. DOMAIN seen \subseteq DOMAIN db' /\ req[r].write = Closed
      BY <1>1, <1>3, <1>9, <2>3 DEF SessionInv
    <3>2. SessionInv(r)'
      BY <2>6, <2>7, <3>1 DEF SessionInv
    <3> QED
      BY <1>3, <2>7, <3>2 DEF RequestInv, CallInv, WriteInv
  <2>9. SignInv(r)' /\ GoneInv(r)'
    BY <1>1, <1>4, <1>9, <2>7 DEF SignInv, GoneInv
  <2>10. \A o \in Requests \ {r} : Apart(r, o)'
    BY <2>7 DEF Apart
  <2> QED
    BY <1>9, <2>6, <2>8, <2>9, <2>10, FrameInv DEF RequestInv
<1> QED
  BY <1>2, <1>7, <1>8, <1>9

LEMMA SelectTokenInv ==
  ASSUME AccountsInv, NEW r \in Requests, SelectToken(r)
  PROVE  AccountsInv'
<1> DEFINE c == req[r].call
<1>1. req[r].step = "select" /\ c.op = "device"
  BY DEF SelectToken, At
<1>2. PICK key, wanted, seen :
        /\ key = c.token /\ wanted = [owner |-> c.user, active |-> TRUE, gone |-> FALSE]
        /\ seen = Load(r, {c.token} \intersect DOMAIN db) /\ Plan(r, key, wanted, seen)
  BY DEF SelectToken, Plan, Moves
<1>3. GoneInv(r) /\ SessionInv(r) /\ CallInv(r)
  BY DEF AccountsInv, RequestInv
<1>4. r \notin current
  BY <1>1, <1>3 DEF GoneInv
<1>5. key \notin AccountIds /\ key # None
  BY <1>1, <1>2, <1>3 DEF CallInv
<1>6. Full(key) = {"owner", "active", "gone"}
  BY <1>5 DEF Full
<1>7. DOMAIN wanted = {"owner", "active", "gone"} /\ wanted.active = TRUE
  BY <1>2
<1>8. DOMAIN seen \subseteq DOMAIN db
  <2>1. DOMAIN seen = DOMAIN req[r].seen \union ({c.token} \intersect DOMAIN db)
    BY <1>2 DEF Load
  <2> QED
    BY <1>3, <2>1 DEF SessionInv
<1>9. Intended(r, key, wanted)
  <2>1. Columns(key, wanted)
    BY <1>6, <1>7 DEF Columns
  <2> QED
    BY <1>1, <1>2, <1>5, <1>7, <2>1 DEF Intended
<1>10. req[r].step \in {"arrived", "select"} /\ c.op # "register"
  BY <1>1
<1> QED
  BY <1>2, <1>4, <1>6, <1>7, <1>8, <1>9, <1>10, PlanInv

LEMMA SelectOwnedInv ==
  ASSUME AccountsInv, NEW r \in Requests, SelectOwned(r)
  PROVE  AccountsInv'
<1> DEFINE c == req[r].call
<1>1. req[r].step = "select" /\ c.op = "deregister"
  BY DEF SelectOwned, At
<1>2. GoneInv(r) /\ SessionInv(r) /\ CallInv(r)
  BY DEF AccountsInv, RequestInv
<1>3. r \notin current
  BY <1>1, <1>2 DEF GoneInv
<1>4. CASE Answer(r, 404)
  BY <1>1, <1>4, AnswerInv DEF Answer
<1>5. CASE c.token \in DOMAIN db /\ Plan(r, c.token, [active |-> FALSE], Load(r, {c.token}))
  <2>1. PICK key, wanted, seen : /\ key = c.token /\ wanted = [active |-> FALSE]
                                 /\ seen = Load(r, {c.token}) /\ Plan(r, key, wanted, seen)
    BY <1>5 DEF Plan, Moves
  <2>2. key \notin AccountIds /\ key # None
    BY <1>1, <1>2, <2>1 DEF CallInv
  <2>3. DOMAIN wanted = {"active"} /\ wanted.active = FALSE
    BY <2>1
  <2>4. DOMAIN seen = DOMAIN req[r].seen \union {key}
    BY <2>1 DEF Load
  <2>5. DOMAIN seen \subseteq DOMAIN db /\ key \in DOMAIN seen
    BY <1>2, <1>5, <2>1, <2>4 DEF SessionInv
  <2>6. Columns(key, wanted)
    BY <2>2, <2>3 DEF Columns, Full
  <2>7. Intended(r, key, wanted)
    BY <1>1, <2>1, <2>2, <2>3, <2>6 DEF Intended
  <2>8. req[r].step \in {"arrived", "select"} /\ c.op # "register"
    BY <1>1
  <2> QED
    BY <1>3, <2>1, <2>5, <2>7, <2>8, PlanInv
<1> QED
  BY <1>4, <1>5 DEF SelectOwned

(* The pass has read the devices of its users and nothing of the others.   *)
LEMMA LoadPassInv ==
  ASSUME AccountsInv, NEW r \in Requests, LoadPass(r)
  PROVE  AccountsInv'
<1> DEFINE c == req[r].call
           users == {u \in c.owners \intersect UserIds : db[u].active}
           rows == users \union {k \in DOMAIN db \ UserIds : db[k].owner \in users}
<1>1. req[r].step = "arrived" /\ c.op = "retire"
  BY DEF LoadPass, At
<1>2. RequestInv(r) /\ CallInv(r) /\ SessionInv(r) /\ SignInv(r) /\ GoneInv(r)
  BY DEF AccountsInv, RequestInv
<1>3. r \notin current
  BY <1>1, <1>2 DEF GoneInv
<1>4. CASE Answer(r, 200)
  BY <1>1, <1>4, AnswerInv DEF Answer
<1>5. CASE /\ Moves(r, [step |-> "sending", seen |-> Load(r, rows)])
           /\ current' = current \union (IF c.token \in rows THEN {r} ELSE {})
           /\ db' = db
  <2>1. rows \subseteq DOMAIN db
    BY DEF UserIds
  <2> HIDE DEF rows, users
  <2>2. PICK seen, changes : /\ seen = Load(r, rows) /\ changes = [step |-> "sending", seen |-> seen]
                             /\ Moves(r, changes)
    BY <1>5 DEF Moves
  <2>3. DOMAIN changes = {"step", "seen"} /\ changes.step = "sending" /\ changes.seen = seen
    BY <2>2
  <2>4. /\ req' = [o \in Requests |-> req'[o]]
        /\ \A o \in Requests \ {r} : req'[o] = req[o]
        /\ DOMAIN req'[r] = Fields
        /\ \A f \in DOMAIN changes : req'[r][f] = changes[f]
        /\ \A f \in Fields \ DOMAIN changes : req'[r][f] = req[r][f]
    <3>1. DOMAIN changes \subseteq Fields
      BY <2>3 DEF Fields
    <3> QED
      BY <2>2, <3>1, MovesIs
  <2>5. /\ req'[r].step = "sending" /\ req'[r].seen = seen /\ req'[r].call = c
        /\ req'[r].write = req[r].write
    BY <2>3, <2>4 DEF Fields
  <2>6. DOMAIN seen = rows /\ \A k \in rows : seen[k] = db[k]
    <3>1. DOMAIN req[r].seen = {}
      BY <1>1, <1>2 DEF SessionInv, Empty
    <3> QED
      BY <2>2, <3>1 DEF Load
  <2>7. CallInv(r)' /\ WriteInv(r)' /\ SignInv(r)'
    BY <1>1, <1>2, <2>5 DEF CallInv, WriteInv, SignInv
  <2>8. SessionInv(r)'
    BY <1>1, <1>2, <1>5, <2>1, <2>4, <2>5, <2>6 DEF SessionInv
  <2>9. GoneInv(r)'
    <3> SUFFICES ASSUME r \in current' PROVE GoneInv(r)'
      BY DEF GoneInv
    <3>1. c.token \in rows
      BY <1>3, <1>5
    <3>2. Knows(r, seen)'
      BY <1>5, <2>5, <2>6, <3>1 DEF Knows
    <3>3. Knows(r, req[r].seen)'
      BY <2>5, <3>2
    <3> QED
      BY <1>1, <2>5, <3>3 DEF GoneInv
  <2>10. \A o \in Requests \ {r} : Apart(r, o)'
    BY <2>5 DEF Apart
  <2>11. current' \subseteq current \union {r}
    BY <1>5
  <2> QED
    BY <1>5, <2>4, <2>7, <2>8, <2>9, <2>10, <2>11, FrameInv DEF RequestInv
<1> QED
  BY <1>4, <1>5 DEF LoadPass

LEMMA ReportGoneInv ==
  ASSUME AccountsInv, NEW r \in Requests, ReportGone(r)
  PROVE  AccountsInv'
<1>1. req[r].step = "sending" /\ req[r].call.op = "retire"
  BY DEF ReportGone, At
<1>2. RequestInv(r) /\ CallInv(r) /\ SessionInv(r) /\ SignInv(r) /\ GoneInv(r)
  BY DEF AccountsInv, RequestInv
<1>3. CASE Answer(r, 200)
  BY <1>1, <1>3, AnswerInv DEF Answer
<1>4. CASE Moves(r, [step |-> "gone"]) /\ UNCHANGED <<db, current>>
  <2>1. PICK changes : changes = [step |-> "gone"] /\ Moves(r, changes)
    BY <1>4
  <2>2. DOMAIN changes = {"step"} /\ changes.step = "gone"
    BY <2>1
  <2>3. /\ req' = [o \in Requests |-> req'[o]]
        /\ \A o \in Requests \ {r} : req'[o] = req[o]
        /\ DOMAIN req'[r] = Fields
        /\ \A f \in DOMAIN changes : req'[r][f] = changes[f]
        /\ \A f \in Fields \ DOMAIN changes : req'[r][f] = req[r][f]
    <3>1. DOMAIN changes \subseteq Fields
      BY <2>2 DEF Fields
    <3> QED
      BY <2>1, <3>1, MovesIs
  <2>4. /\ req'[r].step = "gone" /\ req'[r].seen = req[r].seen /\ req'[r].call = req[r].call
        /\ req'[r].write = req[r].write
    BY <2>2, <2>3 DEF Fields
  <2>5. CallInv(r)' /\ SessionInv(r)' /\ WriteInv(r)' /\ SignInv(r)'
    BY <1>1, <1>2, <1>4, <2>3, <2>4 DEF CallInv, SessionInv, WriteInv, SignInv
  <2>6. GoneInv(r)'
    BY <1>1, <1>2, <1>4, <2>4 DEF GoneInv, Knows
  <2>7. \A o \in Requests \ {r} : Apart(r, o)'
    BY <2>4 DEF Apart
  <2> QED
    BY <1>4, <2>3, <2>5, <2>6, <2>7, FrameInv DEF RequestInv
<1> QED
  BY <1>3, <1>4 DEF ReportGone

LEMMA SelectGoneInv ==
  ASSUME AccountsInv, NEW r \in Requests, SelectGone(r)
  PROVE  AccountsInv'
<1> DEFINE c == req[r].call
<1>1. req[r].step = "gone" /\ c.op = "retire"
  BY DEF SelectGone, At
<1>2. GoneInv(r) /\ SessionInv(r) /\ CallInv(r)
  BY DEF AccountsInv, RequestInv
<1>3. PICK key, wanted, seen :
        /\ key = c.token /\ wanted = [active |-> FALSE, gone |-> TRUE]
        /\ seen = Load(r, {c.token}) /\ Moves(r, Planned(key, wanted, seen))
  BY DEF SelectGone, Moves
<1>4. key \notin AccountIds /\ key # None
  BY <1>1, <1>2, <1>3 DEF CallInv
<1>5. DOMAIN wanted = {"active", "gone"} /\ wanted.active = FALSE
  BY <1>3
<1>6. /\ DOMAIN seen = DOMAIN req[r].seen \union {key}
      /\ seen[key] = IF key \in DOMAIN req[r].seen THEN req[r].seen[key] ELSE db[key]
  BY <1>3 DEF Load
<1>7. Columns(key, wanted)
  BY <1>4, <1>5 DEF Columns, Full
<1>8. Intended(r, key, wanted)
  BY <1>1, <1>3, <1>4, <1>5, <1>7 DEF Intended
<1>9. /\ current' = current \union (IF key \in DOMAIN req[r].seen THEN {} ELSE {r})
      /\ db' = db
  BY <1>3 DEF SelectGone
<1>10. r \in current' => Retires(r, wanted, seen)
  <2> SUFFICES ASSUME r \in current' PROVE Knows(r, seen)
    BY <1>3 DEF Retires
  <2>1. CASE key \in DOMAIN req[r].seen
    <3>1. Knows(r, req[r].seen)
      BY <1>1, <1>2, <1>9, <2>1 DEF GoneInv
    <3> QED
      BY <1>3, <1>6, <2>1, <3>1 DEF Knows
  <2>2. CASE key \notin DOMAIN req[r].seen
    BY <1>3, <1>6, <2>2 DEF Knows
  <2> QED
    BY <2>1, <2>2
<1>11. DOMAIN seen \subseteq DOMAIN db /\ key \in DOMAIN seen
  BY <1>2, <1>3, <1>6 DEF SelectGone, SessionInv
<1>12. req[r].step \notin {"commit", "done"} /\ c.op # "register" /\ current' \subseteq current \union {r}
  BY <1>1, <1>9
<1> QED
  BY <1>1, <1>3, <1>8, <1>9, <1>10, <1>11, <1>12, PlannedInv

(* What a flush writes, to which row, and whose locks it did not meet.     *)
LEMMA FlushIs ==
  ASSUME AccountsInv, NEW r \in Requests, Flush(r)
  PROVE  \/ Answer(r, 409)
         \/ \E key, wanted, seen, cols, changes :
              /\ key = req[r].plan.key /\ wanted = req[r].plan.wanted /\ seen = req[r].seen
              /\ cols = IF key \notin DOMAIN seen THEN wanted ELSE Dirty(seen[key], wanted)
              /\ ~Blocked(r, key, cols)
              /\ \A k \in DOMAIN db \ {key} : Unique(db[k]) \intersect Unique(cols) = {}
              /\ changes = [step |-> "commit", write |-> [key |-> key, cols |-> cols]]
              /\ Moves(r, changes) /\ UNCHANGED <<db, current, faults>>
<1> DEFINE p == req[r].plan
           Cols == IF p.key \notin DOMAIN req[r].seen THEN p.wanted ELSE Dirty(req[r].seen[p.key], p.wanted)
<1>1. /\ ~Blocked(r, p.key, Cols)
      /\ \/ Answer(r, Conflict(req[r].call.op))
         \/ /\ ~Clash(p.key, Cols, p.key \notin DOMAIN req[r].seen)
            /\ Moves(r, [step |-> "commit", write |-> [key |-> p.key, cols |-> Cols]])
            /\ UNCHANGED <<db, current, faults>>
  BY DEF Flush
<1>2. CASE Answer(r, Conflict(req[r].call.op))
  BY <1>2, SMTT(30) DEF Conflict, Answer, Moves
<1>3. CASE /\ ~Clash(p.key, Cols, p.key \notin DOMAIN req[r].seen)
           /\ Moves(r, [step |-> "commit", write |-> [key |-> p.key, cols |-> Cols]])
           /\ UNCHANGED <<db, current, faults>>
  <2>1. \A k \in DOMAIN db \ {p.key} : Unique(db[k]) \intersect Unique(Cols) = {}
    BY <1>3 DEF Clash
  <2> QED
    BY <1>1, <1>3, <2>1 DEF Moves, Blocked
<1> QED
  BY <1>1, <1>2, <1>3

(* Whoever has an open write keeps others from its row and its values.     *)
LEMMA NotBlocked ==
  ASSUME AccountsInv, NEW r \in Requests, NEW o \in Requests, r # o, NEW key, NEW cols,
         ~Blocked(r, key, cols), req[o].step = "commit"
  PROVE  key # req[o].write.key /\ Unique(cols) \intersect Unique(req[o].write.cols) = {}
<1>1. req[o].write.key # None
  BY DEF AccountsInv, RequestInv, WriteInv, Intended
<1>2. Held(o) \intersect ({<<"row", key>>} \union Unique(cols)) = {}
  BY <1>1 DEF Blocked, Open
<1>3. <<"row", req[o].write.key>> \in Held(o) /\ Unique(req[o].write.cols) \subseteq Held(o)
  BY DEF Held
<1> QED
  BY <1>2, <1>3

LEMMA FlushInv ==
  ASSUME AccountsInv, NEW r \in Requests, Flush(r)
  PROVE  AccountsInv'
<1> DEFINE c == req[r].call
<1>1. req[r].step = "write"
  BY DEF Flush
<1>2. RequestInv(r) /\ SessionInv(r) /\ GoneInv(r)
  BY DEF AccountsInv, RequestInv
<1>3. CASE Answer(r, 409)
  BY <1>1, <1>3, AnswerInv DEF Answer
<1>4. ASSUME NEW key, NEW wanted, NEW seen, NEW cols, NEW changes,
             key = req[r].plan.key, wanted = req[r].plan.wanted, seen = req[r].seen,
             cols = IF key \notin DOMAIN seen THEN wanted ELSE Dirty(seen[key], wanted),
             ~Blocked(r, key, cols),
             \A k \in DOMAIN db \ {key} : Unique(db[k]) \intersect Unique(cols) = {},
             changes = [step |-> "commit", write |-> [key |-> key, cols |-> cols]],
             Moves(r, changes), UNCHANGED <<db, current, faults>>
      PROVE  AccountsInv'
  <2>1. DOMAIN changes = {"step", "write"} /\ changes.step = "commit" /\ changes.write.key = key
        /\ changes.write.cols = cols
    BY <1>4
  <2>2. DOMAIN changes \subseteq Fields
    BY <2>1 DEF Fields
  <2>3. /\ req' = [o \in Requests |-> req'[o]]
        /\ \A o \in Requests \ {r} : req'[o] = req[o]
        /\ DOMAIN req'[r] = Fields
        /\ \A f \in DOMAIN changes : req'[r][f] = changes[f]
        /\ \A f \in Fields \ DOMAIN changes : req'[r][f] = req[r][f]
    <3>1. Moves(r, changes)
      BY <1>4, SMTT(30)
    <3> QED
      BY <2>2, <3>1, MovesIs, SMTT(30)
  <2>4. /\ req'[r].step = "commit" /\ req'[r].write.key = key /\ req'[r].write.cols = cols
        /\ req'[r].call = c /\ req'[r].seen = seen /\ db' = db /\ current' = current
    BY <1>4, <2>1, <2>3 DEF Fields
  <2>5. /\ Intended(r, key, wanted) /\ (key \notin DOMAIN seen => DOMAIN wanted = Full(key))
        /\ (c.op = "register" => seen = Empty) /\ DOMAIN seen \subseteq DOMAIN db
    BY <1>1, <1>2, <1>4, SMTT(30) DEF SessionInv
  <2>6. /\ DOMAIN cols \subseteq DOMAIN wanted /\ (\A f \in DOMAIN cols : cols[f] = wanted[f])
        /\ key \notin DOMAIN seen => cols = wanted
        /\ key \in DOMAIN seen => \A f \in DOMAIN wanted \ DOMAIN cols : seen[key][f] = wanted[f]
    BY <1>4 DEF Dirty
  <2>7. Intended(r, key, cols)
    <3>1. Columns(key, cols)
      BY <2>5, <2>6 DEF Intended, Columns
    <3>2. c.op = "register" => cols = wanted
      BY <2>5, <2>6 DEF Empty
    <3> QED
      BY <2>5, <2>6, <3>1, <3>2 DEF Intended
  <2>8. CallInv(r)' /\ SessionInv(r)'
    BY <1>2, <2>3, <2>4, <2>5, SMTT(30) DEF RequestInv, CallInv, SessionInv
  <2>9. WriteInv(r)'
    <3>1. Intended(r, key, cols)'
      BY <2>4, <2>7 DEF Intended
    <3>2. Intended(r, req[r].write.key, req[r].write.cols)'
      BY <2>4, <3>1
    <3>3. key \notin DOMAIN db => DOMAIN cols = Full(key)
      BY <2>5, <2>6
    <3> QED
      BY <1>4, <2>4, <3>2, <3>3 DEF WriteInv
  <2>10. SignInv(r)'
    BY <1>1, <1>2, <2>4 DEF RequestInv, SignInv
  <2>11. GoneInv(r)'
    <3>1. CASE r \notin current
      BY <2>4, <3>1 DEF GoneInv
    <3>2. CASE r \in current
      <4>1. c.op = "retire" /\ Retires(r, wanted, seen)
        BY <1>1, <1>2, <1>4, <3>2 DEF GoneInv, Retires, Knows
      <4>2. key = c.token /\ key \in DOMAIN seen /\ key \in DOMAIN db
        BY <2>5, <4>1 DEF Intended, Retires, Knows
      <4>3. DOMAIN wanted = {"active", "gone"} /\ wanted.active = FALSE
        BY <4>1 DEF Retires
      <4>4. "active" \notin DOMAIN cols => seen[key].active = FALSE
        BY <2>6, <4>1, <4>2, <4>3 DEF Retires
      <4>5. "active" \notin DOMAIN cols => db[key].active = FALSE
        BY <4>1, <4>2, <4>4 DEF Retires, Knows
      <4> QED
        BY <2>4, <4>1, <4>2, <4>5 DEF GoneInv
    <3> QED
      BY <3>1, <3>2
  <2>12. ASSUME NEW o \in Requests \ {r} PROVE Apart(r, o)'
    <3>1. req[o].step = "commit" =>
            key # req[o].write.key /\ Unique(cols) \intersect Unique(req[o].write.cols) = {}
      BY <1>4, NotBlocked
    <3>2. req'[o] = req[o]
      BY <2>3
    <3> QED
      BY <2>4, <3>1, <3>2 DEF Apart, Unique
  <2> QED
    BY <2>3, <2>4, <2>8, <2>9, <2>10, <2>11, <2>12, FrameInv DEF RequestInv
<1> QED
  BY <1>3, <1>4, FlushIs

(* The requests that neither move nor own the committed row.               *)
LEMMA OthersKept ==
  ASSUME AccountsInv, NEW o \in Requests, NEW key, NEW row,
         req'[o] = req[o], DOMAIN db' = DOMAIN db \union {key},
         \A k \in DOMAIN db \ {key} : db'[k] = db[k],
         db'[key] = row, Columns(key, row), DOMAIN row = Full(key),
         key \in DOMAIN db /\ key \in AccountIds =>
           row.password.of = db[key].password.of /\ row.phone = db[key].phone,
         key \in AccountIds /\ key \notin DOMAIN db => key # o,
         req[o].step = "commit" /\ key # req[o].write.key => Unique(row) \intersect Unique(req[o].write.cols) = {},
         o \in current' => o \in current,
         o \in current' /\ key = req[o].call.token =>
           \/ row.active = FALSE \/ (key \in DOMAIN db /\ row.active = db[key].active)
           \/ req[o].step \notin {"commit", "done"} /\ ~(key \in DOMAIN req[o].seen /\ req[o].seen[key].active = FALSE)
  PROVE  RequestInv(o)'
<1> DEFINE c == req[o].call
<1>1. RequestInv(o) /\ CallInv(o) /\ SessionInv(o) /\ WriteInv(o) /\ SignInv(o) /\ GoneInv(o) /\ RowsInv
  BY DEF AccountsInv, RequestInv
<1>2. CallInv(o)'
  BY <1>1 DEF CallInv
<1>3. ASSUME NEW k, NEW cols, Intended(o, k, cols) PROVE Intended(o, k, cols)'
  <2>1. k \in AccountIds /\ k \in DOMAIN db => k \in DOMAIN db' /\ db'[k].password.of = db[k].password.of
    OBVIOUS
  <2> QED
    BY <1>3, <2>1 DEF Intended
<1>4. SessionInv(o)'
  <2>1. PICK k, wanted : k = req[o].plan.key /\ wanted = req[o].plan.wanted
    OBVIOUS
  <2>2. req[o].step = "write" => Intended(o, k, wanted)'
    BY <1>1, <1>3, <2>1 DEF SessionInv
  <2>3. req[o].step = "write" => Intended(o, req[o].plan.key, req[o].plan.wanted)'
    BY <2>1, <2>2 DEF Intended
  <2> QED
    BY <1>1, <2>3 DEF SessionInv
<1>5. WriteInv(o)'
  <2> SUFFICES ASSUME req[o].step = "commit" PROVE WriteInv(o)'
    BY DEF WriteInv
  <2>1. PICK k, cols : k = req[o].write.key /\ cols = req[o].write.cols
    OBVIOUS
  <2>2. Intended(o, k, cols)'
    BY <1>1, <1>3, <2>1 DEF WriteInv
  <2>3. Intended(o, req[o].write.key, req[o].write.cols)'
    BY <2>1, <2>2 DEF Intended
  <2>4. \A l \in DOMAIN db' \ {k} : Unique(db'[l]) \intersect Unique(cols) = {}
    BY <1>1, <2>1 DEF WriteInv
  <2>5. k \notin DOMAIN db' => DOMAIN cols = Full(k)
    BY <1>1, <2>1 DEF WriteInv
  <2> QED
    BY <2>1, <2>3, <2>4, <2>5 DEF WriteInv, Unique
<1>6. SignInv(o)'
  <2>1. o \in AccountIds
    BY DEF AccountIds
  <2>2. o \in DOMAIN db' <=> o \in DOMAIN db
    BY <2>1
  <2>3. o \in DOMAIN db => db'[o].phone = db[o].phone /\ db'[o].password.of = db[o].password.of
    BY <2>1
  <2> QED
    BY <1>1, <2>2, <2>3 DEF SignInv
<1>7. GoneInv(o)'
  <2> SUFFICES ASSUME o \in current' PROVE GoneInv(o)'
    BY DEF GoneInv
  <2>1. c.op = "retire" /\ o \in current
    BY <1>1 DEF GoneInv
  <2>2. \/ req[o].step \notin {"commit", "done"}
           /\ ~(c.token \in DOMAIN req[o].seen /\ req[o].seen[c.token].active = FALSE)
        \/ (c.token \in DOMAIN db /\ db[c.token].active = FALSE =>
              c.token \in DOMAIN db' /\ db'[c.token].active = FALSE)
    OBVIOUS
  <2>4. ASSUME req[o].step = "write" PROVE Retires(o, req[o].plan.wanted, req[o].seen)'
    <3>1. Retires(o, req[o].plan.wanted, req[o].seen) /\ DOMAIN req[o].seen \subseteq DOMAIN db
      BY <1>1, <2>1, <2>4, SMTT(30) DEF GoneInv, SessionInv
    <3> QED
      BY <2>2, <3>1 DEF Retires, Knows
  <2>5. ASSUME req[o].step \in {"sending", "gone"} PROVE Knows(o, req[o].seen)'
    <3>1. Knows(o, req[o].seen) /\ DOMAIN req[o].seen \subseteq DOMAIN db
      BY <1>1, <2>1, <2>5, SMTT(30) DEF GoneInv, SessionInv
    <3> QED
      BY <2>2, <3>1 DEF Knows
  <2>6. /\ req'[o].step = req[o].step /\ req'[o].call = c /\ req'[o].write = req[o].write
        /\ req'[o].answer = req[o].answer /\ req'[o].seen = req[o].seen /\ req'[o].plan = req[o].plan
    OBVIOUS
  <2>7. ASSUME req[o].step = "commit"
        PROVE  /\ c.token \in DOMAIN db'
               /\ "active" \notin DOMAIN req[o].write.cols => db'[c.token].active = FALSE
    BY <1>1, <2>1, <2>2, <2>7 DEF GoneInv
  <2>8. ASSUME req[o].step = "done", req[o].answer = 204 PROVE  c.token \in DOMAIN db' /\ db'[c.token].active = FALSE
    BY <1>1, <2>1, <2>2, <2>8 DEF GoneInv
  <2>9. req[o].step \notin {"idle", "refused", "arrived"}
    BY <1>1, <2>1 DEF GoneInv
  <2>10. CASE req[o].step \in {"sending", "gone"}
    BY <2>1, <2>5, <2>6, <2>10 DEF GoneInv
  <2>11. CASE req[o].step = "write"
    BY <2>1, <2>4, <2>6, <2>11 DEF GoneInv
  <2>12. CASE req[o].step = "commit"
    BY <2>1, <2>6, <2>7, <2>12 DEF GoneInv
  <2>13. CASE req[o].step = "done"
    <3>1. CASE req[o].answer = 204
      BY <2>1, <2>6, <2>8, <2>13, <3>1 DEF GoneInv
    <3>2. CASE req[o].answer # 204
      BY <2>1, <2>6, <2>13, <3>2 DEF GoneInv
    <3> QED
      BY <3>1, <3>2
  <2>14. CASE req[o].step \notin {"sending", "gone", "write", "commit", "done"}
    BY <2>1, <2>6, <2>9, <2>14 DEF GoneInv
  <2> QED
    BY <2>10, <2>11, <2>12, <2>13, <2>14
<1> QED
  BY <1>2, <1>4, <1>5, <1>6, <1>7 DEF RequestInv

(* The row a commit leaves, and what of it is new.                         *)
LEMMA CommitIs ==
  ASSUME AccountsInv, NEW r \in Requests, Commit(r)
  PROVE  \E key, cols, row :
           /\ key = req[r].write.key /\ cols = req[r].write.cols
           /\ DOMAIN db' = DOMAIN db \union {key} /\ db'[key] = row
           /\ \A k \in DOMAIN db \ {key} : db'[k] = db[k]
           /\ DOMAIN row = Full(key) /\ Columns(key, row)
           /\ \A f \in DOMAIN cols : f \in DOMAIN row /\ row[f] = cols[f]
           /\ key \in DOMAIN db => \A f \in DOMAIN row \ DOMAIN cols : row[f] = db[key][f]
           /\ key \notin DOMAIN db => row = cols
           /\ \A k \in DOMAIN db \ {key} : Unique(row) \intersect Unique(db[k]) = {}
           /\ Unique(row) \subseteq Unique(cols) \union (IF key \in DOMAIN db THEN Unique(db[key]) ELSE {})
<1>1. PICK key, cols, row :
        /\ key = req[r].write.key /\ cols = req[r].write.cols
        /\ row = IF key \in DOMAIN db THEN Over(cols, db[key]) ELSE cols
        /\ db' = [k \in DOMAIN db \union {key} |-> IF k = key THEN row ELSE db[k]]
  BY DEF Commit
<1>2. /\ DOMAIN db' = DOMAIN db \union {key} /\ db'[key] = row
      /\ \A k \in DOMAIN db \ {key} : db'[k] = db[k]
  BY <1>1
<1>3. RowsInv /\ Columns(key, cols) /\ (key \notin DOMAIN db => DOMAIN cols = Full(key))
      /\ \A k \in DOMAIN db \ {key} : Unique(db[k]) \intersect Unique(cols) = {}
  BY <1>1 DEF Commit, AccountsInv, RequestInv, WriteInv, Intended
<1>4. key \in DOMAIN db => DOMAIN db[key] = Full(key) /\ Columns(key, db[key])
  BY <1>3 DEF RowsInv
<1>5. key \in DOMAIN db => DOMAIN row = DOMAIN db[key] \union DOMAIN cols
  BY <1>1 DEF Over
<1>6. DOMAIN row = Full(key)
  <2>1. DOMAIN cols \subseteq Full(key)
    BY <1>3 DEF Columns
  <2> QED
    BY <1>1, <1>3, <1>4, <1>5, <2>1
<1>7. \A f \in DOMAIN cols : f \in DOMAIN row /\ row[f] = cols[f]
  BY <1>1 DEF Over
<1>8. key \in DOMAIN db => \A f \in DOMAIN row \ DOMAIN cols : f \in DOMAIN db[key] /\ row[f] = db[key][f]
  BY <1>1 DEF Over
<1>9. key \notin DOMAIN db => row = cols
  BY <1>1
<1>10. Columns(key, row)
  <2>1. CASE key \in DOMAIN db
    BY <1>3, <1>4, <1>6, <1>7, <1>8, <2>1 DEF Columns
  <2>2. CASE key \notin DOMAIN db
    BY <1>3, <1>9, <2>2
  <2> QED
    BY <2>1, <2>2
<1>11. Unique(row) \subseteq Unique(cols) \union (IF key \in DOMAIN db THEN Unique(db[key]) ELSE {})
  BY <1>1, UniqueOver
<1>12. ASSUME NEW k \in DOMAIN db \ {key} PROVE Unique(row) \intersect Unique(db[k]) = {}
  <2>1. key \in DOMAIN db => Unique(db[k]) \intersect Unique(db[key]) = {}
    BY <1>3 DEF RowsInv
  <2>2. Unique(db[k]) \intersect Unique(cols) = {}
    BY <1>3
  <2> QED
    BY <1>11, <2>1, <2>2
<1> QED
  BY <1>1, <1>2, <1>6, <1>7, <1>8, <1>9, <1>10, <1>11, <1>12, SMTT(30)

LEMMA CommitInv ==
  ASSUME AccountsInv, NEW r \in Requests, Commit(r)
  PROVE  AccountsInv'
<1> DEFINE c == req[r].call
<1>1. PICK key, cols, row :
        /\ key = req[r].write.key /\ cols = req[r].write.cols
        /\ DOMAIN db' = DOMAIN db \union {key} /\ db'[key] = row
        /\ \A k \in DOMAIN db \ {key} : db'[k] = db[k]
        /\ DOMAIN row = Full(key) /\ Columns(key, row)
        /\ \A f \in DOMAIN cols : f \in DOMAIN row /\ row[f] = cols[f]
        /\ key \in DOMAIN db => \A f \in DOMAIN row \ DOMAIN cols : row[f] = db[key][f]
        /\ key \notin DOMAIN db => row = cols
        /\ \A k \in DOMAIN db \ {key} : Unique(row) \intersect Unique(db[k]) = {}
        /\ Unique(row) \subseteq Unique(cols) \union (IF key \in DOMAIN db THEN Unique(db[key]) ELSE {})
  BY CommitIs
<1>2. req[r].step = "commit" /\ RowsInv /\ RequestInv(r) /\ SignInv(r) /\ GoneInv(r) /\ CallInv(r)
  BY DEF Commit, AccountsInv, RequestInv
<1>3. Intended(r, key, cols)
  BY <1>1, <1>2 DEF RequestInv, WriteInv
<1>4. PICK changes : changes = Rollback(Success(c.op)) /\ Moves(r, changes)
  BY DEF Commit, Moves
<1>5. /\ DOMAIN changes = {"step", "answer", "write", "plan", "seen"} /\ changes.step = "done"
      /\ changes.answer = Success(c.op) /\ changes.write = Closed /\ changes.seen = Empty
  BY <1>4 DEF Rollback
<1>6. /\ req' = [o \in Requests |-> req'[o]]
      /\ \A o \in Requests \ {r} : req'[o] = req[o]
      /\ DOMAIN req'[r] = Fields
      /\ \A f \in DOMAIN changes : req'[r][f] = changes[f]
      /\ \A f \in Fields \ DOMAIN changes : req'[r][f] = req[r][f]
  <2>1. DOMAIN changes \subseteq Fields /\ Moves(r, changes)
    BY <1>4, <1>5 DEF Fields
  <2> QED
    BY <2>1, MovesIs
<1>7. /\ req'[r].step = "done" /\ req'[r].answer = Success(c.op) /\ req'[r].write = Closed
      /\ req'[r].seen = Empty /\ req'[r].call = c
  BY <1>5, <1>6 DEF Fields
<1>8. current' = current \ (IF c.op = "device" THEN Cancelled(c.token) ELSE {})
  BY DEF Commit
<1>9. RowsInv'
  <2>1. None \notin DOMAIN db'
    BY <1>1, <1>2, <1>3 DEF RowsInv, Intended
  <2>2. ASSUME NEW k \in DOMAIN db' PROVE Columns(k, db'[k]) /\ DOMAIN db'[k] = Full(k)
    BY <1>1, <1>2 DEF RowsInv
  <2>3. ASSUME NEW k \in DOMAIN db', NEW l \in DOMAIN db', k # l
        PROVE  Unique(db'[k]) \intersect Unique(db'[l]) = {}
    <3>1. CASE k = key
      BY <1>1, <2>3, <3>1
    <3>2. CASE l = key
      BY <1>1, <2>3, <3>2
    <3>3. CASE k # key /\ l # key
      BY <1>1, <1>2, <2>3, <3>3 DEF RowsInv
    <3> QED
      BY <3>1, <3>2, <3>3
  <2> QED
    BY <2>1, <2>2, <2>3 DEF RowsInv, Columns, Unique
<1>10. RequestInv(r)'
  <2>1. CallInv(r)' /\ SessionInv(r)' /\ WriteInv(r)'
    <3>1. CallInv(r)' /\ WriteInv(r)'
      BY <1>2, <1>7 DEF CallInv, WriteInv
    <3>2. DOMAIN Empty = {}
      BY DEF Empty
    <3> QED
      BY <1>6, <1>7, <3>1, <3>2 DEF SessionInv
  <2>2. SignInv(r)'
    <3> SUFFICES ASSUME c.op = "register" PROVE SignInv(r)'
      BY <1>7 DEF SignInv
    <3>1. key = r /\ cols = Account(c) /\ r \notin DOMAIN db /\ c.phone.line # None
      BY <1>2, <1>3 DEF Intended, SignInv
    <3>2. db'[r] = Account(c) /\ r \in DOMAIN db'
      BY <1>1, <3>1
    <3>3. Account(c).phone.line = c.phone.line /\ Account(c).password.of = c.password
      BY <3>1, AccountIs
    <3> QED
      BY <1>7, <3>2, <3>3 DEF SignInv, Success
  <2>3. GoneInv(r)'
    <3> SUFFICES ASSUME r \in current' PROVE GoneInv(r)'
      BY DEF GoneInv
    <3>1. c.op = "retire" /\ c.token \in DOMAIN db /\ r \in current
          /\ ("active" \notin DOMAIN cols => db[c.token].active = FALSE)
      BY <1>1, <1>2, <1>8 DEF GoneInv
    <3>2. key = c.token /\ ("active" \in DOMAIN cols => cols.active = FALSE) /\ "active" \in Full(key)
      BY <1>2, <1>3, <3>1 DEF Intended, Full
    <3>3. c.token \in DOMAIN db' /\ db'[c.token].active = FALSE
      BY <1>1, <3>1, <3>2
    <3> QED
      BY <1>7, <3>1, <3>3 DEF GoneInv
  <2> QED
    BY <2>1, <2>2, <2>3 DEF RequestInv
<1>11. ASSUME NEW o \in Requests \ {r} PROVE RequestInv(o)'
  <2>1. req'[o] = req[o] /\ (o \in current' => o \in current)
    BY <1>6, <1>8
  <2>2. key \in DOMAIN db /\ key \in AccountIds =>
          row.password.of = db[key].password.of /\ row.phone = db[key].phone
    <3> SUFFICES ASSUME key \in DOMAIN db, key \in AccountIds
                 PROVE  row.password.of = db[key].password.of /\ row.phone = db[key].phone
      OBVIOUS
    <3>1. c.op \in {"login", "update_me"}
      BY <1>2, <1>3 DEF Intended, SignInv, CallInv
    <3>2. "phone" \notin DOMAIN cols /\ ("password" \in DOMAIN cols => cols.password.of = db[key].password.of)
      BY <1>3, <3>1 DEF Intended
    <3>3. "phone" \in DOMAIN row /\ "password" \in DOMAIN row
      BY <1>1 DEF Full
    <3> QED
      BY <1>1, <3>2, <3>3
  <2>3. key \in AccountIds /\ key \notin DOMAIN db => key # o
    BY <1>2, <1>3 DEF Intended, CallInv
  <2>4. req[o].step = "commit" /\ key # req[o].write.key => Unique(row) \intersect Unique(req[o].write.cols) = {}
    <3> SUFFICES ASSUME req[o].step = "commit", key # req[o].write.key
                 PROVE  Unique(row) \intersect Unique(req[o].write.cols) = {}
      OBVIOUS
    <3>1. Unique(cols) \intersect Unique(req[o].write.cols) = {}
      BY <1>1, <1>2 DEF AccountsInv, Apart
    <3>2. key \in DOMAIN db => Unique(db[key]) \intersect Unique(req[o].write.cols) = {}
      BY DEF AccountsInv, RequestInv, WriteInv
    <3> QED
      BY <1>1, <3>1, <3>2
  <2>5. o \in current' /\ key = req[o].call.token =>
          \/ row.active = FALSE \/ (key \in DOMAIN db /\ row.active = db[key].active)
          \/ req[o].step \notin {"commit", "done"} /\ ~(key \in DOMAIN req[o].seen /\ req[o].seen[key].active = FALSE)
    <3> DEFINE stays == row.active = FALSE \/ (key \in DOMAIN db /\ row.active = db[key].active)
               ahead == /\ req[o].step \notin {"commit", "done"}
                        /\ ~(key \in DOMAIN req[o].seen /\ req[o].seen[key].active = FALSE)
    <3> SUFFICES ASSUME o \in current', key = req[o].call.token
                 PROVE  stays \/ ahead
      OBVIOUS
    <3>1. key \notin AccountIds
      BY <2>1 DEF AccountsInv, RequestInv, GoneInv, CallInv
    <3>2. c.op \in {"device", "deregister", "retire"}
      BY <1>2, <1>3, <3>1 DEF Intended, CallInv, AccountIds
    <3>3. key = c.token /\ ("active" \in DOMAIN cols => cols.active = (c.op = "device"))
      BY <1>3, <3>2 DEF Intended
    <3>4. ASSUME c.op = "device" PROVE ahead
      <4>1. o \in current /\ o \notin Cancelled(c.token)
        BY <1>8, <3>4
      <4>2. req[o].call.token = c.token
        BY <3>3
      <4>3. req[o].step # "done" /\ ~(key \in DOMAIN req[o].seen /\ req[o].seen[key].active = FALSE)
        BY <3>3, <4>1, <4>2 DEF Cancelled
      <4>4. req[o].step # "commit"
        BY <1>1, <1>2, <3>3, <4>1 DEF AccountsInv, RequestInv, WriteInv, GoneInv, Intended, Apart
      <4> QED
        BY <4>3, <4>4
    <3>5. "active" \in DOMAIN row
      BY <1>1, <3>1 DEF Full
    <3>6. CASE "active" \in DOMAIN cols /\ c.op # "device"
      <4>1. cols.active = FALSE
        BY <3>3, <3>6
      <4>2. row.active = cols.active
        BY <1>1, <3>6
      <4> QED
        BY <4>1, <4>2
    <3>7. CASE "active" \notin DOMAIN cols
      BY <1>1, <3>5, <3>7
    <3> HIDE DEF stays, ahead
    <3> QED
      BY <3>4, <3>6, <3>7
  <2>6. /\ DOMAIN db' = DOMAIN db \union {key} /\ db'[key] = row
        /\ \A k \in DOMAIN db \ {key} : db'[k] = db[k]
        /\ DOMAIN row = Full(key) /\ Columns(key, row)
    BY <1>1
  <2> QED
    BY <2>1, <2>2, <2>3, <2>4, <2>5, <2>6, OthersKept
<1>12. ASSUME NEW a \in Requests, NEW b \in Requests, a # b PROVE Apart(a, b)'
  <2>1. CASE a # r /\ b # r
    <3>1. req'[a] = req[a] /\ req'[b] = req[b]
      BY <1>6, <2>1
    <3>2. Apart(a, b)
      BY <1>12 DEF AccountsInv
    <3> QED
      BY <3>1, <3>2 DEF Apart
  <2>2. CASE a = r \/ b = r
    BY <1>7, <2>2 DEF Apart
  <2> QED
    BY <2>1, <2>2
<1>13. current' \subseteq Requests
  BY <1>8 DEF AccountsInv
<1> QED
  BY <1>6, <1>9, <1>10, <1>11, <1>12, <1>13 DEF AccountsInv

LEMMA DeactivateInv ==
  ASSUME AccountsInv, NEW u \in UserIds, Deactivate(u)
  PROVE  AccountsInv'
<1> DEFINE row == [db[u] EXCEPT !.active = FALSE]
<1>1. RowsInv /\ u \in DOMAIN db /\ u \in AccountIds
  BY UserRows DEF AccountsInv
<1>2. DOMAIN db[u] = {"phone", "email", "active", "password"} /\ Columns(u, db[u])
  BY <1>1 DEF RowsInv, Full
<1>3. /\ DOMAIN row = {"phone", "email", "active", "password"}
      /\ \A f \in DOMAIN row \ {"active"} : row[f] = db[u][f]
  BY <1>2
<1>4. /\ DOMAIN db' = DOMAIN db /\ db'[u] = row /\ (\A k \in DOMAIN db \ {u} : db'[k] = db[k])
      /\ req' = req /\ current' = current
  BY <1>1 DEF Deactivate
<1> HIDE DEF row
<1>5. Columns(u, row) /\ DOMAIN row = Full(u)
  BY <1>1, <1>2, <1>3 DEF Columns, Full
<1>6. Unique(row) = Unique(db[u])
  <2>1. row["phone"] = db[u]["phone"] /\ row["email"] = db[u]["email"]
    BY <1>2, <1>3
  <2>2. \A x : x \in Unique(row) <=> x \in Unique(db[u])
    BY <1>2, <1>3, <2>1, UniqueIs
  <2> QED
    BY <2>2
<1>7. RowsInv'
  <2>1. \A k \in DOMAIN db' : Unique(db'[k]) = Unique(db[k]) /\ Columns(k, db'[k]) /\ DOMAIN db'[k] = Full(k)
    BY <1>1, <1>4, <1>5, <1>6 DEF RowsInv
  <2>2. \A k, l \in DOMAIN db' : k # l => Unique(db'[k]) \intersect Unique(db'[l]) = {}
    BY <1>1, <1>4, <2>1 DEF RowsInv
  <2> QED
    BY <1>1, <1>4, <2>1, <2>2 DEF RowsInv, Unique, Columns
<1>8. ASSUME NEW o \in Requests PROVE RequestInv(o)'
  <2>1. row.password.of = db[u].password.of /\ row.phone = db[u].phone
    BY <1>2, <1>3
  <2>2. u # req[o].call.token \/ o \notin current
    BY <1>1 DEF AccountsInv, RequestInv, GoneInv, CallInv
  <2>3. req[o].step = "commit" /\ u # req[o].write.key => Unique(row) \intersect Unique(req[o].write.cols) = {}
    BY <1>1, <1>6 DEF AccountsInv, RequestInv, WriteInv
  <2> QED
    BY <1>1, <1>4, <1>5, <2>1, <2>2, <2>3, OthersKept
<1>9. \A a, b \in Requests : a # b => Apart(a, b)'
  BY <1>4 DEF AccountsInv, Apart
<1> QED
  BY <1>4, <1>7, <1>8, <1>9 DEF AccountsInv

(* A request that is not being served: it waits to be sent, was turned     *)
(* away by the limiter, or has just been let in.                           *)
LEMMA OutsideInv ==
  ASSUME AccountsInv, NEW r \in Requests, NEW changes,
         req[r].step \in {"idle", "refused"}, changes.step \in {"refused", "arrived"},
         {"step"} \subseteq DOMAIN changes, DOMAIN changes \subseteq {"step", "refused", "until"},
         Moves(r, changes), UNCHANGED <<db, current>>
  PROVE  AccountsInv'
<1>1. DOMAIN changes \subseteq Fields
  BY DEF Fields
<1>2. /\ req' = [o \in Requests |-> req'[o]]
      /\ \A o \in Requests \ {r} : req'[o] = req[o]
      /\ DOMAIN req'[r] = Fields
      /\ \A f \in DOMAIN changes : req'[r][f] = changes[f]
      /\ \A f \in Fields \ DOMAIN changes : req'[r][f] = req[r][f]
  BY <1>1, MovesIs
<1>3. /\ req'[r].step = changes.step /\ req'[r].seen = req[r].seen
      /\ req'[r].call = req[r].call /\ req'[r].write = req[r].write
  BY <1>2 DEF Fields
<1>4. CallInv(r) /\ SessionInv(r) /\ SignInv(r) /\ GoneInv(r)
  BY DEF AccountsInv, RequestInv
<1>5. CallInv(r)' /\ WriteInv(r)' /\ SignInv(r)'
  BY <1>3, <1>4 DEF CallInv, WriteInv, SignInv
<1>6. SessionInv(r)'
  BY <1>2, <1>3, <1>4 DEF SessionInv
<1>7. GoneInv(r)'
  <2>1. r \notin current
    BY <1>4 DEF GoneInv
  <2> QED
    BY <1>3, <2>1 DEF GoneInv
<1>8. \A o \in Requests \ {r} : Apart(r, o)'
  BY <1>3 DEF Apart
<1>9. current' \subseteq current \union {r}
  OBVIOUS
<1> QED
  BY <1>2, <1>5, <1>6, <1>7, <1>8, <1>9, FrameInv DEF RequestInv

LEMMA ArriveInv ==
  ASSUME AccountsInv, NEW r \in Requests, Arrive(r)
  PROVE  AccountsInv'
<1>1. PICK changes : changes = [step |-> "arrived"] /\ Moves(r, changes)
  BY DEF Arrive, Begin, Moves
<1>2. DOMAIN changes = {"step"} /\ changes.step = "arrived"
  BY <1>1
<1>3. req[r].step \in {"idle", "refused"} /\ db' = db /\ current' = current
  BY DEF Arrive, Begin, Comes
<1> QED
  BY <1>1, <1>2, <1>3, OutsideInv

LEMMA TooManyInv ==
  ASSUME AccountsInv, NEW r \in Requests, TooMany(r)
  PROVE  AccountsInv'
<1>1. PICK t, u, changes : changes = [step |-> "refused", refused |-> t, until |-> u] /\ Moves(r, changes)
  BY DEF TooMany, Moves
<1>2. DOMAIN changes = {"step", "refused", "until"} /\ changes.step = "refused"
  BY <1>1
<1>3. req[r].step \in {"idle", "refused"} /\ db' = db /\ current' = current
  BY DEF TooMany, Comes
<1> QED
  BY <1>1, <1>2, <1>3, OutsideInv

LEMMA AbortInv ==
  ASSUME AccountsInv, NEW r \in Requests, Abort(r)
  PROVE  AccountsInv'
BY AnswerInv DEF Abort, Busy

LEMMA StillInv ==
  ASSUME AccountsInv, UNCHANGED accountVars
  PROVE  AccountsInv'
BY DEF AccountsInv, RowsInv, RequestInv, CallInv, SessionInv, WriteInv, SignInv, GoneInv, Apart,
       Intended, Retires, Knows, Columns, Unique, accountVars

LEMMA StepAccountsInv == AccountsInv /\ [Next]_vars => AccountsInv'
<1> SUFFICES ASSUME AccountsInv, [Next]_vars PROVE AccountsInv'
  OBVIOUS
<1>1. ASSUME NEW r \in Requests, Serve(r) PROVE AccountsInv'
  BY <1>1, CheckPhoneInv, ReadLoginInv, AuthenticateInv, SelectTokenInv, SelectOwnedInv,
     LoadPassInv, ReportGoneInv, SelectGoneInv, FlushInv, CommitInv DEF Serve
<1>2. ASSUME NEW r \in Requests, Arrive(r) \/ TooMany(r) \/ Abort(r) PROVE AccountsInv'
  BY <1>2, ArriveInv, TooManyInv, AbortInv
<1>3. ASSUME NEW u \in UserIds, Deactivate(u) PROVE AccountsInv'
  BY <1>3, DeactivateInv
<1>4. CASE UNCHANGED accountVars
  BY <1>4, StillInv
<1> QED
  BY <1>1, <1>2, <1>3, <1>4 DEF Next, vars, accountVars

LEMMA InitAccountsInv == Init => AccountsInv
<1> SUFFICES ASSUME Init PROVE AccountsInv
  OBVIOUS
<1>1. /\ DOMAIN db = DOMAIN Users \union DOMAIN Devices
      /\ \A k \in DOMAIN db : db[k] = IF k \in DOMAIN Users THEN Users[k] ELSE Devices[k]
      /\ current = {}
  BY DEF Init, AccountsInit
<1>2. PICK calls \in Scenarios :
        req = [r \in Requests |->
               [step |-> "idle", call |-> calls[r], seen |-> Empty, plan |-> None,
                write |-> Closed, answer |-> 0, refused |-> 0, until |-> 0]]
  BY DEF Init, AccountsInit
<1>3. ASSUME NEW r \in Requests
      PROVE  DOMAIN req[r] = Fields /\ req[r].step = "idle" /\ req[r].call = calls[r] /\ req[r].seen = Empty
             /\ req[r].write = Closed
  BY <1>2 DEF Fields
<1>4. ASSUME NEW k \in DOMAIN db
      PROVE  /\ Columns(k, db[k]) /\ DOMAIN db[k] = Full(k)
             /\ k \in DOMAIN Users => Unique(db[k]) = Unique(Users[k])
             /\ k \notin DOMAIN Users => Unique(db[k]) = {}
  <2>1. CASE k \in DOMAIN Users
    <3>1. db[k] = Users[k] /\ k \in AccountIds
      BY <1>1, <2>1 DEF AccountIds
    <3>2. DOMAIN Users[k] = {"phone", "email", "active", "password"} /\ IsPhone(Users[k].phone)
          /\ IsEmail(Users[k].email)
      BY <2>1, AccountsAssumption DEF IsPhone, IsEmail
    <3> QED
      BY <2>1, <3>1, <3>2 DEF Columns, Full
  <2>2. CASE k \notin DOMAIN Users
    <3>1. db[k] = Devices[k] /\ k \notin AccountIds /\ DOMAIN Devices[k] = {"owner", "active", "gone"}
      BY <1>1, <2>2, AccountsAssumption DEF AccountIds
    <3>2. Unique(db[k]) = {}
      BY <3>1, UniqueIs
    <3> QED
      BY <2>2, <3>1, <3>2 DEF Columns, Full
  <2> QED
    BY <2>1, <2>2
<1>5. ASSUME NEW u \in DOMAIN Users, NEW v \in DOMAIN Users, u # v
      PROVE  Unique(Users[u]) \intersect Unique(Users[v]) = {}
  <2>1. Users[u].phone # Users[v].phone /\ (Users[u].email = Users[v].email => Users[u].email = None)
    BY <1>5, AccountsAssumption
  <2>2. ASSUME NEW x \in Unique(Users[u]), x \in Unique(Users[v]) PROVE FALSE
    <3>1. \/ x = <<"phone", Users[u]["phone"]>>
          \/ x = <<"email", Users[u]["email"]>> /\ Users[u]["email"] # None
      BY <2>2, UniqueIs
    <3>2. \/ x = <<"phone", Users[v]["phone"]>>
          \/ x = <<"email", Users[v]["email"]>> /\ Users[v]["email"] # None
      BY <2>2, UniqueIs
    <3> QED
      BY <2>1, <3>1, <3>2
  <2> QED
    BY <2>2
<1>6. RowsInv
  <2>1. None \notin DOMAIN db
    BY <1>1, AccountsAssumption
  <2>2. \A k, l \in DOMAIN db : k # l => Unique(db[k]) \intersect Unique(db[l]) = {}
    BY <1>4, <1>5
  <2> QED
    BY <1>4, <2>1, <2>2 DEF RowsInv
<1>7. ASSUME NEW r \in Requests PROVE RequestInv(r)
  <2>1. CallInv(r)
    <3>1. /\ calls[r].op \in {"register", "login", "update_me", "device", "deregister", "retire"}
          /\ calls[r].op \in {"device", "deregister", "retire"} =>
               calls[r].token \notin DOMAIN Users \union Requests \union {None}
      BY AccountsAssumption, Zenon
    <3> QED
      BY <1>3, <3>1 DEF CallInv, AccountIds
  <2>2. SessionInv(r)
    BY <1>3 DEF SessionInv, Empty
  <2>3. WriteInv(r) /\ GoneInv(r)
    BY <1>1, <1>3 DEF WriteInv, GoneInv
  <2>4. SignInv(r)
    BY <1>1, <1>3, AccountsAssumption DEF SignInv
  <2> QED
    BY <2>1, <2>2, <2>3, <2>4 DEF RequestInv
<1>8. \A r, o \in Requests : r # o => Apart(r, o)
  BY <1>3 DEF Apart
<1>9. req = [r \in Requests |-> req[r]] /\ current \subseteq Requests
  BY <1>1, <1>2
<1> QED
  BY <1>6, <1>7, <1>8, <1>9 DEF AccountsInv

(* What every request does to the rows, and what it may find there.        *)
THEOREM AccountsInvariant == Spec => []AccountsInv
BY InitAccountsInv, StepAccountsInv, PTL DEF Spec

(* One line has one account, and so has an address, for any accounts at    *)
(* the start and any requests (normalize_phone_number, the constraints).   *)
THEOREM OneAccount == Spec => []OneAccountEach
<1>1. ASSUME AccountsInv PROVE OneAccountEach
  <2> SUFFICES ASSUME NEW u \in UserIds, NEW v \in UserIds, u # v
               PROVE  /\ Line(db[u].phone) # Line(db[v].phone)
                      /\ db[u].email # None /\ db[v].email # None => db[u].email.name # db[v].email.name
    BY DEF OneAccountEach
  <2>1. RowsInv /\ u \in DOMAIN db \intersect AccountIds /\ v \in DOMAIN db \intersect AccountIds
    BY <1>1, UserRows DEF AccountsInv
  <2>2. ASSUME NEW w \in DOMAIN db \intersect AccountIds
        PROVE  "phone" \in DOMAIN db[w] /\ "email" \in DOMAIN db[w] /\ IsPhone(db[w].phone) /\ IsEmail(db[w].email)
    BY <2>1 DEF RowsInv, Full, Columns
  <2>3. Line(db[u].phone) # Line(db[v].phone)
    <3>1. Line(db[u].phone) = <<db[u].phone.line, db[u].phone.country>>
          /\ Line(db[v].phone) = <<db[v].phone.line, db[v].phone.country>>
      BY <2>1, <2>2 DEF Line, IsPhone
    <3>2. db[u].phone # db[v].phone
      BY <1>1, <2>1, UserRows
    <3>3. db[u].phone = [country |-> db[u].phone.country, line |-> db[u].phone.line]
          /\ db[v].phone = [country |-> db[v].phone.country, line |-> db[v].phone.line]
      BY <2>1, <2>2 DEF IsPhone
    <3> QED
      BY <3>1, <3>2, <3>3
  <2>4. ASSUME db[u].email # None, db[v].email # None, db[u].email.name = db[v].email.name PROVE FALSE
    <3>1. db[u].email = db[v].email
      BY <2>1, <2>2, <2>4 DEF IsEmail
    <3>2. <<"email", db[u]["email"]>> \in Unique(db[u]) /\ <<"email", db[v]["email"]>> \in Unique(db[v])
      BY <2>1, <2>2, <2>4, UniqueIs
    <3> QED
      BY <2>1, <3>1, <3>2 DEF RowsInv
  <2> QED
    BY <2>3, <2>4
<1> QED
  BY <1>1, AccountsInvariant, PTL

(* A sign-up's answer tells what became of it, whatever else was written   *)
(* while it was served and wherever its connection was lost.               *)
THEOREM AnswerTrue == Spec => []SignUpTold
<1>1. ASSUME AccountsInv PROVE SignUpTold
  <2> SUFFICES ASSUME NEW r \in Requests, req[r].step = "done", req[r].call.op = "register"
               PROVE  IF req[r].answer = 201
                      THEN /\ r \in UserIds
                           /\ db[r].phone.line = req[r].call.phone.line
                           /\ verify_password(req[r].call.password, db[r].password)
                      ELSE r \notin UserIds
    BY DEF SignUpTold
  <2>1. SignInv(r) /\ RowsInv
    BY <1>1 DEF AccountsInv, RequestInv
  <2>2. r \in UserIds <=> r \in DOMAIN db
    BY <2>1, UserRows DEF AccountIds
  <2> QED
    BY <2>1, <2>2 DEF SignInv, verify_password
<1> QED
  BY <1>1, AccountsInvariant, PTL

(* A retired token gets no push until it is registered again, although the *)
(* UPDATE that retires it leaves out what its session read as it wants it; *)
(* unless the session read the device as off and it was registered before  *)
(* the retirement, for any accounts, devices and calls.                    *)
THEOREM RetiredOff == Spec => []GoneTokensOff
<1>1. ASSUME AccountsInv PROVE GoneTokensOff
  <2> SUFFICES ASSUME NEW r \in Requests, req[r].step = "done", req[r].answer = 204, r \in current
               PROVE  ~db[req[r].call.token].active
    BY DEF GoneTokensOff
  <2>1. db[req[r].call.token].active = FALSE
    BY <1>1 DEF AccountsInv, RequestInv, GoneInv
  <2> QED
    BY <2>1
<1> QED
  BY <1>1, AccountsInvariant, PTL

(* A step of one request: where it leads, and that it moves no other.      *)
LEMMA StepOne ==
  ASSUME AccountsInv, NEW o \in Requests, NEW changes, Moves(o, changes), "step" \in DOMAIN changes
  PROVE  /\ \A r \in Requests \ {o} : req'[r] = req[r]
         /\ req'[o].step = changes.step
         /\ "answer" \in DOMAIN changes => req'[o].answer = changes.answer
<1>1. req = [r \in Requests |-> req[r]]
  BY DEF AccountsInv
<1>2. req'[o] = Over(changes, req[o]) /\ \A r \in Requests \ {o} : req'[r] = req[r]
  BY <1>1 DEF Moves
<1> QED
  BY <1>2 DEF Over

LEMMA ServesOne ==
  ASSUME AccountsInv, NEW o \in Requests, Serve(o)
  PROVE  /\ \A r \in Requests \ {o} : req'[r] = req[r]
         /\ req'[o].step \in {"select", "sending", "gone", "write", "commit", "done"}
<1> DEFINE P == /\ \A r \in Requests \ {o} : req'[r] = req[r]
                /\ req'[o].step \in {"select", "sending", "gone", "write", "commit", "done"}
<1>1. ASSUME NEW changes, Moves(o, changes), "step" \in DOMAIN changes,
             changes.step \in {"select", "sending", "gone", "write", "commit", "done"}
      PROVE  P
  BY <1>1, StepOne
<1> HIDE DEF P
<1> SUFFICES P
  BY DEF P
<1>2. ASSUME NEW status, Answer(o, status) PROVE P
  <2>1. PICK changes : changes = Rollback(status) /\ Moves(o, changes)
    BY <1>2 DEF Answer
  <2> QED
    BY <1>1, <2>1 DEF Rollback
<1>3. ASSUME NEW key, NEW wanted, NEW seen, Plan(o, key, wanted, seen) PROVE P
  <2>1. PICK changes : /\ changes = [step |-> "write", seen |-> seen, plan |-> [key |-> key, wanted |-> wanted]]
                       /\ Moves(o, changes)
    BY <1>3 DEF Plan, Planned
  <2> QED
    BY <1>1, <2>1
<1>4. CASE CheckPhone(o)
  <2>1. Answer(o, 422) \/ Answer(o, 409) \/ Plan(o, o, Account(req[o].call), Empty)
    BY <1>4 DEF CheckPhone, Account
  <2>2. ASSUME Plan(o, o, Account(req[o].call), Empty) PROVE P
    <3>1. PICK wanted : Plan(o, o, wanted, Empty)
      BY <2>2 DEF Plan, Moves
    <3> QED
      BY <1>3, <3>1
  <2> QED
    BY <1>2, <2>1, <2>2
<1>5. CASE ReadLogin(o)
  <2>1. Answer(o, 401) \/ Answer(o, 403) \/ \E u, wanted, seen : Plan(o, u, wanted, seen)
    BY <1>5 DEF ReadLogin, Plan, Moves
  <2> QED
    BY <1>2, <1>3, <2>1
<1>6. CASE Authenticate(o)
  <2>1. \/ Answer(o, 404) \/ Answer(o, 403)
        \/ \E user, wanted, seen : Plan(o, user, wanted, seen)
        \/ \E seen, changes : changes = [step |-> "select", seen |-> seen] /\ Moves(o, changes)
    BY <1>6 DEF Authenticate, Plan, Moves
  <2> QED
    BY <1>1, <1>2, <1>3, <2>1
<1>7. CASE SelectToken(o) \/ SelectOwned(o)
  <2>1. Answer(o, 404) \/ \E token, wanted, seen : Plan(o, token, wanted, seen)
    BY <1>7 DEF SelectToken, SelectOwned, Plan, Moves
  <2> QED
    BY <1>2, <1>3, <2>1
<1>10. CASE LoadPass(o) \/ ReportGone(o) \/ SelectGone(o)
  <2>1. Answer(o, 200) \/ \E changes : /\ "step" \in DOMAIN changes
                                       /\ changes.step \in {"sending", "gone", "write"}
                                       /\ Moves(o, changes)
    BY <1>10 DEF LoadPass, ReportGone, SelectGone, Planned, Moves
  <2> QED
    BY <1>1, <1>2, <2>1
<1>8. CASE Flush(o)
  <2>1. Answer(o, 409) \/ \E changes : /\ "step" \in DOMAIN changes /\ changes.step = "commit"
                                       /\ Moves(o, changes)
    BY <1>8, FlushIs
  <2> QED
    BY <1>1, <1>2, <2>1
<1>9. CASE Commit(o)
  <2>1. PICK status, changes : changes = Rollback(status) /\ Moves(o, changes)
    BY <1>9 DEF Commit, Moves
  <2> QED
    BY <1>1, <2>1 DEF Rollback
<1> QED
  BY <1>4, <1>5, <1>6, <1>7, <1>8, <1>9, <1>10 DEF Serve

(* The steps that answer 409 to a sign-up.                                 *)
LEMMA RefusesForCause ==
  ASSUME AccountsInv, [Next]_vars, NEW r \in Requests,
         req[r].step # "done", req'[r].step = "done", req'[r].answer = 409, req[r].call.op = "register"
  PROVE  CheckPhone(r) \/ Flush(r)
<1>1. ASSUME NEW o \in Requests, Arrive(o) PROVE FALSE
  <2>1. PICK changes : Moves(o, changes) /\ changes = [step |-> "arrived"]
    BY <1>1 DEF Arrive, Begin
  <2> QED
    BY <2>1, StepOne
<1>2. ASSUME NEW o \in Requests, TooMany(o) PROVE FALSE
  <2>1. PICK t, u, changes : Moves(o, changes) /\ changes = [step |-> "refused", refused |-> t, until |-> u]
    BY <1>2, ZenonT(60) DEF TooMany, Moves
  <2> QED
    BY <2>1, StepOne
<1>3. ASSUME NEW o \in Requests, Serve(o) PROVE o = r /\ (CheckPhone(o) \/ Flush(o))
  <2>1. o = r
    BY <1>3, ServesOne
  <2>2. ASSUME Commit(r) PROVE FALSE
    <3>1. PICK c : Moves(r, c) /\ c = Rollback(Success("register"))
      BY <2>2 DEF Commit
    <3>2. "step" \in DOMAIN c /\ "answer" \in DOMAIN c /\ c.answer # 409
      BY <3>1 DEF Rollback, Success
    <3> QED
      BY <3>1, <3>2, StepOne
  <2>3. ~(ReadLogin(r) \/ Authenticate(r) \/ SelectToken(r) \/ SelectOwned(r))
    BY SMTT(30) DEF ReadLogin, Authenticate, SelectToken, SelectOwned, At
  <2>4. ~(LoadPass(r) \/ ReportGone(r) \/ SelectGone(r))
    BY SMTT(30) DEF LoadPass, ReportGone, SelectGone, At
  <2> QED
    BY <1>3, <2>1, <2>2, <2>3, <2>4 DEF Serve
<1>4. ASSUME NEW o \in Requests, Abort(o) PROVE FALSE
  <2>1. PICK c : Moves(o, c) /\ c = Rollback(500)
    BY <1>4 DEF Abort
  <2>2. "step" \in DOMAIN c /\ "answer" \in DOMAIN c /\ c.answer # 409
    BY <2>1 DEF Rollback
  <2> QED
    BY <2>1, <2>2, StepOne
<1>5. req' # req
  OBVIOUS
<1>6. ASSUME NEW u \in UserIds, Deactivate(u) PROVE FALSE
  BY <1>5, <1>6 DEF Deactivate
<1> QED
  BY <1>1, <1>2, <1>3, <1>4, <1>5, <1>6 DEF Next, vars, accountVars

(* A sign-up is refused as registered only for a committed account: a row  *)
(* that clashes holds its number or its address.                           *)
THEOREM CauseCommitted == Spec => RefusedForCause
<1>1. ASSUME AccountsInv, [Next]_vars, NEW r \in Requests,
             req[r].step # "done", req'[r].step = "done", req'[r].answer = 409, req[r].call.op = "register"
      PROVE  \E u \in UserIds :
               \/ db[u].phone = normalize_phone_number(req[r].call.phone)
               \/ req[r].call.email # None /\ db[u].email = lower(req[r].call.email)
  <2> DEFINE c == req[r].call
  <2>1. RowsInv /\ SignInv(r) /\ SessionInv(r)
    BY <1>1 DEF AccountsInv, RequestInv
  <2>2. r \notin DOMAIN db
    BY <1>1, <2>1 DEF SignInv
  <2>3. ASSUME NEW changes, Moves(r, changes), "step" \in DOMAIN changes,
               changes.step # "done" \/ ("answer" \in DOMAIN changes /\ changes.answer # 409)
        PROVE  FALSE
    BY <1>1, <2>3, StepOne
  <2>4. CASE CheckPhone(r)
    <3>1. \/ Answer(r, 422) \/ exists_by_phone(normalize_phone_number(c.phone))
          \/ \E wanted : Plan(r, r, wanted, Empty)
      BY <2>4 DEF CheckPhone
    <3>2. ~Answer(r, 422)
      <4>1. ASSUME NEW changes, changes = Rollback(422), Moves(r, changes) PROVE FALSE
        BY <2>3, <4>1 DEF Rollback
      <4> QED
        BY <4>1 DEF Answer
    <3>3. ~\E wanted : Plan(r, r, wanted, Empty)
      <4>1. ASSUME NEW changes, NEW wanted, Moves(r, changes),
                   changes = [step |-> "write", seen |-> Empty, plan |-> [key |-> r, wanted |-> wanted]]
            PROVE  FALSE
        BY <2>3, <4>1
      <4> QED
        BY <4>1 DEF Plan, Planned
    <3> QED
      BY <3>1, <3>2, <3>3 DEF exists_by_phone
  <2>5. CASE Flush(r)
    <3>1. req[r].step = "write"
      BY <2>5 DEF Flush
    <3>2. /\ req[r].plan.key = r /\ req[r].plan.wanted = Account(c) /\ DOMAIN req[r].seen = {}
      BY <1>1, <2>1, <3>1 DEF SessionInv, Intended, Empty
    <3>3. ~Clash(r, Account(c), TRUE) => FALSE
      <4>1. ASSUME ~Clash(r, Account(c), TRUE) PROVE \E cols : Moves(r, [step |-> "commit", write |-> [key |-> r, cols |-> cols]])
        BY <2>5, <3>2, <4>1 DEF Flush, Moves
      <4>2. ASSUME NEW cols, NEW changes, changes = [step |-> "commit", write |-> [key |-> r, cols |-> cols]],
                   Moves(r, changes)
            PROVE  FALSE
        BY <2>3, <4>2
      <4> QED
        BY <4>1, <4>2
    <3>4. PICK k, x : k \in DOMAIN db /\ x \in Unique(db[k]) /\ x \in Unique(Account(c))
      BY <2>2, <3>3 DEF Clash
    <3>5. k \in UserIds
      BY <2>1, <3>4, UniqueIs DEF RowsInv, Full, UserIds, IsUser
    <3>6. /\ Account(c)["phone"] = normalize_phone_number(c.phone)
          /\ Account(c)["email"] = lower(c.email) /\ (lower(c.email) # None => c.email # None)
      BY DEF Account, lower
    <3>7. \/ x = <<"phone", db[k]["phone"]>> /\ x = <<"phone", Account(c)["phone"]>>
          \/ x = <<"email", db[k]["email"]>> /\ x = <<"email", Account(c)["email"]>> /\ Account(c)["email"] # None
      <4>1. \A a, b : <<"phone", a>> # <<"email", b>>
        OBVIOUS
      <4> QED
        BY <3>4, <4>1, UniqueIs
    <3> QED
      BY <3>5, <3>6, <3>7
  <2> QED
    BY <1>1, <2>4, <2>5, RefusesForCause
<1>2. AccountsInv /\ [Next]_vars =>
        [\A r \in Requests :
           req[r].step # "done" /\ req'[r].step = "done" /\ req'[r].answer = 409 /\ req[r].call.op = "register" =>
             \E u \in UserIds :
               \/ db[u].phone = normalize_phone_number(req[r].call.phone)
               \/ req[r].call.email # None /\ db[u].email = lower(req[r].call.email)]_vars
  BY <1>1
<1> QED
  BY <1>2, AccountsInvariant, PTL DEF Spec, RefusedForCause

-----------------------------------------------------------------------------
(***************************************************************************)
(* The rate limiter.  The queue the code keeps is the recent end of all it *)
(* ever let through: whatever was dropped, by expiry or with an idle key,  *)
(* has expired.                                                            *)
(***************************************************************************)
USE RateLimitAssumption

\* What the queue of a key tells, at a time, of the requests let through.
Ordered(times, at) ==
  /\ \A i \in 1..Len(times) : times[i] <= at
  /\ \A i, j \in 1..Len(times) : i <= j => times[i] <= times[j]

Suffix(queue, times, at) ==
  /\ Len(queue) <= Len(times)
  /\ \A j \in 1..Len(queue) : queue[j] = times[Len(times) - Len(queue) + j]
  /\ \A i \in 1..(Len(times) - Len(queue)) : at - times[i] > Window

Spaced(times) == \A i \in 1..(Len(times) - Limit) : times[i + Limit] - times[i] > Window

Recent(queue, times, at) ==
  /\ queue \in Seq(Nat) /\ times \in Seq(Nat)
  /\ Ordered(times, at)
  /\ Suffix(queue, times, at)
  /\ Spaced(times)

LimitInv ==
  /\ now \in Nat
  /\ \A key \in DOMAIN hits \union DOMAIN admitted : Recent(Of(hits, key), Of(admitted, key), now)

-----------------------------------------------------------------------------
LEMMA ConstantTypes == Limit \in Nat \ {0} /\ PruneAt \in Nat \ {0} /\ Window \in Nat
BY DEF Window

(* A key nobody has used, or one that was pruned, has an empty queue.      *)
LEMMA InvEverywhere ==
  ASSUME LimitInv, NEW key
  PROVE  Recent(Of(hits, key), Of(admitted, key), now)
<1>1. CASE key \in DOMAIN hits \union DOMAIN admitted
  BY <1>1 DEF LimitInv
<1>2. CASE key \notin DOMAIN hits \union DOMAIN admitted
  <2>0. now \in Nat
    BY DEF LimitInv
  <2>1. Of(hits, key) = <<>> /\ Of(admitted, key) = <<>>
    BY <1>2 DEF Of
  <2> QED
    BY <2>1 DEF Recent, Ordered, Suffix, Spaced
<1> QED
  BY <1>1, <1>2

(* The loop that drops expired hits stops at the first recent one.         *)
LEMMA FirstLive ==
  ASSUME NEW queue \in Seq(Nat)
  PROVE  /\ Gone(queue) \in 0..Len(queue) /\ \A i \in 1..Gone(queue) : Expired(queue[i])
         /\ Gone(queue) < Len(queue) => ~Expired(queue[Gone(queue) + 1])
<1> DEFINE T == {n \in 0..Len(queue) : n < Len(queue) => ~Expired(queue[n + 1])}
<1>1. Len(queue) \in Nat /\ Len(queue) \in T /\ T \subseteq Nat
  OBVIOUS
<1>2. PICK n \in T : \A m \in T : <<m, n>> \notin OpToRel(<, Nat)
  BY <1>1, NatLessThanWellFounded, WFMin
<1>3. n \in 0..Len(queue) /\ (n < Len(queue) => ~Expired(queue[n + 1]))
  BY <1>2
<1>4. \A m \in T : ~(m < n)
  BY <1>1, <1>2 DEF OpToRel
<1>5. ASSUME NEW i \in 1..n PROVE Expired(queue[i])
  <2>1. i - 1 \in 0..Len(queue) /\ i - 1 < n /\ i - 1 < Len(queue) /\ (i - 1) + 1 = i
    BY <1>1, <1>3
  <2>2. i - 1 \notin T
    BY <1>4, <2>1
  <2> QED
    BY <2>1, <2>2
<1> HIDE DEF T
<1>6. n \in Stops(queue)
  BY <1>3, <1>5 DEF Stops
<1>7. Gone(queue) \in Stops(queue)
  BY <1>6, Zenon DEF Gone
<1> QED
  BY <1>7 DEF Stops

(* Dropping expired hits keeps the queue the recent end of the history.    *)
LEMMA LiveRecent ==
  ASSUME LimitInv, NEW key
  PROVE  Recent(Live(key), Of(admitted, key), now)
<1> DEFINE h == Of(hits, key)
           a == Of(admitted, key)
           l == Live(key)
           n == Gone(h)
<1>1. Recent(h, a, now)
  BY InvEverywhere
<1>2. h \in Seq(Nat) /\ a \in Seq(Nat) /\ Suffix(h, a, now) /\ Len(h) \in Nat /\ Len(a) \in Nat
  BY <1>1 DEF Recent
<1>3. n \in 0..Len(h) /\ n \in Nat /\ l = SubSeq(h, n + 1, Len(h)) /\ \A i \in 1..n : Expired(h[i])
  BY <1>2, FirstLive DEF Live
<1> HIDE DEF h, a, l, n
<1>4. /\ l \in Seq(Nat)
      /\ Len(l) = Len(h) - n
      /\ \A j \in 1..Len(l) : l[j] = h[n + j]
  <2>1. h \in Seq(Nat) /\ Len(h) \in Nat /\ n \in 0..Len(h) /\ l = SubSeq(h, n + 1, Len(h))
    BY <1>2, <1>3
  <2>2. ASSUME NEW i \in (n + 1)..Len(h) PROVE h[i] \in Nat
    <3>1. i \in 1..Len(h)
      BY <2>1
    <3> QED
      BY <2>1, <3>1, ElementOfSeq
  <2>3. /\ l \in Seq(Nat)
        /\ Len(l) = IF n + 1 <= Len(h) THEN Len(h) - (n + 1) + 1 ELSE 0
        /\ \A j \in 1..Len(h) - (n + 1) + 1 : l[j] = h[(n + 1) + j - 1]
    BY <2>1, <2>2, SubSeqProperties, SMTT(30)
  <2>4. Len(l) = Len(h) - n
    BY <2>1, <2>3
  <2>5. ASSUME NEW j \in 1..Len(l) PROVE l[j] = h[n + j]
    <3>1. j \in 1..Len(h) - (n + 1) + 1 /\ (n + 1) + j - 1 = n + j
      BY <2>1, <2>4
    <3> QED
      BY <2>3, <3>1
  <2> QED
    BY <2>3, <2>4, <2>5
<1> DEFINE lengths == /\ Len(a) \in Nat /\ Len(h) \in Nat /\ n \in 0..Len(h)
                      /\ Len(l) = Len(h) - n /\ Len(h) <= Len(a)
<1>5. lengths
  BY <1>2, <1>3, <1>4 DEF Suffix
<1>6. Suffix(l, a, now)
  <2>1. Len(l) <= Len(a)
    BY <1>5
  <2>2. ASSUME NEW j \in 1..Len(l) PROVE l[j] = a[Len(a) - Len(l) + j]
    <3>1. n + j \in 1..Len(h) /\ Len(a) - Len(h) + (n + j) = Len(a) - Len(l) + j
      BY <1>5
    <3> QED
      BY <1>2, <1>4, <3>1 DEF Suffix
  <2>3. ASSUME NEW i \in 1..(Len(a) - Len(l)) PROVE now - a[i] > Window
    <3>1. CASE i <= Len(a) - Len(h)
      BY <1>2, <3>1 DEF Suffix
    <3>2. CASE i > Len(a) - Len(h)
      <4> DEFINE j == i - (Len(a) - Len(h))
      <4>1. j \in 1..n /\ j \in 1..Len(h) /\ Len(a) - Len(h) + j = i
        BY <1>5, <3>2
      <4> HIDE DEF j
      <4>2. h[j] = a[i]
        BY <1>2, <4>1 DEF Suffix
      <4>3. Expired(h[j])
        BY <1>3, <4>1
      <4> QED
        BY <4>2, <4>3 DEF Expired
    <3> QED
      BY <1>2, <1>4, <3>1, <3>2
  <2> QED
    BY <2>1, <2>2, <2>3 DEF Suffix
<1> QED
  BY <1>1, <1>4, <1>6 DEF Recent, h, a, l

(* One more request fits: whoever came Limit requests before has expired.  *)
LEMMA Appended ==
  ASSUME NEW at \in Nat, NEW queue, NEW times, Recent(queue, times, at), Len(queue) < Limit
  PROVE  Recent(Append(queue, at), Append(times, at), at)
<1> DEFINE q == Append(queue, at)
           t == Append(times, at)
<1>1. /\ queue \in Seq(Nat) /\ times \in Seq(Nat)
      /\ Ordered(times, at) /\ Suffix(queue, times, at) /\ Spaced(times)
  BY DEF Recent
<1>2. /\ q \in Seq(Nat) /\ Len(q) = Len(queue) + 1 /\ q[Len(q)] = at
      /\ \A j \in 1..Len(queue) : q[j] = queue[j]
  BY <1>1
<1>3. /\ t \in Seq(Nat) /\ Len(t) = Len(times) + 1 /\ t[Len(t)] = at
      /\ \A j \in 1..Len(times) : t[j] = times[j]
  BY <1>1
<1> HIDE DEF q, t
<1>4. Ordered(t, at)
  <2>1. \A i \in 1..Len(t) : i = Len(t) \/ i \in 1..Len(times)
    BY <1>1, <1>3
  <2>2. \A i \in 1..Len(t) : t[i] <= at
    <3> TAKE i \in 1..Len(t)
    <3>1. at <= at
      OBVIOUS
    <3> QED
      BY <1>1, <1>3, <2>1, <3>1 DEF Ordered
  <2>3. ASSUME NEW i \in 1..Len(t), NEW j \in 1..Len(t), i <= j
        PROVE  t[i] <= t[j]
    <3>1. CASE j = Len(t)
      BY <1>3, <2>2, <3>1
    <3>2. CASE j \in 1..Len(times)
      <4>1. i \in 1..Len(times)
        BY <1>1, <2>3, <3>2
      <4> QED
        BY <1>1, <1>3, <2>3, <3>2, <4>1 DEF Ordered
    <3> QED
      BY <2>1, <3>1, <3>2
  <2> QED
    BY <2>2, <2>3 DEF Ordered
<1>5. Suffix(q, t, at)
  <2>1. Len(q) <= Len(t) /\ Len(t) - Len(q) = Len(times) - Len(queue)
    BY <1>1, <1>2, <1>3 DEF Suffix
  <2>2. ASSUME NEW j \in 1..Len(q) PROVE q[j] = t[Len(t) - Len(q) + j]
    <3>1. CASE j = Len(q)
      <4>1. Len(t) - Len(q) + j = Len(t)
        BY <1>1, <1>2, <1>3, <3>1
      <4> QED
        BY <1>2, <1>3, <3>1, <4>1
    <3>2. CASE j \in 1..Len(queue)
      <4>1. q[j] = times[Len(times) - Len(queue) + j]
        BY <1>1, <1>2, <3>2 DEF Suffix
      <4>2. Len(times) - Len(queue) + j \in 1..Len(times)
        BY <1>1, <3>2 DEF Suffix
      <4> QED
        BY <1>1, <1>3, <2>1, <4>1, <4>2
    <3> QED
      BY <1>1, <1>2, <3>1, <3>2
  <2>3. ASSUME NEW i \in 1..(Len(t) - Len(q)) PROVE at - t[i] > Window
    <3>1. i \in 1..(Len(times) - Len(queue)) /\ i \in 1..Len(times)
      <4>1. Len(times) \in Nat /\ Len(queue) \in Nat
        BY <1>1
      <4> QED
        BY <2>1, <4>1
    <3>2. t[i] = times[i]
      BY <1>3, <3>1
    <3>3. at - times[i] > Window
      BY <1>1, <3>1 DEF Suffix
    <3> QED
      BY <3>2, <3>3
  <2> QED
    BY <2>1, <2>2, <2>3 DEF Suffix
<1>6. Spaced(t)
  <2> SUFFICES ASSUME NEW i \in 1..(Len(t) - Limit) PROVE t[i + Limit] - t[i] > Window
    BY DEF Spaced
  <2>1. CASE i \in 1..(Len(times) - Limit)
    <3>1. i \in 1..Len(times) /\ i + Limit \in 1..Len(times)
      BY <1>1, <2>1, ConstantTypes
    <3> QED
      BY <1>1, <1>3, <2>1, <3>1 DEF Spaced
  <2>2. CASE i = Len(times) + 1 - Limit
    <3>1. i \in 1..(Len(times) - Len(queue)) /\ i \in 1..Len(times) /\ i + Limit = Len(t)
      BY <1>1, <1>3, <2>2, ConstantTypes
    <3>2. at - times[i] > Window
      BY <1>1, <3>1 DEF Suffix
    <3>3. t[i + Limit] = at /\ t[i] = times[i]
      BY <1>3, <3>1
    <3> QED
      BY <3>2, <3>3
  <2>3. i \in 1..(Len(times) - Limit) \/ i = Len(times) + 1 - Limit
    <3>1. Len(times) \in Nat /\ Len(t) = Len(times) + 1
      BY <1>1, <1>3
    <3> QED
      BY <3>1, ConstantTypes
  <2> QED
    BY <2>1, <2>2, <2>3
<1> QED
  BY <1>2, <1>3, <1>4, <1>5, <1>6 DEF Recent, q, t

(* Time passes: what has expired stays so.                                 *)
LEMMA Later ==
  ASSUME NEW at \in Nat, NEW then \in Nat, at <= then,
         NEW queue, NEW times, Recent(queue, times, at)
  PROVE  Recent(queue, times, then)
<1>1. times \in Seq(Nat) /\ Ordered(times, at) /\ Suffix(queue, times, at)
  BY DEF Recent
<1>2. \A i \in 1..Len(times) : times[i] \in Nat
  BY <1>1
<1>3. Ordered(times, then)
  <2>1. ASSUME NEW i \in 1..Len(times) PROVE times[i] <= then
    <3>1. times[i] \in Nat /\ times[i] <= at
      BY <1>1, <1>2 DEF Ordered
    <3> QED
      BY <3>1
  <2> QED
    BY <1>1, <2>1 DEF Ordered
<1>4. queue \in Seq(Nat)
  BY DEF Recent
<1>5. ASSUME NEW i \in 1..(Len(times) - Len(queue)) PROVE then - times[i] > Window
  <2>1. i \in 1..Len(times)
    BY <1>1, <1>4
  <2>2. at - times[i] > Window
    BY <1>1 DEF Suffix
  <2> QED
    BY <1>2, <2>1, <2>2, ConstantTypes
<1> QED
  BY <1>1, <1>3, <1>5 DEF Recent, Suffix

(* A function changed at one key.                                          *)
LEMMA OfWith ==
  ASSUME NEW times, NEW key, NEW value, NEW other
  PROVE  Of(With(times, key, value), other) = IF other = key THEN value ELSE Of(times, other)
BY DEF Of, With

(* Pruning leaves a queue as it is, or drops one that had expired.         *)
LEMMA OfPruned ==
  ASSUME NEW queues, NEW key
  PROVE  \/ Of(_prune(queues), key) = Of(queues, key)
         \/ /\ Of(_prune(queues), key) = <<>>
            /\ Of(queues, key) # <<>> => Expired(Last(Of(queues, key)))
BY DEF Of, _prune

(* A queue whose last hit has expired may be forgotten.                    *)
LEMMA Forgotten ==
  ASSUME NEW at \in Nat, NEW queue, NEW times, Recent(queue, times, at),
         queue # <<>> => at - Last(queue) > Window
  PROVE  Recent(<<>>, times, at)
<1>1. /\ queue \in Seq(Nat) /\ times \in Seq(Nat) /\ Len(times) \in Nat /\ Len(queue) \in Nat
      /\ Ordered(times, at) /\ Suffix(queue, times, at)
  BY DEF Recent
<1>2. ASSUME NEW i \in 1..Len(times) PROVE at - times[i] > Window
  <2>1. CASE queue = <<>>
    BY <1>1, <2>1 DEF Suffix
  <2>2. CASE queue # <<>>
    <3>1. Len(queue) \in 1..Len(queue) /\ Last(queue) = queue[Len(queue)]
      BY <1>1, <2>2 DEF Last
    <3>2. Len(queue) <= Len(times) /\ queue[Len(queue)] = times[Len(times) - Len(queue) + Len(queue)]
      BY <1>1, <3>1 DEF Suffix
    <3>3. Len(times) - Len(queue) + Len(queue) = Len(times) /\ Len(times) \in 1..Len(times)
      <4>1. Len(times) \in Nat /\ Len(queue) \in Nat
        BY <1>1
      <4>2. Len(queue) >= 1 /\ Len(queue) <= Len(times)
        BY <3>1, <3>2, <4>1
      <4> QED
        BY <4>1, <4>2, SMTT(30)
    <3>4. Last(queue) = times[Len(times)]
      BY <3>1, <3>2, <3>3
    <3>5. times[i] \in Nat /\ times[Len(times)] \in Nat
      BY <1>1, <3>3
    <3>6. times[i] <= times[Len(times)]
      <4>1. i <= Len(times)
        BY <1>1
      <4> QED
        BY <1>1, <3>3, <4>1 DEF Ordered
    <3> QED
      BY <2>2, <3>4, <3>5, <3>6, ConstantTypes
  <2> QED
    BY <2>1, <2>2
<1> QED
  BY <1>1, <1>2 DEF Recent, Suffix

-----------------------------------------------------------------------------
LEMMA InitLimitInv == Init => LimitInv
BY DEF Init, LimitInit, LimitInv

LEMMA AdmitInv ==
  ASSUME LimitInv, NEW k, Admit(k)
  PROVE  LimitInv'
<1>1. now \in Nat /\ now' = now
  BY DEF LimitInv, Admit
<1> DEFINE queues == With(hits, k, Append(Live(k), now))
<1>2. ASSUME NEW key PROVE Recent(Of(queues, key), Of(admitted', key), now)
  <2>1. CASE key = k
    <3>1. Recent(Append(Live(k), now), Append(Of(admitted, k), now), now)
      BY <1>1, LiveRecent, Appended DEF Admit, HasRoom
    <3> QED
      BY <2>1, <3>1, OfWith DEF Admit
  <2>2. CASE key # k
    BY <2>2, InvEverywhere, OfWith DEF Admit
  <2> QED
    BY <2>1, <2>2
<1> HIDE DEF queues
<1>3. hits' = _prune(queues)
  BY DEF Admit, queues
<1>4. ASSUME NEW key PROVE Recent(Of(hits', key), Of(admitted', key), now)
  BY <1>1, <1>2, <1>3, OfPruned, Forgotten DEF Expired
<1> QED
  BY <1>1, <1>4 DEF LimitInv

LEMMA RefuseInv ==
  ASSUME LimitInv, NEW k, Refuse(k)
  PROVE  LimitInv'
<1>1. now \in Nat /\ now' = now /\ admitted' = admitted
  BY DEF LimitInv, Refuse
<1>2. ASSUME NEW key PROVE Recent(Of(hits', key), Of(admitted, key), now)
  BY InvEverywhere, LiveRecent, OfWith DEF Refuse
<1> QED
  BY <1>1, <1>2 DEF LimitInv

LEMMA TickInv ==
  ASSUME LimitInv, Tick
  PROVE  LimitInv'
<1>1. now \in Nat /\ now' \in Nat /\ now <= now' /\ hits' = hits /\ admitted' = admitted
  BY DEF LimitInv, Tick
<1>2. ASSUME NEW key PROVE Recent(Of(hits, key), Of(admitted, key), now')
  BY <1>1, InvEverywhere, Later
<1> QED
  BY <1>1, <1>2 DEF LimitInv

LEMMA KeptInv ==
  ASSUME LimitInv, UNCHANGED limitVars
  PROVE  LimitInv'
BY DEF LimitInv, limitVars

LEMMA StepLimitInv == LimitInv /\ [Next]_vars => LimitInv'
<1> SUFFICES ASSUME LimitInv, [Next]_vars PROVE LimitInv'
  OBVIOUS
<1>1. CASE \E r \in Requests : Arrive(r)
  BY <1>1, AdmitInv, KeptInv DEF Arrive
<1>2. CASE \E r \in Requests : TooMany(r)
  BY <1>2, RefuseInv DEF TooMany
<1>3. CASE UNCHANGED limitVars
  BY <1>3, KeptInv
<1>4. CASE Tick
  BY <1>4, TickInv
<1>5. CASE UNCHANGED vars
  BY <1>5, <1>3 DEF vars, limitVars
<1> QED
  BY <1>1, <1>2, <1>3, <1>4, <1>5 DEF Next

(* The queue of each client and path is the recent end of its history, and *)
(* no window of that history is overfull (RateLimitMiddleware).            *)
THEOREM LimitInvariant == Spec => []LimitInv
BY InitLimitInv, StepLimitInv, PTL DEF Spec

(* No span of a whole window holds more than Limit requests of one client  *)
(* and path, for any Limit, Window and PruneAt.                            *)
THEOREM LimitHolds == Spec => []WindowRespected
<1>1. LimitInv => WindowRespected
  BY DEF LimitInv, Recent, Spaced, WindowRespected, Of
<1> QED
  BY <1>1, LimitInvariant, PTL

-----------------------------------------------------------------------------
(***************************************************************************)
(* A client that was turned away.                                          *)
(***************************************************************************)
\* The oldest of the last Limit requests that were let through.
Oldest(times) == times[Len(times) - Limit + 1]

\* When r was turned away its window was full, and until is past the time
\* the oldest request in it leaves, if nobody was let in since.
RetryInv(r) ==
  LET q == req[r]
      a == Of(admitted, Key(q.call))
  IN  q.step = "refused" =>
        /\ q.refused \in Nat /\ q.until \in Int /\ q.refused <= now
        /\ (\A i \in 1..Len(a) : a[i] <= q.refused) =>
             /\ Len(a) >= Limit
             /\ q.refused - Oldest(a) <= Window
             /\ Oldest(a) + Window < q.until

LEMMA RoundsUp ==
  ASSUME NEW y \in Nat, NEW p \in Nat \ {0}
  PROVE  y \div p \in Int /\ (y \div p + 1) * p > y
BY SMTT(30)

(* What the limiter keeps of a key has not expired.                        *)
LEMMA LiveIs ==
  ASSUME LimitInv, NEW key
  PROVE  /\ Live(key) \in Seq(Nat) /\ Len(Live(key)) \in Nat
         /\ Of(admitted, key) \in Seq(Nat) /\ Len(Of(admitted, key)) \in Nat
         /\ Len(Live(key)) <= Len(Of(admitted, key))
         /\ Ordered(Of(admitted, key), now) /\ Suffix(Live(key), Of(admitted, key), now)
         /\ Spaced(Of(admitted, key))
         /\ Len(Live(key)) > 0 => ~Expired(Live(key)[1])
<1> DEFINE h == Of(hits, key)
           n == Gone(h)
<1>1. Recent(Live(key), Of(admitted, key), now)
  BY LiveRecent
<1>2. h \in Seq(Nat) /\ Len(h) \in Nat
  BY InvEverywhere DEF Recent
<1>3. n \in 0..Len(h) /\ (n < Len(h) => ~Expired(h[n + 1]))
  BY <1>2, FirstLive
<1>4. Live(key) = SubSeq(h, n + 1, Len(h))
  BY DEF Live
<1> HIDE DEF h, n
<1>5. ASSUME Len(Live(key)) > 0 PROVE ~Expired(Live(key)[1])
  <2>1. n < Len(h) /\ Live(key)[1] = h[n + 1]
    <3>1. \A i \in n + 1..Len(h) : h[i] \in Nat
      BY <1>2, <1>3
    <3>2. /\ Len(Live(key)) = IF n + 1 <= Len(h) THEN Len(h) - (n + 1) + 1 ELSE 0
          /\ \A i \in 1..Len(h) - (n + 1) + 1 : Live(key)[i] = h[(n + 1) + i - 1]
      BY <1>2, <1>3, <1>4, <3>1, SubSeqProperties, SMTT(30)
    <3>3. n + 1 <= Len(h) /\ 1 \in 1..Len(h) - (n + 1) + 1 /\ (n + 1) + 1 - 1 = n + 1
      BY <1>2, <1>3, <1>5, <3>2
    <3> QED
      BY <1>2, <1>3, <3>2, <3>3
  <2> QED
    BY <1>3, <2>1
<1> QED
  BY <1>1, <1>2, <1>5 DEF Recent, Suffix

(* The answer of the limiter tells the client to wait long enough.         *)
LEMMA TooManyRetry ==
  ASSUME AccountsInv, LimitInv, NEW r \in Requests, TooMany(r)
  PROVE  RetryInv(r)'
<1> DEFINE key == Key(req[r].call)
           a == Of(admitted, key)
           l == Live(key)
           x == l[1]
           y == Window - (now - x)
<1>1. /\ ~HasRoom(key) /\ UNCHANGED <<now, admitted>>
      /\ Moves(r, [step |-> "refused", refused |-> now, until |-> now + retry_after(key) * PerSecond])
  BY DEF TooMany, Refuse
<1>2. /\ l \in Seq(Nat) /\ Len(l) \in Nat /\ a \in Seq(Nat) /\ Len(a) \in Nat /\ Len(l) <= Len(a)
      /\ Ordered(a, now) /\ Suffix(l, a, now) /\ Spaced(a) /\ (Len(l) > 0 => ~Expired(x))
  BY LiveIs
<1>3. Len(l) >= Limit /\ Len(l) > 0 /\ Limit \in Nat \ {0} /\ now \in Nat /\ Window \in Nat
  BY <1>1, <1>2, ConstantTypes DEF HasRoom, LimitInv
<1>4. retry_after(key) = y \div PerSecond + 1 /\ x \in Nat
  BY <1>2, <1>3 DEF retry_after
<1> HIDE DEF a, l
<1>5. now - x <= Window /\ x = a[Len(a) - Len(l) + 1]
  <2>1. 1 \in 1..Len(l)
    BY <1>2, <1>3
  <2>2. l[1] = a[Len(a) - Len(l) + 1]
    BY <1>2, <2>1 DEF Suffix
  <2>3. ~(now - x > Window)
    BY <1>2, <1>3 DEF Expired
  <2> QED
    BY <1>3, <1>4, <2>2, <2>3
<1>6. Len(l) = Limit
  <2> SUFFICES ASSUME Len(l) > Limit PROVE FALSE
    BY <1>2, <1>3
  <2> DEFINE i == Len(a) - Len(l) + 1
  <2>1. i \in 1..(Len(a) - Limit) /\ i + Limit \in 1..Len(a) /\ i \in 1..Len(a)
    BY <1>2, <1>3
  <2> HIDE DEF i
  <2>2. a[i] \in Nat /\ a[i + Limit] \in Nat
    <3>1. \A k \in 1..Len(a) : a[k] \in Nat
      BY <1>2
    <3> QED
      BY <2>1, <3>1
  <2>3. a[i + Limit] - a[i] > Window /\ a[i + Limit] <= now
    BY <1>2, <2>1 DEF Spaced, Ordered
  <2> QED
    BY <1>3, <1>5, <2>2, <2>3 DEF i
<1>7. y \in Nat /\ PerSecond \in Nat \ {0} /\ x + Window = now + y
  BY <1>3, <1>4, <1>5
<1>8. x = Oldest(a)
  BY <1>5, <1>6 DEF Oldest
<1> HIDE DEF x, y
<1>9. y \div PerSecond \in Int /\ (y \div PerSecond + 1) * PerSecond > y
  BY <1>7, RoundsUp
<1>10. PICK u : /\ u = now + retry_after(key) * PerSecond
                /\ Moves(r, [step |-> "refused", refused |-> now, until |-> u])
  BY <1>1
<1>11. u \in Int /\ x + Window < u
  <2>1. PICK d \in Int : d = (y \div PerSecond + 1) * PerSecond
    BY <1>7, <1>9
  <2>2. u = now + d /\ d > y
    BY <1>4, <1>9, <1>10, <2>1
  <2> QED
    BY <1>3, <1>7, <2>1, <2>2
<1>12. req'[r].step = "refused" /\ req'[r].refused = now /\ req'[r].until = u /\ req'[r].call = req[r].call
  <2>1. req' = [req EXCEPT ![r] = Over([step |-> "refused", refused |-> now, until |-> u], req[r])]
    BY <1>10 DEF Moves
  <2>2. req = [o \in Requests |-> req[o]] /\ DOMAIN req[r] = Fields
    BY DEF AccountsInv, RequestInv, SessionInv
  <2>3. req'[r] = Over([step |-> "refused", refused |-> now, until |-> u], req[r])
    BY <2>1, <2>2
  <2> QED
    BY <2>2, <2>3 DEF Over, Fields
<1>13. Len(a) >= Limit /\ now - Oldest(a) <= Window /\ Oldest(a) + Window < u
  BY <1>2, <1>5, <1>6, <1>8, <1>11
<1> QED
  BY <1>1, <1>3, <1>11, <1>12, <1>13 DEF RetryInv, a

(* Nobody is let in at the tick r was turned away.                         *)
LEMMA AdmitRetry ==
  ASSUME LimitInv, NEW r, NEW key, RetryInv(r), Admit(key), req'[r] = req[r]
  PROVE  RetryInv(r)'
<1> DEFINE mine == Key(req[r].call)
           a == Of(admitted, mine)
           l == Live(mine)
           q == req[r]
<1> SUFFICES ASSUME q.step = "refused" PROVE RetryInv(r)'
  BY DEF RetryInv
<1>1. now' = now /\ now \in Nat /\ admitted' = With(admitted, key, Append(Of(admitted, key), now))
  BY DEF Admit, LimitInv
<1>2. CASE key # mine
  <2>1. Of(admitted', mine) = a
    BY <1>1, <1>2, OfWith
  <2> QED
    BY <1>1, <2>1 DEF RetryInv
<1>3. CASE key = mine
  <2>1. Of(admitted', mine) = Append(a, now)
    <3>1. \A v : Of(With(admitted, key, v), key) = v
      BY OfWith
    <3> QED
      BY <1>1, <1>3, <3>1
  <2>2. /\ l \in Seq(Nat) /\ Len(l) \in Nat /\ a \in Seq(Nat) /\ Len(a) \in Nat /\ Len(l) <= Len(a)
        /\ Suffix(l, a, now)
    BY LiveIs
  <2>3. Len(l) < Limit /\ Limit \in Nat \ {0} /\ Window \in Nat
    BY <1>3, ConstantTypes DEF Admit, HasRoom
  <2>4. /\ q.refused \in Nat /\ q.until \in Int /\ q.refused <= now
        /\ (\A i \in 1..Len(a) : a[i] <= q.refused) => Len(a) >= Limit /\ q.refused - Oldest(a) <= Window
    BY DEF RetryInv
  <2> HIDE DEF a, l
  <2>5. ASSUME \A i \in 1..Len(Append(a, now)) : Append(a, now)[i] <= q.refused PROVE FALSE
    <3>1. Len(Append(a, now)) = Len(a) + 1 /\ Append(a, now)[Len(a) + 1] = now
          /\ \A i \in 1..Len(a) : Append(a, now)[i] = a[i]
      BY <1>1, <2>2
    <3>2. now <= q.refused /\ \A i \in 1..Len(a) : a[i] <= q.refused
      <4>1. Len(a) + 1 \in 1..(Len(a) + 1) /\ \A i \in 1..Len(a) : i \in 1..(Len(a) + 1)
        BY <2>2
      <4> QED
        BY <2>5, <3>1, <4>1
    <3>3. Len(a) >= Limit /\ now - Oldest(a) <= Window
      BY <1>1, <2>4, <3>2
    <3>4. Len(a) - Limit + 1 \in 1..(Len(a) - Len(l))
      BY <2>2, <2>3, <3>3
    <3>5. now - a[Len(a) - Limit + 1] > Window /\ a[Len(a) - Limit + 1] \in Nat
      BY <2>2, <3>4, SMTT(30) DEF Suffix
    <3> QED
      BY <1>1, <2>3, <3>3, <3>5 DEF Oldest
  <2> QED
    BY <1>1, <2>1, <2>4, <2>5 DEF RetryInv
<1> QED
  BY <1>2, <1>3

LEMMA WaitRetry ==
  ASSUME NEW r, RetryInv(r), req'[r] = req[r], admitted' = admitted,
         now \in Nat, now' \in Nat, now <= now'
  PROVE  RetryInv(r)'
BY DEF RetryInv

LEMMA StepRetryInv ==
  ASSUME AccountsInv, LimitInv, [Next]_vars, NEW r \in Requests, RetryInv(r)
  PROVE  RetryInv(r)'
<1>1. now \in Nat
  BY DEF LimitInv
<1>2. ASSUME req'[r].step # "refused" PROVE RetryInv(r)'
  BY <1>2 DEF RetryInv
<1>3. ASSUME req'[r] = req[r], admitted' = admitted, now' \in {now, now + 1} PROVE RetryInv(r)'
  BY <1>1, <1>3, WaitRetry
<1>4. ASSUME NEW o \in Requests, Arrive(o) PROVE RetryInv(r)'
  <2>1. PICK changes : Moves(o, changes) /\ changes = [step |-> "arrived"]
    BY <1>4 DEF Arrive, Begin
  <2>2. req'[o].step = "arrived" /\ (o # r => req'[r] = req[r])
    BY <2>1, StepOne
  <2>3. (\E key : Admit(key)) \/ UNCHANGED limitVars
    BY <1>4 DEF Arrive
  <2> QED
    BY <1>2, <1>3, <2>2, <2>3, AdmitRetry DEF limitVars
<1>5. ASSUME NEW o \in Requests, TooMany(o) PROVE RetryInv(r)'
  <2>1. PICK t, u, changes : Moves(o, changes) /\ changes = [step |-> "refused", refused |-> t, until |-> u]
    BY <1>5 DEF TooMany, Moves
  <2>2. o # r => req'[r] = req[r]
    BY <2>1, StepOne
  <2>3. now' = now /\ admitted' = admitted
    BY <1>5 DEF TooMany, Refuse
  <2> QED
    BY <1>3, <1>5, <2>2, <2>3, TooManyRetry
<1>6. ASSUME NEW o \in Requests, Serve(o) \/ Abort(o), UNCHANGED limitVars PROVE RetryInv(r)'
  <2>1. CASE Serve(o)
    BY <1>2, <1>3, <1>6, <2>1, ServesOne DEF limitVars
  <2>2. CASE Abort(o)
    <3>1. PICK changes : Moves(o, changes) /\ changes = Rollback(500)
      BY <2>2 DEF Abort
    <3>2. req'[o].step = "done" /\ (o # r => req'[r] = req[r])
      BY <3>1, StepOne DEF Rollback
    <3> QED
      BY <1>2, <1>3, <1>6, <3>2 DEF limitVars
  <2> QED
    BY <1>6, <2>1, <2>2
<1>7. CASE req' = req /\ admitted' = admitted /\ now' \in {now, now + 1}
  BY <1>3, <1>7
<1> QED
  BY <1>4, <1>5, <1>6, <1>7 DEF Next, Deactivate, Tick, vars, accountVars, limitVars

(* A client that waits out Retry-After is let in, whatever the limit, the  *)
(* window and the moment of its first try, and whatever was pruned.        *)
THEOREM WaitIsEnough == Spec => []RetryHonoured
<1> DEFINE Inv == AccountsInv /\ LimitInv /\ \A r \in Requests : RetryInv(r)
<1>1. Init => Inv
  <2>1. Init => \A r \in Requests : RetryInv(r)
    BY DEF Init, AccountsInit, RetryInv
  <2> QED
    BY <2>1, InitAccountsInv, InitLimitInv
<1>2. Inv /\ [Next]_vars => Inv'
  BY StepAccountsInv, StepLimitInv, StepRetryInv
<1>3. Inv => RetryHonoured
  <2> SUFFICES ASSUME Inv, NEW r \in Requests, req[r].step = "refused", now >= req[r].until,
                      \A i \in DOMAIN Of(admitted, Key(req[r].call)) : admitted[Key(req[r].call)][i] <= req[r].refused
               PROVE  HasRoom(Key(req[r].call))
    BY DEF RetryHonoured
  <2> DEFINE key == Key(req[r].call)
             a == Of(admitted, key)
             l == Live(key)
  <2>1. /\ l \in Seq(Nat) /\ Len(l) \in Nat /\ a \in Seq(Nat) /\ Len(a) \in Nat /\ Len(l) <= Len(a)
        /\ Ordered(a, now) /\ Suffix(l, a, now) /\ (Len(l) > 0 => ~Expired(l[1]))
    BY LiveIs
  <2>2. \A i \in 1..Len(a) : a[i] <= req[r].refused
    <3>1. \A i \in 1..Len(a) : i \in DOMAIN a
      BY <2>1
    <3>2. \A i \in DOMAIN a : a[i] = admitted[key][i]
      BY DEF Of
    <3> QED
      BY <3>1, <3>2
  <2>3. Len(a) >= Limit /\ Oldest(a) + Window < req[r].until /\ req[r].until \in Int
    BY <2>2 DEF RetryInv
  <2>4. Limit \in Nat \ {0} /\ Window \in Nat /\ now \in Nat
    BY ConstantTypes DEF LimitInv
  <2> HIDE DEF a, l
  <2>5. ASSUME Len(l) >= Limit PROVE FALSE
    <3> DEFINE i == Len(a) - Len(l) + 1
               j == Len(a) - Limit + 1
    <3>1. i \in 1..Len(a) /\ j \in 1..Len(a) /\ i <= j /\ 1 \in 1..Len(l) /\ Len(l) > 0
      BY <2>1, <2>3, <2>4, <2>5, SMTT(30)
    <3>2. l[1] = a[i]
      BY <2>1, <3>1 DEF Suffix
    <3> HIDE DEF i
    <3> HIDE DEF j
    <3>3. a[i] <= a[j] /\ a[i] \in Nat /\ a[j] \in Nat
      <4>1. \A k \in 1..Len(a) : a[k] \in Nat
        BY <2>1
      <4> QED
        BY <2>1, <3>1, <4>1 DEF Ordered
    <3>4. a[j] + Window < now
      BY <2>3, <2>4, <3>3 DEF Oldest, j
    <3>5. now - a[i] > Window
      BY <2>4, <3>3, <3>4
    <3> QED
      BY <2>1, <3>1, <3>2, <3>5 DEF Expired
  <2> QED
    BY <2>1, <2>4, <2>5 DEF HasRoom, l
<1> QED
  BY <1>1, <1>2, <1>3, PTL DEF Spec
=============================================================================
