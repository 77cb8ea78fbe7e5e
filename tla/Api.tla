-------------------------------- MODULE Api --------------------------------
(***************************************************************************)
(* One API container: requests arrive in any order, those for sign-up and  *)
(* login pass the rate limiter first, and each is then served statement by *)
(* statement against the database that all of them share with the worker.  *)
(***************************************************************************)
EXTENDS Accounts, RateLimit

CONSTANT MaxFaults    \* bound of lost connections

vars == <<db, req, current, faults, now, hits, admitted>>

Init == AccountsInit /\ LimitInit

Limited(c) == c.op \in {"register", "login"}
Key(c) == <<c.ip, c.op>>

Begin(r) == Moves(r, [step |-> "arrived"]) /\ UNCHANGED <<db, current, faults>>

Comes(r) == req[r].step = "idle" \/ (req[r].step = "refused" /\ now >= req[r].until)

Arrive(r) ==
  /\ Comes(r)
  /\ IF Limited(req[r].call) THEN Admit(Key(req[r].call)) ELSE UNCHANGED limitVars
  /\ Begin(r)

\* 429 with the time to wait; a client waits that long, then comes back.
TooMany(r) ==
  LET c == req[r].call
  IN  /\ Comes(r)
      /\ Limited(c) /\ Refuse(Key(c))
      /\ Moves(r, [step |-> "refused", refused |-> now, until |-> now + retry_after(Key(c)) * PerSecond])
      /\ UNCHANGED <<db, current, faults>>

Next ==
  \/ \E r \in Requests : Arrive(r) \/ TooMany(r)
  \/ \E r \in Requests : Serve(r) /\ UNCHANGED limitVars
  \/ \E r \in Requests : faults < MaxFaults /\ Abort(r) /\ UNCHANGED limitVars
  \/ \E u \in UserIds : Deactivate(u) /\ UNCHANGED limitVars
  \/ Tick /\ UNCHANGED accountVars

Spec == Init /\ [][Next]_vars

\* A request that was let in is run by the event loop until it answers; the
\* database wakes a waiting write when the lock it waits for is free.
FairSpec == Spec /\ \A r \in Requests : WF_vars(Serve(r) /\ UNCHANGED limitVars)

-----------------------------------------------------------------------------
\* A number as a caller knows it: the line, and the country it is in.
Line(phone) == <<phone.line, IF phone.country \in {"", "0"} THEN Region ELSE phone.country>>

\* However a number or an address is typed and however sign-ups and profile
\* updates interleave, one line has one account and an address at most one
\* (normalize_phone_number, AuthService.register, the unique constraints).
OneAccountEach ==
  \A u, v \in UserIds :
    u # v => /\ Line(db[u].phone) # Line(db[v].phone)
             /\ db[u].email # None /\ db[v].email # None => db[u].email.name # db[v].email.name

\* A sign-up's answer tells what became of it: 201 when its account is there
\* with the number and password sent, anything else when there is none.
SignUpTold ==
  \A r \in Requests :
    req[r].step = "done" /\ req[r].call.op = "register" =>
      IF req[r].answer = 201
      THEN /\ r \in UserIds
           /\ db[r].phone.line = req[r].call.phone.line
           /\ verify_password(req[r].call.password, db[r].password)
      ELSE r \notin UserIds

\* A sign-up is turned away as already registered only when a committed
\* account holds its number or its address, never because of another sign-up
\* that has not committed and may yet be rolled back.
RefusedForCause ==
  [][\A r \in Requests :
       req[r].step # "done" /\ req'[r].step = "done" /\ req'[r].answer = 409 /\ req[r].call.op = "register" =>
         \E u \in UserIds :
           \/ db[u].phone = normalize_phone_number(req[r].call.phone)
           \/ req[r].call.email # None /\ db[u].email = lower(req[r].call.email)]_vars

\* A token the provider reported gone gets no more pushes from the moment the
\* worker has retired it until it is registered again, whatever requests on
\* the same device row write meanwhile and although the UPDATE leaves out what
\* the worker's session read as it wants it (invalidate_token).  One case is
\* cancelled: a device that the session read as off, at the start of the pass
\* if a rule's owner has it, and that is registered again before the
\* retirement stays on.  The docs except nothing (docs/notifications.md:264,
\* db/models/device.py:44-45 "cleared when a provider reports the token gone").
GoneTokensOff ==
  \A r \in Requests :
    r \in current /\ req[r].step = "done" /\ req[r].answer = 204
    => ~db[req[r].call.token].active

\* A client that waits out Retry-After is let in, if nobody else of its
\* address took the room meanwhile (dispatch's rounding of the wait).
RetryHonoured ==
  \A r \in Requests :
    LET key == Key(req[r].call)
    IN  req[r].step = "refused" /\ now >= req[r].until
          /\ (\A i \in DOMAIN Of(admitted, key) : admitted[key][i] <= req[r].refused)
        => HasRoom(key)

\* Every request that was let in is answered: no write waits for ever.
EveryRequestAnswered ==
  \A r \in Requests : req[r].step = "arrived" ~> req[r].step = "done"

\* A device whose registration is answered 201 belongs to the caller and
\* receives pushes from that commit on (DeviceRepository.register).
RegistrationTakesEffect ==
  [][\A r \in Requests :
       req[r].step = "commit" /\ req'[r].step = "done" /\ req'[r].answer = 201 /\ req[r].call.op = "device" =>
         LET row == db'[req[r].call.token]
         IN  row.owner = req[r].call.user /\ row.active /\ ~row.gone]_vars
=============================================================================
