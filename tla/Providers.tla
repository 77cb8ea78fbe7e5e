----------------------------- MODULE Providers -----------------------------
(***************************************************************************)
(* One alert on its way out of the engine: the provider chosen at start,   *)
(* the devices of the rule's channel, one POST each, and what becomes of   *)
(* the delivery and of the tokens.                                         *)
(***************************************************************************)
EXTENDS Integers, Sequences, SequencesExt, FiniteSets

CONSTANTS
  Fleets,       \* sequences of the user's devices: [token, platform]
  Providers,    \* notification_provider may be ...
  Channels      \* the rule's channel may be ...

\* A token is registered once, whoever owns it (the unique devices.push_token).
ASSUME FleetAssumption ==
  \A fleet \in Fleets :
    /\ fleet \in Seq([token : {d.token : d \in ToSet(fleet)}, platform : {"ANDROID", "IOS", "WEB"}])
    /\ \A i, j \in DOMAIN fleet : fleet[i].token = fleet[j].token => i = j

VARIABLES
  dispatch,     \* [step, provider, targets, todo, held_off, sent, invalid, status, raised]
  active,       \* the tokens that still get pushes
  received,     \* history: tokens whose device got the alert
  dead,         \* history: tokens their own platform refused for good
  tried         \* history: the tokens posted to, in order

dispatchVars == <<dispatch, active, received, dead, tried>>

\* An unconfigured or unknown provider is replaced by the sink.
get_provider(name, configured) == IF name \in {"fcm", "webpush"} /\ configured THEN name ELSE "log"

Platforms(channel) == IF channel = "WEBPUSH" THEN {"WEB"} ELSE {"ANDROID", "IOS"}

_targets_for(fleet, channel) ==
  LET kept[n \in 0..Len(fleet)] ==
        IF n = 0 THEN <<>>
        ELSE IF channel = "LOG" \/ fleet[n].platform \in Platforms(channel)
             THEN Append(kept[n - 1], fleet[n]) ELSE kept[n - 1]
  IN  kept[Len(fleet)]

\* The session of the pass may hold a device as it was when the pass began:
\* switched off, and registered again since (held_off).
DispatchInit ==
  \E fleet \in Fleets, name \in Providers, configured \in BOOLEAN, channel \in Channels :
    LET targets == _targets_for(fleet, channel)
    IN  /\ \E held_off \in SUBSET {d.token : d \in ToSet(targets)} :
             dispatch = [step |-> IF targets = <<>> THEN "done" ELSE "prepare",
                         provider |-> get_provider(name, configured), targets |-> targets, todo |-> targets,
                         held_off |-> held_off, raised |-> FALSE, sent |-> 0, invalid |-> <<>>,
                         status |-> IF targets = <<>> THEN "SKIPPED" ELSE "PENDING"]
        /\ active = {fleet[i].token : i \in DOMAIN fleet}
        /\ received = {} /\ dead = {} /\ tried = <<>>

\* A token of the other transport is no token to this one: 400 from FCM, no
\* JSON for Web Push.  A token of its own may be answered so as well: FCM's 400
\* is also for a payload, pywebpush's ValueError also for a key.
Native(provider, target) ==
  IF provider = "webpush" THEN target.platform = "WEB" ELSE target.platform # "WEB"

Replies(provider, target) ==
  CASE provider = "fcm" /\ Native(provider, target) -> {"200", "400", "403", "404", "503", "network"}
    [] provider = "fcm" /\ ~Native(provider, target) -> {"400", "503"}
    [] provider = "webpush" /\ Native(provider, target) -> {"200", "404", "410", "503", "malformed"}
    [] OTHER -> {"malformed"}

\* Only the status FCM answers with.
not_found_only(provider, reply) == reply \in {"404", "malformed"}

TokenIsDead(provider, reply) ==
  IF provider = "fcm" THEN reply \in {"400", "403", "404"} ELSE reply \in {"404", "410", "malformed"}

\* The sink takes everything at once; FCM first fetches an access token.
Prepare ==
  /\ dispatch.step = "prepare"
  /\ dispatch' = IF dispatch.provider = "log" THEN [dispatch EXCEPT !.step = "result", !.sent = 1, !.todo = <<>>]
                 ELSE [dispatch EXCEPT !.step = "post"]
  /\ UNCHANGED <<active, received, dead, tried>>

Raises == [dispatch EXCEPT !.step = "done", !.status = "FAILED", !.raised = TRUE]

\* No credentials, no access token or no library.
PrepareFails ==
  /\ dispatch.step = "prepare" /\ dispatch.provider # "log"
  /\ dispatch' = Raises
  /\ UNCHANGED <<active, received, dead, tried>>

\* The first failure ends the loop.
Abandon(todo, reply) == IF reply = "200" THEN Tail(todo) ELSE <<>>

Remaining(todo, reply) == Tail(todo)

Post(reply) ==
  /\ dispatch.step = "post" /\ dispatch.todo # <<>>
  /\ LET target == Head(dispatch.todo)
         p == dispatch.provider
     IN  /\ reply \in Replies(p, target)
         /\ dispatch' = [dispatch EXCEPT !.todo = Remaining(@, reply),
                           !.sent = IF reply = "200" THEN @ + 1 ELSE @,
                           !.invalid = IF TokenIsDead(p, reply) THEN Append(@, target.token) ELSE @]
         /\ received' = IF reply = "200" THEN received \union {target.token} ELSE received
         /\ dead' = IF Native(p, target) /\ reply \in {"400", "403", "404", "410", "malformed"}
                   THEN dead \union {target.token} ELSE dead
         /\ tried' = Append(tried, target.token)
  /\ UNCHANGED active

\* An accepted POST whose body is no JSON, or an error of the Web Push library
\* that is none of its own: the results so far are lost.
PostEscapes ==
  /\ dispatch.step = "post" /\ dispatch.todo # <<>> /\ Native(dispatch.provider, Head(dispatch.todo))
  /\ dispatch' = Raises
  /\ received' = IF dispatch.provider = "fcm" THEN received \union {Head(dispatch.todo).token} ELSE received
  /\ tried' = Append(tried, Head(dispatch.todo).token)
  /\ UNCHANGED <<active, dead>>

\* Every device must have accepted.
all_accepted(d) == d.sent = Len(tried)

Success(d) == d.sent > 0

\* The engine retires the tokens and marks the delivery.  A device that the
\* session holds as off is not written: is_active does not change there.
Report ==
  /\ dispatch.step = "result" \/ (dispatch.step = "post" /\ dispatch.todo = <<>>)
  /\ dispatch' = [dispatch EXCEPT !.step = "done", !.status = IF Success(dispatch) THEN "SENT" ELSE "FAILED"]
  /\ active' = active \ (ToSet(dispatch.invalid) \ dispatch.held_off)
  /\ UNCHANGED <<received, dead, tried>>

DispatchNext ==
  \/ Prepare \/ PrepareFails
  \/ \E reply \in {"200", "400", "403", "404", "410", "503", "network", "malformed"} : Post(reply)
  \/ PostEscapes
  \/ Report

-----------------------------------------------------------------------------
Returned == dispatch.step = "done" /\ ~dispatch.raised

\* Unless the provider raised, a delivery is SENT exactly when some device got
\* the alert, and the sink alone sends to none (SendResult.success).
ResultTellsTruth ==
  Returned /\ dispatch.provider # "log" => (dispatch.status = "SENT" <=> received # {})

\* Unless the provider raised, a token its own platform refused for good gets
\* no more pushes, whatever the other devices of the user answered; except one
\* that was registered again while the session held its row as switched off
\* (invalidate_token sets what is already set, and no UPDATE is sent).
DeadRetired == Returned => dead \intersect active \subseteq dispatch.held_off

\* Unless the provider raised, every device of the channel was tried once: a
\* device that refuses does not keep the alert from the next one.
EveryTargetTried ==
  Returned /\ dispatch.provider # "log" =>
    /\ IsInjective(tried)
    /\ ToSet(tried) = {d.token : d \in ToSet(dispatch.targets)}

\* Only a token that its own platform refused is retired: the provider is
\* one for the whole service, the devices are picked by the rule's channel.
RetiredOnlyIfDead == Returned => ToSet(dispatch.invalid) \subseteq dead
=============================================================================
