----------------------- MODULE MCNotificationEngine -----------------------
(***************************************************************************)
(* Small instances of NotificationEngine.  A day is eight ticks, alerts go *)
(* out in its ticks 1 to 6, and the business day starts one tick before    *)
(* the epoch's, so that windows straddle its bounds.                       *)
(***************************************************************************)
EXTENDS NotificationEngine, TLC

CONSTANTS w1, w2, u1, u2, r1, r2, i1, i2, t1, t2

\* A rule with no narrowing filter beyond a GMP threshold.
Criteria(interval, min_gmp, on_close_date) ==
  [interval_minutes |-> interval, channel |-> "PUSH", only_on_close_date |-> on_close_date,
   min_gmp_percentage |-> min_gmp, max_gmp_percentage |-> Null, ipo_types |-> Null,
   exchanges |-> {}, min_subscription_times |-> Null]

Issue(day, gmp) ==
  [close_date |-> day, gmp_percentage |-> gmp, ipo_type |-> "SME", exchange |-> "BSE_SME",
   subscription_times |-> Null]

OneOwner  == [r \in Rules |-> u1]
TwoOwners == [r \in Rules |-> IF r = r1 THEN u1 ELSE u2]
Mobile    == {"ANDROID"}

\* The clock starts in day 3, at the last instant of a window of two ticks; a
\* rule may come to ask for more than any IPO has.
RaceForms  == {Criteria(2, 10, TRUE), Criteria(2, 20, TRUE)}
RaceIssues == {Issue(3, 15), Issue(3, 5)}

\* Rules of both kinds, an IPO that closes today or tomorrow.  Windows of two
\* and of three ticks have distinct indices here (12, 13 and 8), as real ones
\* have.
MixedForms  == {Criteria(2, 10, TRUE), Criteria(3, 10, FALSE)}
MixedIssues == {Issue(3, 15), Issue(4, 15)}

\* One rule and one IPO, nothing ever edited.
PlainForms  == {Criteria(2, 10, TRUE)}
PlainIssues == {Issue(3, 15)}
OptOutForms == {Criteria(2, 10, FALSE)}

\* The liveness run starts with a rule of each kind and one registered device.
LiveInit ==
  /\ Init
  /\ \A r \in Rules : rules[r].phase = "live"
  /\ rules[r1].form # rules[r2].form
  /\ \A t \in Tokens : devices[t].owner = u1
LiveSpec == LiveInit /\ [][Next]_vars /\ \A w \in Workers : WF_vars(WorkerStep(w))

Symmetry == Permutations(Workers)
=============================================================================
