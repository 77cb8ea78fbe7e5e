---------------------------- MODULE AlertLedger ----------------------------
(***************************************************************************)
(* What the notification ledger promises, without saying how.  An alert is *)
(* one (rule, IPO, interval window).  It is claimed at most once; only the *)
(* winner of the claim may call the push provider, and at most one time;   *)
(* the row then moves once, from PENDING to a final status that tells what *)
(* happened.  A winner may be lost before it calls (the alert is dropped,  *)
(* never repeated), and a rule that is deleted takes its rows with it.     *)
(*                                                                         *)
(* The promise is the one of app/services/notifications/engine.py and of   *)
(* the unique constraint of notification_deliveries; NotificationEngine    *)
(* is shown to implement it.                                               *)
(***************************************************************************)
EXTENDS Naturals

CONSTANT Alerts       \* every (rule, IPO, window) the system may alert about

VARIABLES
  status,             \* status[a]: the ledger row of a, as a reader sees it
  owed,               \* alerts whose claim is won and whose call is not made
  calls               \* calls[a]: provider calls made for a

ledgerVars == <<status, owed, calls>>

\* NONE: no row yet.  FORGOTTEN: the rule is gone, its rows with it.
Final      == {"SENT", "FAILED", "SKIPPED"}
RowStatus  == {"NONE", "PENDING", "FORGOTTEN"} \cup Final

Init ==
  /\ status = [a \in Alerts |-> "NONE"]
  /\ owed = {}
  /\ calls = [a \in Alerts |-> 0]

Claim(a) ==
  /\ status[a] = "NONE"
  /\ status' = [status EXCEPT ![a] = "PENDING"]
  /\ owed' = owed \cup {a}
  /\ UNCHANGED calls

Call(a) ==
  /\ a \in owed
  /\ owed' = owed \ {a}
  /\ calls' = [calls EXCEPT ![a] = @ + 1]
  /\ UNCHANGED status

\* The row of an alert that was called for tells how the call ended.
Settle(a) ==
  /\ status[a] = "PENDING"
  /\ a \notin owed
  /\ calls[a] = 1
  /\ \E s \in {"SENT", "FAILED"} : status' = [status EXCEPT ![a] = s]
  /\ UNCHANGED <<owed, calls>>

\* Nobody to call: the alert is closed without a call.
Skip(a) ==
  /\ status[a] = "PENDING"
  /\ a \in owed
  /\ owed' = owed \ {a}
  /\ status' = [status EXCEPT ![a] = "SKIPPED"]
  /\ UNCHANGED calls

\* The winner of the claim dies before its call: nobody will make it.
Lose(a) ==
  /\ a \in owed
  /\ owed' = owed \ {a}
  /\ UNCHANGED <<status, calls>>

\* The rule of the alerts in A is deleted.
Forget(A) ==
  /\ status' = [a \in Alerts |-> IF a \in A THEN "FORGOTTEN" ELSE status[a]]
  /\ UNCHANGED <<owed, calls>>

Next ==
  \/ \E a \in Alerts : Claim(a) \/ Call(a) \/ Settle(a) \/ Skip(a) \/ Lose(a)
  \/ \E A \in SUBSET Alerts : Forget(A)

Spec == Init /\ [][Next]_ledgerVars

----------------------------------------------------------------------------
TypeOK ==
  /\ status \in [Alerts -> RowStatus]
  /\ owed \subseteq Alerts
  /\ calls \in [Alerts -> Nat]

(* No alert makes the provider ring a device twice.                        *)
AtMostOneCall == \A a \in Alerts : calls[a] <= 1

(* The invariant behind it: an alert that is still owed was claimed and has *)
(* had no call, and an alert nobody claimed is neither owed nor called.    *)
LedgerInv ==
  /\ TypeOK
  /\ AtMostOneCall
  /\ \A a \in owed : calls[a] = 0 /\ status[a] \in {"PENDING", "FORGOTTEN"}
  /\ \A a \in Alerts : status[a] = "NONE" => calls[a] = 0
=============================================================================
