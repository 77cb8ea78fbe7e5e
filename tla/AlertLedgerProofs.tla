------------------------- MODULE AlertLedgerProofs -------------------------
(***************************************************************************)
(* The abstract ledger keeps its own promise, whatever the set of alerts.  *)
(***************************************************************************)
EXTENDS AlertLedger, TLAPS

(* An alert is owed only while it has had no call, so the call that settles *)
(* the debt is its first and its last: the invariant of the ledger that     *)
(* engine.py and the unique key of notification_deliveries implement.       *)
THEOREM LedgerInvariant == Spec => []LedgerInv
<1>1. Init => LedgerInv
  BY DEF Init, LedgerInv, TypeOK, AtMostOneCall, RowStatus
<1>2. LedgerInv /\ [Next]_ledgerVars => LedgerInv'
  <2> SUFFICES ASSUME LedgerInv, [Next]_ledgerVars PROVE LedgerInv'
    OBVIOUS
  <2> USE DEF LedgerInv, TypeOK, AtMostOneCall, RowStatus, Final
  <2>1. ASSUME NEW a \in Alerts, Claim(a) PROVE LedgerInv'
    BY <2>1 DEF Claim
  <2>2. ASSUME NEW a \in Alerts, Call(a) PROVE LedgerInv'
    BY <2>2 DEF Call
  <2>3. ASSUME NEW a \in Alerts, Settle(a) PROVE LedgerInv'
    BY <2>3 DEF Settle
  <2>4. ASSUME NEW a \in Alerts, Skip(a) PROVE LedgerInv'
    BY <2>4 DEF Skip
  <2>5. ASSUME NEW a \in Alerts, Lose(a) PROVE LedgerInv'
    BY <2>5 DEF Lose
  <2>6. ASSUME NEW A \in SUBSET Alerts, Forget(A) PROVE LedgerInv'
    BY <2>6 DEF Forget
  <2>7. CASE UNCHANGED ledgerVars
    BY <2>7 DEF ledgerVars
  <2> QED
    BY <2>1, <2>2, <2>3, <2>4, <2>5, <2>6, <2>7 DEF Next
<1> QED
  BY <1>1, <1>2, PTL DEF Spec
=============================================================================
