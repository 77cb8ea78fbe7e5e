------------------------------ MODULE Outbound ------------------------------
(***************************************************************************)
(* What the worker sends out while it runs both of its jobs: the GETs of a *)
(* scrape and the POSTs of an alert, interleaved.                          *)
(***************************************************************************)
EXTENDS Fetch, Providers

vars == <<fetchVars, dispatchVars>>

Init == FetchInit /\ DispatchInit

Next ==
  \/ FetchNext /\ UNCHANGED dispatchVars
  \/ DispatchNext /\ UNCHANGED fetchVars

Spec == Init /\ [][Next]_vars
=============================================================================
