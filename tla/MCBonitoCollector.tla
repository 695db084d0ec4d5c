------------------------- MODULE MCBonitoCollector -------------------------
(***************************************************************************)
(* Small instances of BonitoCollector for TLC.                             *)
(***************************************************************************)
EXTENDS BonitoCollector

CONSTANTS app, app2, active, idle_in_transaction

One == <<app>>
Two == <<app, app2>>
=============================================================================
