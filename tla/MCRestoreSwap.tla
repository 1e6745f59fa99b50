---------------------------- MODULE MCRestoreSwap ----------------------------
(* Two restore requests and three faults: a restore that starts over what a *)
(* failed one left, a crash during the swap and another during its          *)
(* recovery.  Requests may come again once their rows are dropped, so the   *)
(* number of restores is not bounded.  Two database contents are enough:    *)
(* the accepted one and one candidate exist at a time.  A backup may carry  *)
(* rows that look applied or still running.  One request and two faults are *)
(* enough for the two findings.                                             *)
EXTENDS RestoreSwap
=============================================================================
