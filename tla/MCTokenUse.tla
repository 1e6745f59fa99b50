----------------------------- MODULE MCTokenUse ------------------------------
(* One token, two requests at the same time and two goroutines of timers:   *)
(* one writes or waits to requeue while the other takes what came after.    *)
(* One failed write, one stop of the panel and one restore, which may fall  *)
(* back and so reset twice.                                                 *)
EXTENDS TokenUse
=============================================================================
