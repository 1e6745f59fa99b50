-------------------------- MODULE MCRestartManager ---------------------------
(* Two callers, one that owns the core and one that waits or comes between; *)
(* two timers, one still signalling the process while the next is armed.    *)
EXTENDS RestartManager
=============================================================================
