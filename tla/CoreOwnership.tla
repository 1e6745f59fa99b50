---------------------------- MODULE CoreOwnership ----------------------------
(***************************************************************************)
(* What the restart manager promises to everyone who touches the proxy     *)
(* core: the core has at most one owner at a time.  An owner is an         *)
(* operation, or a scheduled process restart that nobody may overtake.     *)
(* An operation that schedules a restart hands its ownership over to it.   *)
(***************************************************************************)
CONSTANTS
  Operations,  (* operations that need the core for themselves            *)
  Restart,     (* the owner while a restart is scheduled                  *)
  Nobody       (* the owner when the core is free                         *)

VARIABLE owner

Init == owner = Nobody

Acquire(p) == owner = Nobody /\ owner' = p

HandOver == owner \in Operations /\ owner' = Restart

Release == owner # Nobody /\ owner' = Nobody

Next ==
  \/ \E p \in Operations : Acquire(p)
  \/ HandOver
  \/ Release

Spec == Init /\ [][Next]_owner
=============================================================================
