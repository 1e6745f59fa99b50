---------------------------- MODULE AtomicRestore ----------------------------
(***************************************************************************)
(* What a database restore promises to the rest of the panel: there is     *)
(* always exactly one authoritative database; a restore replaces it in one *)
(* step while nobody can see any database; and whatever the panel sees is  *)
(* the authoritative one.                                                  *)
(***************************************************************************)
CONSTANTS
  Databases,   (* contents the database file can have                     *)
  First,       (* the database the panel starts with                      *)
  Hidden       (* the view while no database is published                 *)

VARIABLES
  authority,   (* the database whose contents must survive                *)
  view         (* the database ordinary operations reach, or Hidden       *)

vars == << authority, view >>

Init == authority = First /\ view = Hidden

(* The candidate becomes the authority, unseen. *)
Replace(d) ==
  /\ view = Hidden
  /\ authority' = d
  /\ UNCHANGED view

(* The panel publishes the authority and nothing else. *)
Publish ==
  /\ view' = authority
  /\ UNCHANGED authority

(* Maintenance, shutdown or a crash withdraws it. *)
Withdraw ==
  /\ view' = Hidden
  /\ UNCHANGED authority

Next ==
  \/ \E d \in Databases : Replace(d)
  \/ Publish
  \/ Withdraw

Spec == Init /\ [][Next]_vars
=============================================================================
