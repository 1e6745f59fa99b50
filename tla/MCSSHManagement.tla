--------------------------- MODULE MCSSHManagement ---------------------------
(* Two operations, so that the second meets what the first left at the      *)
(* broker and on the host; one crash and two faults, a fault in the         *)
(* rollback after the one that caused it.                                   *)
EXTENDS SSHManagement
=============================================================================
