----------------------------- MODULE MCCoreApply -----------------------------
(* Two saves and two tags, so that one can delete or rename a tag that the  *)
(* other takes; the health job, one request of operator, admin or panel,    *)
(* and one failure or restore.                                              *)
EXTENDS CoreApply
=============================================================================
