-------------------------- MODULE MCDatabaseLifetime --------------------------
(* Model values for DatabaseLifetime: a worker that may serve a restore and *)
(* one that uses the database beside it.                                    *)
EXTENDS DatabaseLifetime

CONSTANTS r1, w1
=============================================================================
