--------------------------- MODULE MCBrokerJournal ---------------------------
(* An operation that stages, mutates and restores, with a stage request the *)
(* client builds anew; a second operation on the same resource; and a       *)
(* mutation of another resource.  Five rows make a compaction happen on the *)
(* third mutation and let two retained stages fill the journal.             *)
EXTENDS BrokerJournal

Call(k, d, o, v, res, f) == [key |-> k, digest |-> d, op |-> o, verb |-> v, resource |-> res, fence |-> f]

SomeRequests ==
  { Call("s1", 1, "o1", "stage", "ssh", 1), Call("s1", 2, "o1", "stage", "ssh", 1),
    Call("m1", 1, "o1", "reload", "ssh", 2), Call("r1", 1, "o1", "restore", "ssh", 3),
    Call("s2", 1, "o2", "stage", "ssh", 4), Call("p3", 1, "o3", "apply", "deploy", 1) }
=============================================================================
