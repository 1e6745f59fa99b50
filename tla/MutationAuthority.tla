-------------------------- MODULE MutationAuthority --------------------------
(* What the broker's receipt journal promises about privileged mutations,   *)
(* whatever crashes, failed writes and compactions happen below it: a       *)
(* mutation runs at most once, and while the outcome of one that ran is not *)
(* recorded no other mutation runs.                                         *)
EXTENDS Naturals

CONSTANT Keys      \* idempotency keys

VARIABLES
  runs,            \* how often the handler of each key was invoked
  recorded         \* keys whose outcome has been in the journal

Init == runs = [k \in Keys |-> 0] /\ recorded = {}

(* A mutation that never ran runs, when every earlier one is accounted for. *)
Execute(k) ==
  /\ runs[k] = 0
  /\ \A other \in Keys : runs[other] > 0 => other \in recorded
  /\ runs' = [runs EXCEPT ![k] = 1]
  /\ UNCHANGED recorded

(* An outcome is recorded: of a mutation that ran, or of one the broker     *)
(* gave up before running its handler.                                      *)
Record(k) == k \notin recorded /\ recorded' = recorded \union {k} /\ UNCHANGED runs

Next == \E k \in Keys : Execute(k) \/ Record(k)

Spec == Init /\ [][Next]_<<runs, recorded>>
=============================================================================
