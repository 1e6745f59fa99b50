---------------------------- MODULE PaymentLedger ----------------------------
(* What the payment orders promise a client: a purchase is granted at most  *)
(* once, taken back at most once, and only after it was granted; one that   *)
(* is closed is never granted.  The balance moves with them and with        *)
(* nothing else.                                                            *)
EXTENDS Integers

CONSTANTS Purchases, Opening

VARIABLES purchase, balance

Init == purchase = [o \in Purchases |-> "open"] /\ balance = Opening

Grant(o) ==
  /\ purchase[o] = "open"
  /\ purchase' = [purchase EXCEPT ![o] = "granted"]
  /\ balance' = balance + 1

Return(o) ==
  /\ purchase[o] = "granted"
  /\ purchase' = [purchase EXCEPT ![o] = "returned"]
  /\ balance' \in {balance, balance - 1}

(* Several purchases can run out at the same moment. *)
Close(S) ==
  /\ \A o \in S : purchase[o] = "open"
  /\ purchase' = [o \in Purchases |-> IF o \in S THEN "closed" ELSE purchase[o]]
  /\ UNCHANGED balance

Next ==
  \/ \E o \in Purchases : Grant(o) \/ Return(o)
  \/ \E S \in SUBSET Purchases : Close(S)

Spec == Init /\ [][Next]_<<purchase, balance>>
=============================================================================
