---------------------------- MODULE MCPaidOrders -----------------------------
(* An order paid in Telegram Stars and one paid through CryptoBot, whose     *)
(* invoice may be created twice; one unit of traffic bought with each and   *)
(* one used between; two refunds at the same time; two faults, one to lose  *)
(* an answer and one for the step that repairs it.                          *)
EXTENDS PaidOrders
=============================================================================
