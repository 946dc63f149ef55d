-------------------------------- MODULE MCOms --------------------------------
(* Small instances of Oms for TLC: a buy with two permits and a sell that  *)
(* only a filled buy can supply, or two competing buys and an intent the   *)
(* OMS does not support.                                                   *)
EXTENDS Oms

MCAssets == {"base", "quote"}
MCBare == [base |-> 0, quote |-> 4]

MCAmple == [base |-> 2, quote |-> 8]

TwoBuys == [p1 |-> "buy", p2 |-> "buy2", p3 |-> "odd"]
TwoPermits == [p1 |-> "buy", p2 |-> "buy", p3 |-> "sell"]
==============================================================================
