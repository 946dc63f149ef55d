----------------------------- MODULE MCAccount -----------------------------
(* Small instances of Account.                                             *)
EXTENDS Account
Order(side, quantity) ==
  [side |-> side, quantity |-> quantity, price |-> 0, reduce_only |-> side = "SELL",
   stage |-> "PAPER"]
Proposals == [b1 |-> Order("BUY", 2), b2 |-> Order("BUY", 1)]
=============================================================================
