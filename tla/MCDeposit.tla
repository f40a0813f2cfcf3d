----------------------------- MODULE MCDeposit -----------------------------
(* Deposit on a small instance: an intent of 2 units, and payers who are   *)
(* charged the exact amount, too little, too much - twice the amount       *)
(* included - or another currency.                                         *)
EXTENDS Deposit

MCPayments == {[amount |-> 2, currency |-> "wallet"],
               [amount |-> 1, currency |-> "wallet"],
               [amount |-> 3, currency |-> "wallet"],
               [amount |-> 2, currency |-> "other"]}

AnyPayments == MCPayments \union {[amount |-> 4, currency |-> "wallet"]}

ExactPayment == {[amount |-> 2, currency |-> "wallet"]}
=============================================================================
