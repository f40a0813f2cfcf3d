----------------------------- MODULE MCTransfer -----------------------------
(* Transfer on a small instance: wallets a and b in one currency, c in     *)
(* another, and requests that compete for the money of a.                  *)
EXTENDS Transfer

CONSTANTS a, b, c

MCWallets == {a, b, c}
MCCurrency == [w \in MCWallets |-> IF w = c THEN "USD" ELSE "NGN"]
MCFunds == [w \in MCWallets |-> IF w = a THEN 3 ELSE 1]
MCOrders == {[from |-> a, to |-> b, amount |-> 2],
             [from |-> b, to |-> a, amount |-> 2],
             [from |-> a, to |-> c, amount |-> 1],
             [from |-> b, to |-> b, amount |-> 1]}
=============================================================================
