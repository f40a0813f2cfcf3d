----------------------------- MODULE MCHistory -----------------------------
(* History on a small instance: deposits into and a transfer out of two    *)
(* wallets.  The limits are scaled down.                                   *)
EXTENDS History

CONSTANTS d1, d2, t1, a, b

MCDeposits == {d1, d2}
MCTransfers == {t1}
MCWallets == {a, b}
MCWalletOf == [t \in MCDeposits \union MCTransfers |-> IF t = d2 THEN b ELSE a]

(* Pages of one entry, and of all there can be, from the first entry or    *)
(* the second.                                                             *)
MCLimits == {-1, 9}
MCOffsets == {-1, 1}
=============================================================================
