----------------------------- MODULE MCWallets -----------------------------
(* Wallets on a small instance; ids, account numbers and requests are each *)
(* interchangeable.                                                        *)
EXTENDS Wallets, TLC

MCSymmetry ==
  Permutations(Ids) \union Permutations(Numbers) \union Permutations(Requests)
=============================================================================
