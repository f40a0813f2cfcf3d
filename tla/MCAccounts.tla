----------------------------- MODULE MCAccounts -----------------------------
(* Accounts on a small instance; requests are interchangeable.             *)
EXTENDS Accounts, TLC

MCSymmetry == Permutations(Requests)
=============================================================================
