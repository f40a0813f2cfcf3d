------------------------------ MODULE MCMoney ------------------------------
(* Money with floats of 16 bits and integers of 18 bits: every amount up   *)
(* to twice the limit, and some that are out of an integer's range.        *)
EXTENDS Money

MCTexts == 1 .. 20000 \union {1310700, 1310715, 1310720, 1400000, 2000000}
=============================================================================
