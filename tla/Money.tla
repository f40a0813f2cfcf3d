------------------------------- MODULE Money -------------------------------
(***************************************************************************)
(* The way of an amount (shared/money.go): a client sends major units as a *)
(* decimal number, which JSON decoding makes a float64; NewMoney makes     *)
(* minor units of it; a deposit or a transfer checks the range and stores  *)
(* them; and the answer shows major units again, as a float64 (Major) or   *)
(* as text (String).  A float has P significant bits and exponents from    *)
(* -Emin to Emax, an integer W bits: 53, -1074, 971 and 64 in the code.    *)
(***************************************************************************)
EXTENDS Integers

CONSTANTS P, Emin, Emax,      \* a float's significand and exponents
          W,                  \* bits of an integer
          MinMinor, MaxMinor, \* range of a deposit or transfer
          Texts               \* amounts sent, in thousandths of a major unit

minorUnits == 100

(* The limits fit the widths: an amount in range has bits to spare in a    *)
(* float, no integer at the end of its range is one, and a float can hold  *)
(* every amount sent (JSON decoding refuses a number that is too large).   *)
ASSUME MoneyAssumption ==
  /\ P \in Nat \ {0} /\ Emin \in Nat /\ Emax \in Nat /\ W \in Nat \ {0}
  /\ MinMinor \in Nat \ {0} /\ MaxMinor \in Nat
  /\ MaxMinor + 1 < 2 ^ (W - 1)
  /\ 40 * (MaxMinor + 1) <= 2 ^ P
  /\ 1000 * 2 ^ (P - 1) <= 2 ^ Emin /\ minorUnits < 2 ^ Emax
  /\ Texts \subseteq Nat \ {0}   \* validate:"required,gt=0"
  /\ \A t \in Texts : t \div (1000 * 2 ^ Emax) < 2 ^ P

VARIABLES text,  \* the amount as sent, or as printed
          asked, \* the amount the client sent
          minor, \* the Money
          stored,\* the column
          step

vars == <<text, asked, minor, stored, step>>

-----------------------------------------------------------------------------
(* Floats: [m |-> m, e |-> e] is m * 2^e, for positive numbers.            *)

HalfEven(n, d) ==
  LET q == n \div d
      r == n % d
  IN  IF 2 * r > d \/ (2 * r = d /\ q % 2 = 1) THEN q + 1 ELSE q

HalfAway(n, d) == (2 * n + d) \div (2 * d)

(* n / d is Num(n, e) / Den(d, e) * 2^e.                                   *)
Num(n, e) == IF e < 0 THEN n * 2 ^ (-e) ELSE n
Den(d, e) == IF e < 0 THEN d ELSE d * 2 ^ e

(* The float nearest to n / d.                                             *)
Float(n, d) ==
  LET bits(e) == Num(n, e) \div Den(d, e)
      e == Emax - CHOOSE k \in 0 .. Emax + Emin :
                    bits(Emax - k) \in 2 ^ (P - 1) .. 2 ^ P - 1
  IN  [m |-> HalfEven(Num(n, e), Den(d, e)), e |-> e]

Scale(f, k) == LET g == Float(f.m * k, 1) IN [g EXCEPT !.e = @ + f.e]

(* Mutant: the fraction is cut off.                                        *)
MathTruncate(f) == IF f.e >= 0 THEN f.m * 2 ^ f.e ELSE f.m \div 2 ^ (-f.e)

(* math.Round.                                                             *)
MathRound(f) == IF f.e >= 0 THEN f.m * 2 ^ f.e ELSE HalfAway(f.m, 2 ^ (-f.e))

(* Conversion to int64: what becomes of a number beyond it is up to the    *)
(* processor (the least integer, or the nearest).                          *)
ToInt(n) == IF n < 2 ^ (W - 1) THEN {n} ELSE {-(2 ^ (W - 1)), 2 ^ (W - 1) - 1}

NewMoney(f) == ToInt(MathRound(Scale(f, minorUnits)))

(* ParseMoney, UnmarshalJSON: the amounts a decimal may become.            *)
Parse(t) == NewMoney(Float(t, 1000))

Major(m) == Float(m, minorUnits)

(* The shortest decimal that denotes the float Major(m), in minor units.   *)
Shown(m) == LET f == Major(m) IN MathRound([f EXCEPT !.m = @ * minorUnits])

(* Mutant: %d instead of %02d.                                             *)
StringUnpadded(m) ==
  LET cents == m % minorUnits
  IN  1000 * (m \div minorUnits) + (IF cents < 10 THEN 100 ELSE 10) * cents

(* String, in thousandths.                                                 *)
String(m) == 1000 * (m \div minorUnits) + 10 * (m % minorUnits)

(* Mutant: only the upper bound is checked.                                *)
InRangeBelow(m) == m <= MaxMinor

(* InitializeDeposit, InitiateTransfer.                                    *)
InRange(m) == MinMinor <= m /\ m <= MaxMinor

-----------------------------------------------------------------------------
Init ==
  /\ text \in Texts
  /\ asked = text
  /\ minor = 0
  /\ stored = 0
  /\ step = "sent"

Decode ==
  /\ step = "sent"
  /\ minor' \in Parse(text)
  /\ step' = IF InRange(minor') THEN "accepted" ELSE "refused"
  /\ UNCHANGED <<text, asked, stored>>

(* Value.                                                                  *)
Store ==
  /\ step = "accepted"
  /\ stored' = minor
  /\ step' = "stored"
  /\ UNCHANGED <<text, asked, minor>>

(* Scan, then MarshalJSON.                                                 *)
Render ==
  /\ step = "stored"
  /\ minor' = stored
  /\ text' = String(stored)
  /\ step' = "printed"
  /\ UNCHANGED <<asked, stored>>

Reparse ==
  /\ step = "printed"
  /\ minor' \in Parse(text)
  /\ step' = "reparsed"
  /\ UNCHANGED <<text, asked, stored>>

Next == Decode \/ Store \/ Render \/ Reparse

Spec == Init /\ [][Next]_vars

-----------------------------------------------------------------------------
(* Type invariant: the amount is an integer of W bits.                     *)
TypeOK ==
  /\ text \in Nat /\ asked \in Texts
  /\ minor \in -(2 ^ (W - 1)) .. 2 ^ (W - 1) - 1
  /\ stored \in {0} \union MinMinor .. MaxMinor
  /\ step \in {"sent", "accepted", "refused", "stored", "printed", "reparsed"}

(* money.go:12-14: no cent disappears.  An accepted amount in whole minor  *)
(* units is stored and shown as it was sent, although it passes through a  *)
(* float twice.                                                            *)
ShownAsSent ==
  step = "stored" /\ asked % 10 = 0 =>
    10 * stored = asked /\ Shown(stored) = stored

(* money.go:35: "rounded half-away-from-zero to the nearest minor unit".   *)
(* The product is rounded to a float before it is rounded to an integer,   *)
(* so an amount next to a tie may go either way, but none goes further,    *)
(* and none so large that the conversion to an integer wraps it is taken   *)
(* for an amount in range (payment-service.go:53, transfer-service.go:45). *)
Near(m) == 10 * m - asked \in -5 .. 5
RoundsToNearest == step = "accepted" => Near(minor)

(* What String prints is parsed as the same amount.                        *)
PrintedParsesBack == step = "reparsed" => minor = stored

(* The inductive invariant: what the amount is at each step of its way.    *)
MoneyInv ==
  /\ step = "sent" => text = asked
  /\ step = "accepted" => InRange(minor) /\ Near(minor)
  /\ step \in {"stored", "printed", "reparsed"} => InRange(stored)
  /\ step = "stored" => minor = stored /\ Near(stored)
  /\ step \in {"printed", "reparsed"} => text = 10 * stored
  /\ PrintedParsesBack
=============================================================================
