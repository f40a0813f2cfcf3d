---------------------------- MODULE MoneyProofs ----------------------------
(***************************************************************************)
(* Theorems about Money, for every width of floats and integers and every  *)
(* range of amounts that fits them: the rounding errors of an amount's way *)
(* through two floats never show.                                          *)
(***************************************************************************)
EXTENDS Money, FiniteSetTheorems, WellFoundedInduction, TLAPS

(* Every set of naturals has a least element.                              *)
LEMMA LeastNat ==
  ASSUME NEW X \in SUBSET Nat, X # {}
  PROVE  \E m \in X : \A k \in X : m <= k
<1> DEFINE B == {0 .. (k - 1) : k \in X}
<1>1. B \subseteq FiniteSubsetsOf(Int) /\ B # {}
  <2>1. ASSUME NEW k \in X PROVE 0 .. (k - 1) \in FiniteSubsetsOf(Int)
    <3>1. k - 1 \in Int
      OBVIOUS
    <3>2. IsFiniteSet(0 .. (k - 1))
      BY <3>1, FS_Interval
    <3>3. QED
      BY <3>1, <3>2 DEF FiniteSubsetsOf
  <2>2. QED
    BY <2>1
<1>2. PICK b \in B : \A c \in B : ~(<<c, b>> \in StrictSubsetOrdering(Int))
  <2> HIDE DEF B
  <2>1. IsWellFoundedOn(StrictSubsetOrdering(Int), FiniteSubsetsOf(Int))
    BY FS_StrictSubsetOrderingWellFounded
  <2>2. QED
    BY <1>1, <2>1, WFMin
<1>3. PICK m \in X : b = 0 .. (m - 1)
  BY <1>2
<1>4. ASSUME NEW k \in X, k < m PROVE FALSE
  <2>1. k \in 0 .. (m - 1) /\ k \notin 0 .. (k - 1)
    BY <1>4
  <2>2. 0 .. (k - 1) \subseteq 0 .. (m - 1)
    BY <1>4
  <2>3. <<0 .. (k - 1), 0 .. (m - 1)>> \in StrictSubsetOrdering(Int)
    BY <2>1, <2>2 DEF StrictSubsetOrdering
  <2>4. QED
    BY <1>2, <1>3, <2>3
<1>5. QED
  BY <1>4

(* A power of two counts the subsets of a set: this is what the library    *)
(* proves about powers, and all that is used here.                         *)
LEMMA PowerCount ==
  ASSUME NEW n \in Nat
  PROVE  /\ IsFiniteSet(SUBSET (1 .. n))
         /\ Cardinality(SUBSET (1 .. n)) = 2 ^ n
         /\ 2 ^ n \in Nat
<1>1. IsFiniteSet(1 .. n) /\ Cardinality(1 .. n) = n
  <2>1. /\ IsFiniteSet(1 .. n)
        /\ Cardinality(1 .. n) = IF 1 > n THEN 0 ELSE n - 1 + 1
    BY FS_Interval
  <2>2. QED
    BY <2>1
<1>2. /\ IsFiniteSet(SUBSET (1 .. n))
      /\ Cardinality(SUBSET (1 .. n)) = 2 ^ Cardinality(1 .. n)
  BY <1>1, FS_SUBSET
<1>3. Cardinality(SUBSET (1 .. n)) \in Nat
  BY <1>2, FS_CardinalityType
<1>4. QED
  BY <1>1, <1>2, <1>3

LEMMA PowerZero == 2 ^ 0 = 1
<1>1. SUBSET (1 .. 0) = {{}}
  OBVIOUS
<1>2. Cardinality({{}}) = 1
  BY FS_Singleton
<1>3. Cardinality(SUBSET (1 .. 0)) = 2 ^ 0
  BY PowerCount
<1>4. QED
  BY <1>1, <1>2, <1>3

LEMMA PowerStep ==
  ASSUME NEW n \in Nat
  PROVE  2 ^ (n + 1) = 2 * 2 ^ n
<1> DEFINE old == SUBSET (1 .. n)
           new == {B \union {n + 1} : B \in old}
           f == [B \in old |-> B \union {n + 1}]
<1>1. SUBSET (1 .. (n + 1)) = old \union new
  <2>1. ASSUME NEW C \in SUBSET (1 .. (n + 1)) PROVE C \in old \union new
    <3>1. CASE n + 1 \notin C
      BY <3>1
    <3>2. CASE n + 1 \in C
      <4>1. C \ {n + 1} \in old
        OBVIOUS
      <4>2. C = (C \ {n + 1}) \union {n + 1}
        BY <3>2
      <4>3. QED
        BY <4>1, <4>2
    <3>3. QED
      BY <3>1, <3>2
  <2>2. ASSUME NEW C \in old \union new PROVE C \in SUBSET (1 .. (n + 1))
    OBVIOUS
  <2>3. QED
    BY <2>1, <2>2
<1>2. old \intersect new = {}
  OBVIOUS
<1>3. f \in Bijection(old, new)
  <2>1. f \in [old -> new] /\ \A y \in new : \E B \in old : f[B] = y
    OBVIOUS
  <2>2. ASSUME NEW B \in old, NEW C \in old, f[B] = f[C] PROVE B = C
    <3>1. B = f[B] \ {n + 1} /\ C = f[C] \ {n + 1}
      OBVIOUS
    <3>2. QED
      BY <2>2, <3>1
  <2>3. QED
    BY <2>1, <2>2 DEF Bijection, Injection, Surjection, IsInjective
<1>4. IsFiniteSet(old) /\ Cardinality(old) = 2 ^ n /\ 2 ^ n \in Nat
  BY PowerCount
<1> HIDE DEF old, new, f
<1>5. IsFiniteSet(new) /\ Cardinality(new) = 2 ^ n
  BY <1>3, <1>4, FS_Bijection DEF ExistsBijection
<1>6. Cardinality(old \union new) =
        Cardinality(old) + Cardinality(new) - Cardinality(old \intersect new)
  BY <1>4, <1>5, FS_Union
<1>7. Cardinality(old \intersect new) = 0
  BY <1>2, FS_EmptySet
<1>8. Cardinality(SUBSET (1 .. (n + 1))) = 2 ^ (n + 1)
  BY PowerCount
<1>9. 2 ^ (n + 1) = 2 ^ n + 2 ^ n - 0
  BY <1>1, <1>4, <1>5, <1>6, <1>7, <1>8
<1> DEFINE p == 2 ^ n
<1> HIDE DEF p
<1>10. p + p - 0 = 2 * p
  BY <1>4 DEF p
<1>11. QED
  BY <1>9, <1>10 DEF p

LEMMA PowerType ==
  ASSUME NEW n \in Nat
  PROVE  2 ^ n \in Nat \ {0}
<1> DEFINE S == SUBSET (1 .. n)
<1>1. IsFiniteSet(S) /\ {} \in S
  BY PowerCount
<1> HIDE DEF S
<1>2. Cardinality(S) # 0
  BY <1>1, FS_EmptySet
<1>3. QED
  BY <1>2, PowerCount DEF S

LEMMA PowerSum ==
  ASSUME NEW a \in Nat, NEW b \in Nat
  PROVE  2 ^ (a + b) = 2 ^ a * 2 ^ b
<1> DEFINE X == {k \in Nat : 2 ^ (a + k) # 2 ^ a * 2 ^ k}
<1>1. X = {}
  <2> SUFFICES ASSUME X # {} PROVE FALSE
    OBVIOUS
  <2>1. PICK m \in X : \A k \in X : m <= k
    <3> HIDE DEF X
    <3>1. X \in SUBSET Nat
      BY DEF X
    <3>2. QED
      BY <3>1, LeastNat
  <2>2. m # 0
    <3>1. 2 ^ (a + 0) = 2 ^ a * 2 ^ 0
      BY PowerZero, PowerType
    <3>2. QED
      BY <3>1
  <2>3. m - 1 \in Nat /\ 2 ^ (a + (m - 1)) = 2 ^ a * 2 ^ (m - 1)
    BY <2>1, <2>2
  <2>4. /\ 2 ^ ((m - 1) + 1) = 2 * 2 ^ (m - 1) /\ (m - 1) + 1 = m
        /\ 2 ^ ((a + (m - 1)) + 1) = 2 * 2 ^ (a + (m - 1))
        /\ (a + (m - 1)) + 1 = a + m
    BY <2>3, PowerStep
  <2>5. 2 ^ a \in Nat /\ 2 ^ (m - 1) \in Nat
    BY <2>3, PowerType
  <2>6. 2 ^ (a + m) = 2 ^ a * 2 ^ m
    BY <2>3, <2>4, <2>5
  <2>7. QED
    BY <2>6
<1>2. QED
  BY <1>1

-----------------------------------------------------------------------------
(* The value of a float as a fraction: Top(f) / Bot(f).                    *)

Up(e) == IF e < 0 THEN 1 ELSE 2 ^ e
Down(e) == IF e < 0 THEN 2 ^ (-e) ELSE 1
Top(f) == f.m * Up(f.e)
Bot(f) == Down(f.e)

LEMMA ScaleType ==
  ASSUME NEW e \in Int
  PROVE  Up(e) \in Nat \ {0} /\ Down(e) \in Nat \ {0}
<1>1. CASE e < 0
  BY <1>1, PowerType DEF Up, Down
<1>2. CASE e >= 0
  BY <1>2, PowerType DEF Up, Down
<1>3. QED
  BY <1>1, <1>2

LEMMA NumDen ==
  ASSUME NEW n \in Nat \ {0}, NEW d \in Nat \ {0}, NEW e \in Int
  PROVE  /\ Num(n, e) = n * Down(e) /\ Den(d, e) = d * Up(e)
         /\ Num(n, e) \in Nat \ {0} /\ Den(d, e) \in Nat \ {0}
<1>1. Num(n, e) = n * Down(e) /\ Den(d, e) = d * Up(e)
  BY DEF Num, Den, Up, Down
<1>2. ASSUME NEW x \in Nat \ {0}, NEW y \in Nat \ {0}
      PROVE  x * y \in Nat \ {0}
  OBVIOUS
<1>3. QED
  BY <1>1, <1>2, ScaleType

(* One exponent less doubles the quotient.                                 *)
LEMMA Halve ==
  ASSUME NEW n \in Nat \ {0}, NEW d \in Nat \ {0}, NEW e \in Int
  PROVE  \/ Num(n, e - 1) = Num(n, e) /\ Den(d, e) = 2 * Den(d, e - 1)
         \/ Num(n, e - 1) = 2 * Num(n, e) /\ Den(d, e) = Den(d, e - 1)
<1>1. CASE e > 0
  <2>1. e - 1 \in Nat /\ (e - 1) + 1 = e
    BY <1>1
  <2>2. 2 ^ e = 2 * 2 ^ (e - 1) /\ 2 ^ (e - 1) \in Nat
    BY <2>1, PowerStep, PowerType
  <2>3. QED
    BY <1>1, <2>1, <2>2 DEF Num, Den
<1>2. CASE ~(e > 0) /\ ~(e < 0)
  <2>1. e \in Nat /\ e + 1 = 1 /\ -(e - 1) = 1
    BY <1>2
  <2>2. 2 ^ (e + 1) = 2 * 2 ^ e
    BY <2>1, PowerStep, Zenon
  <2>3. e = 0
    BY <1>2
  <2>4. 2 ^ e = 1
    BY <2>3, PowerZero, Zenon
  <2>5. 2 ^ (e + 1) = 2 * 1
    BY <2>2, <2>4, Zenon
  <2>6. 2 ^ (-(e - 1)) = 2 * 1
    BY <2>1, <2>5, Zenon
  <2>7. Num(n, e - 1) = n * (2 * 1) /\ Den(d, e - 1) = d
    BY <1>2, <2>6 DEF Num, Den
  <2>8. Num(n, e) = n /\ Den(d, e) = d * 1
    BY <1>2, <2>4 DEF Num, Den
  <2>9. QED
    BY <2>7, <2>8
<1>3. CASE e < 0
  <2>1. -e \in Nat /\ -(e - 1) = -e + 1
    BY <1>3
  <2>2. 2 ^ (-e + 1) = 2 * 2 ^ (-e) /\ 2 ^ (-e) \in Nat
    BY <2>1, PowerStep, PowerType
  <2>3. QED
    BY <1>3, <2>1, <2>2 DEF Num, Den
<1>4. QED
  BY <1>1, <1>2, <1>3

(* What the floor of a quotient says of the quotient.                      *)
LEMMA QuotientBound ==
  ASSUME NEW x \in Nat, NEW y \in Nat \ {0}, NEW q \in Nat
  PROVE  (x \div y >= q) <=> (x >= q * y)
<1>1. /\ x = y * (x \div y) + (x % y)
      /\ x \div y \in Nat /\ x % y \in 0 .. y - 1
  OBVIOUS
<1>2. ASSUME NEW a \in Nat, NEW b \in Nat, a <= b PROVE a * y <= b * y
  BY <1>2
<1>3. CASE x \div y >= q
  BY <1>1, <1>2, <1>3
<1>4. CASE x \div y < q
  <2>1. (x \div y + 1) * y <= q * y
    BY <1>1, <1>2, <1>4
  <2>2. QED
    BY <1>1, <1>4, <2>1
<1>5. QED
  BY <1>1, <1>3, <1>4

LEMMA HalfEvenNear ==
  ASSUME NEW x \in Nat, NEW y \in Nat \ {0}
  PROVE  /\ HalfEven(x, y) \in {x \div y, x \div y + 1}
         /\ 2 * (HalfEven(x, y) * y) <= 2 * x + y
         /\ 2 * x <= 2 * (HalfEven(x, y) * y) + y
<1> DEFINE q == x \div y
           r == x % y
           p == q * y
<1>1. q \in Nat /\ r \in 0 .. y - 1
  OBVIOUS
<1>2. x = p + r /\ p \in Nat /\ (q + 1) * y = p + y
  OBVIOUS
<1>3. HalfEven(x, y) = IF 2 * r > y \/ (2 * r = y /\ q % 2 = 1)
                         THEN q + 1 ELSE q
  BY DEF HalfEven
<1> HIDE DEF p, q, r
<1>4. CASE 2 * r > y \/ (2 * r = y /\ q % 2 = 1)
  <2>1. HalfEven(x, y) = q + 1
    BY <1>3, <1>4
  <2>2. 2 * (p + y) <= 2 * x + y /\ 2 * x <= 2 * (p + y) + y
    BY <1>1, <1>2, <1>4
  <2>3. QED
    BY <1>2, <2>1, <2>2 DEF q
<1>5. CASE ~(2 * r > y \/ (2 * r = y /\ q % 2 = 1))
  <2>1. HalfEven(x, y) = q
    BY <1>3, <1>5
  <2>2. 2 * r <= y
    BY <1>1, <1>5
  <2>3. 2 * p <= 2 * x + y /\ 2 * x <= 2 * p + y
    BY <1>1, <1>2, <2>2
  <2>4. QED
    BY <2>1, <2>3 DEF p, q
<1>6. QED
  BY <1>4, <1>5

(* a is b but for one part in 2^P.                                         *)
Close(a, b) ==
  /\ 2 ^ P * a <= (2 ^ P + 1) * b
  /\ (2 ^ P - 1) * b <= 2 ^ P * a

LEMMA HalfPower ==
  /\ 2 ^ P \in Nat \ {0} /\ 2 ^ (P - 1) \in Nat \ {0}
  /\ 2 ^ P = 2 * 2 ^ (P - 1)
<1>1. P - 1 \in Nat /\ (P - 1) + 1 = P
  BY MoneyAssumption DEF MoneyAssumption
<1>2. 2 ^ ((P - 1) + 1) = 2 * 2 ^ (P - 1)
  BY <1>1, PowerStep
<1>3. QED
  BY <1>1, <1>2, PowerType

LEMMA Ordered ==
  ASSUME NEW a \in Int, NEW b \in Int, a <= b, NEW c \in Nat
  PROVE  c * a <= c * b
  OBVIOUS

LEMMA HalfUnitClose ==
  ASSUME NEW a \in Nat, NEW x \in Nat, NEW y \in Nat,
         2 * a <= 2 * x + y, 2 * x <= 2 * a + y, 2 ^ (P - 1) * y <= x
  PROVE  Close(a, x)
<1> DEFINE h == 2 ^ (P - 1)
<1>1. h \in Nat /\ 2 ^ P = 2 * h
  BY HalfPower
<1> HIDE DEF h
<1>2. h * (2 * a) <= h * (2 * x + y) /\ h * (2 * x) <= h * (2 * a + y)
  BY <1>1, Ordered
<1>3. h * y <= x
  BY DEF h
<1>4. /\ (2 * h) * a = h * (2 * a) /\ h * (2 * x + y) = (2 * h) * x + h * y
      /\ h * (2 * x) = (2 * h) * x /\ h * (2 * a + y) = (2 * h) * a + h * y
      /\ (2 * h + 1) * x = (2 * h) * x + x
      /\ (2 * h - 1) * x = (2 * h) * x - x
  BY <1>1
<1>5. (2 * h) * a <= (2 * h + 1) * x /\ (2 * h - 1) * x <= (2 * h) * a
  BY <1>1, <1>2, <1>3, <1>4
<1>6. QED
  BY <1>1, <1>5 DEF Close

(* The numbers a float can hold: neither too large nor too small.          *)
Holds(n, d) ==
  /\ n < (d * 2 ^ Emax) * 2 ^ P
  /\ d * 2 ^ (P - 1) <= n * 2 ^ Emin

(* For these there is an exponent for which the quotient has P bits.       *)
LEMMA ExponentExists ==
  ASSUME NEW n \in Nat \ {0}, NEW d \in Nat \ {0}, Holds(n, d)
  PROVE  \E k \in 0 .. Emax + Emin :
           Num(n, Emax - k) \div Den(d, Emax - k) \in 2 ^ (P - 1) .. 2 ^ P - 1
<1> DEFINE N(k) == Num(n, Emax - k)
           D(k) == Den(d, Emax - k)
           h == 2 ^ (P - 1)
           X == {k \in 0 .. Emax + Emin : h * D(k) <= N(k)}
<1>1. Emin \in Nat /\ Emax \in Nat
  BY MoneyAssumption DEF MoneyAssumption
<1>2. h \in Nat \ {0} /\ 2 ^ P = 2 * h
  BY HalfPower
<1>3. ASSUME NEW k \in Nat
      PROVE  N(k) \in Nat \ {0} /\ D(k) \in Nat \ {0}
  BY <1>1, NumDen
<1>4. Emax + Emin \in X
  <2>1. Down(-Emin) = 2 ^ Emin /\ Up(-Emin) = 1
    <3>1. CASE Emin = 0
      <4>1. 2 ^ Emin = 1 /\ 2 ^ (-Emin) = 1
        BY <3>1, PowerZero
      <4>2. QED
        BY <1>1, <3>1, <4>1 DEF Down, Up
    <3>2. CASE Emin # 0
      BY <1>1, <3>2 DEF Down, Up
    <3>3. QED
      BY <3>1, <3>2
  <2>2. N(Emax + Emin) = n * 2 ^ Emin /\ D(Emax + Emin) = d
    <3>1. Emax - (Emax + Emin) = -Emin /\ -Emin \in Int
      BY <1>1
    <3>2. Num(n, -Emin) = n * 2 ^ Emin /\ Den(d, -Emin) = d * 1
      BY <2>1, <3>1, NumDen
    <3>3. QED
      BY <3>1, <3>2
  <2>3. h * d = d * h
    BY <1>2
  <2>4. QED
    BY <1>1, <2>2, <2>3 DEF Holds
<1>5. PICK k \in X : \A j \in X : k <= j
  <2>1. X \in SUBSET Nat /\ X # {}
    BY <1>1, <1>4
  <2> HIDE DEF X
  <2>2. QED
    BY <2>1, LeastNat
<1>6. N(k) < 2 ^ P * D(k)
  <2>1. CASE k = 0
    <3>1. N(0) = n /\ D(0) = d * 2 ^ Emax
      BY <1>1 DEF Num, Den
    <3>2. d * 2 ^ Emax \in Nat /\ 2 ^ P \in Nat
      BY <1>1, <3>1, <1>3, HalfPower
    <3>3. n < 2 ^ P * (d * 2 ^ Emax)
      BY <3>2 DEF Holds
    <3>4. QED
      BY <2>1, <3>1, <3>3
  <2>2. CASE k # 0
    <3> DEFINE e == Emax - (k - 1)
    <3>1. k - 1 \in Nat /\ k - 1 \in 0 .. Emax + Emin /\ e - 1 = Emax - k
      BY <1>1, <2>2
    <3>2. N(k - 1) < h * D(k - 1)
      <4>1. k - 1 \notin X
        BY <1>5, <3>1
      <4>2. N(k - 1) \in Nat /\ h * D(k - 1) \in Int
        BY <1>2, <1>3, <3>1
      <4>3. QED
        BY <3>1, <4>1, <4>2
    <3>3. \/ N(k) = N(k - 1) /\ D(k - 1) = 2 * D(k)
          \/ N(k) = 2 * N(k - 1) /\ D(k - 1) = D(k)
      BY <1>1, <3>1, Halve
    <3>4. /\ N(k) \in Nat /\ D(k) \in Nat
          /\ N(k - 1) \in Nat /\ D(k - 1) \in Nat
      BY <1>3, <3>1
    <3> HIDE DEF N, D, h
    <3>5. QED
      BY <1>2, <3>2, <3>3, <3>4
  <2>3. QED
    BY <2>1, <2>2
<1>7. k \in Nat /\ h * D(k) <= N(k)
  BY <1>1
<1> HIDE DEF N, D, X
<1>8. N(k) \in Nat /\ D(k) \in Nat \ {0}
  BY <1>3, <1>7
<1>9. N(k) \div D(k) >= h /\ ~(N(k) \div D(k) >= 2 ^ P)
  <2>1. 2 ^ P \in Nat /\ ~(N(k) >= 2 ^ P * D(k))
    BY <1>6, <1>8, HalfPower
  <2>2. QED
    BY <1>2, <1>7, <1>8, <2>1, QuotientBound
<1>10. k \in 0 .. Emax + Emin
  BY DEF X
<1>11. N(k) \div D(k) \in h .. 2 ^ P - 1
  BY <1>2, <1>8, <1>9, HalfPower
<1>12. QED
  BY <1>10, <1>11 DEF N, D

IsFloat(f) == f \in [m : 1 .. 2 ^ P, e : Int]

(* A float is within half a unit in the last place.                        *)
LEMMA FloatNear ==
  ASSUME NEW n \in Nat \ {0}, NEW d \in Nat \ {0}, Holds(n, d)
  PROVE  /\ IsFloat(Float(n, d))
         /\ Close(Top(Float(n, d)) * d, n * Bot(Float(n, d)))
<1> DEFINE bits(k) == Num(n, Emax - k) \div Den(d, Emax - k)
           h == 2 ^ (P - 1)
<1>1. PICK k \in 0 .. Emax + Emin :
        /\ bits(k) \in h .. 2 ^ P - 1
        /\ k = CHOOSE i \in 0 .. Emax + Emin : bits(i) \in h .. 2 ^ P - 1
  BY ExponentExists
<1> DEFINE e == Emax - k
           N == Num(n, e)
           D == Den(d, e)
           m == HalfEven(N, D)
<1>2. Float(n, d) = [m |-> m, e |-> e]
  BY <1>1 DEF Float
<1>3. e \in Int
  BY MoneyAssumption DEF MoneyAssumption
<1>4. /\ N = n * Down(e) /\ D = d * Up(e)
      /\ N \in Nat \ {0} /\ D \in Nat \ {0}
  BY <1>3, NumDen
<1>5. N \div D \in h .. 2 ^ P - 1 /\ h \in Nat \ {0} /\ 2 ^ P \in Nat
  BY <1>1, HalfPower
<1> HIDE DEF N, D, e, h
<1>6. h * D <= N
  BY <1>4, <1>5, QuotientBound
<1>7. /\ m \in {N \div D, N \div D + 1}
      /\ 2 * (m * D) <= 2 * N + D
      /\ 2 * N <= 2 * (m * D) + D
  BY <1>4, HalfEvenNear
<1> HIDE DEF m
<1>8. m \in 1 .. 2 ^ P /\ m \in Nat
  BY <1>5, <1>7
<1>9. Close(m * D, N)
  <2>1. m * D \in Nat
    BY <1>4, <1>8
  <2>2. QED
    BY <1>4, <1>6, <1>7, <2>1, HalfUnitClose DEF h
<1>10. (m * Up(e)) * d = m * D
  BY <1>3, <1>4, <1>8, ScaleType
<1>11. QED
  BY <1>2, <1>3, <1>4, <1>8, <1>9, <1>10 DEF IsFloat, Top, Bot

LEMMA CloseScaled ==
  ASSUME NEW a \in Nat, NEW b \in Nat, NEW c \in Nat \ {0}
  PROVE  Close(a * c, b * c) <=> Close(a, b)
<1> DEFINE q == 2 ^ P
<1>1. q \in Nat
  BY HalfPower
<1> HIDE DEF q
<1>2. ASSUME NEW x \in Int, NEW y \in Int PROVE c * x <= c * y <=> x <= y
  OBVIOUS
<1>3. /\ q * (a * c) = c * (q * a)
      /\ (q + 1) * (b * c) = c * ((q + 1) * b)
      /\ (q - 1) * (b * c) = c * ((q - 1) * b)
  BY <1>1
<1>4. q * a \in Int /\ (q + 1) * b \in Int /\ (q - 1) * b \in Int
  BY <1>1
<1>5. /\ c * (q * a) <= c * ((q + 1) * b) <=> q * a <= (q + 1) * b
      /\ c * ((q - 1) * b) <= c * (q * a) <=> (q - 1) * b <= q * a
  <2> DEFINE u == q * a
             v == (q + 1) * b
             w == (q - 1) * b
  <2>1. u \in Int /\ v \in Int /\ w \in Int
    BY <1>4
  <2> HIDE DEF u, v, w
  <2>2. (c * u <= c * v <=> u <= v) /\ (c * w <= c * u <=> w <= u)
    BY <1>2, <2>1
  <2>3. QED
    BY <2>2 DEF u, v, w
<1>6. QED
  BY <1>3, <1>5, Zenon DEF Close, q

(* Exponents add up.                                                       *)
LEMMA MixedExponents ==
  ASSUME NEW a \in Int, NEW b \in Int, a >= 0, b < 0
  PROVE  Up(a + b) * (Down(a) * Down(b)) = (Up(a) * Up(b)) * Down(a + b)
<1>1. /\ Up(a) = 2 ^ a /\ Down(a) = 1 /\ Up(b) = 1 /\ Down(b) = 2 ^ (-b)
      /\ 2 ^ a \in Nat /\ 2 ^ (-b) \in Nat
  BY PowerType DEF Up, Down
<1>2. CASE a + b >= 0
  <2>1. Up(a + b) = 2 ^ (a + b) /\ Down(a + b) = 1 /\ 2 ^ (a + b) \in Nat
    BY <1>2, PowerType DEF Up, Down
  <2>2. a + b \in Nat /\ -b \in Nat /\ (a + b) + (-b) = a
    BY <1>2
  <2>3. 2 ^ ((a + b) + (-b)) = 2 ^ (a + b) * 2 ^ (-b)
    BY <2>2, PowerSum, Zenon
  <2>4. 2 ^ a = 2 ^ (a + b) * 2 ^ (-b)
    BY <2>2, <2>3, Zenon
  <2>5. QED
    BY <1>1, <2>1, <2>4
<1>3. CASE a + b < 0
  <2>1. /\ Up(a + b) = 1 /\ Down(a + b) = 2 ^ (-(a + b))
        /\ 2 ^ (-(a + b)) \in Nat
    BY <1>3, PowerType DEF Up, Down
  <2>2. a \in Nat /\ -(a + b) \in Nat /\ a + (-(a + b)) = -b
    BY <1>3
  <2>3. 2 ^ (a + (-(a + b))) = 2 ^ a * 2 ^ (-(a + b))
    BY <2>2, PowerSum, Zenon
  <2>4. 2 ^ (-b) = 2 ^ a * 2 ^ (-(a + b))
    BY <2>2, <2>3, Zenon
  <2>5. QED
    BY <1>1, <2>1, <2>4
<1>4. QED
  BY <1>2, <1>3

LEMMA SumOfExponents ==
  ASSUME NEW a \in Int, NEW b \in Int
  PROVE  Up(a + b) * (Down(a) * Down(b)) = (Up(a) * Up(b)) * Down(a + b)
<1>1. CASE a >= 0 /\ b >= 0
  <2>1. /\ Up(a) = 2 ^ a /\ Up(b) = 2 ^ b /\ Up(a + b) = 2 ^ (a + b)
        /\ Down(a) = 1 /\ Down(b) = 1 /\ Down(a + b) = 1
    BY <1>1 DEF Up, Down
  <2>2. 2 ^ (a + b) = 2 ^ a * 2 ^ b /\ 2 ^ a \in Nat /\ 2 ^ b \in Nat
    BY <1>1, PowerSum, PowerType
  <2>3. QED
    BY <2>1, <2>2
<1>2. CASE a < 0 /\ b < 0
  <2>1. /\ Down(a) = 2 ^ (-a) /\ Down(b) = 2 ^ (-b)
        /\ Down(a + b) = 2 ^ (-(a + b))
        /\ Up(a) = 1 /\ Up(b) = 1 /\ Up(a + b) = 1
    BY <1>2 DEF Up, Down
  <2>2. -a \in Nat /\ -b \in Nat /\ (-a) + (-b) = -(a + b)
    BY <1>2
  <2>3. 2 ^ ((-a) + (-b)) = 2 ^ (-a) * 2 ^ (-b)
    BY <2>2, PowerSum, Zenon
  <2>4. 2 ^ (-(a + b)) = 2 ^ (-a) * 2 ^ (-b)
    BY <2>2, <2>3, Zenon
  <2>5. 2 ^ (-a) \in Nat /\ 2 ^ (-b) \in Nat
    BY <2>2, PowerType
  <2>6. QED
    BY <2>1, <2>4, <2>5
<1>3. CASE a >= 0 /\ b < 0
  BY <1>3, MixedExponents
<1>4. CASE a < 0 /\ b >= 0
  <2>1. Up(b + a) * (Down(b) * Down(a)) = (Up(b) * Up(a)) * Down(b + a)
    BY <1>4, MixedExponents
  <2>2. a + b = b + a
    OBVIOUS
  <2>3. Up(a + b) = Up(b + a) /\ Down(a + b) = Down(b + a)
    BY <2>2, Zenon
  <2>4. /\ Up(a) \in Nat /\ Up(b) \in Nat /\ Down(a) \in Nat
        /\ Down(b) \in Nat
    BY ScaleType
  <2>5. Down(b) * Down(a) = Down(a) * Down(b) /\ Up(b) * Up(a) = Up(a) * Up(b)
    BY <2>4
  <2>6. QED
    BY <2>1, <2>3, <2>5, Zenon
<1>5. QED
  BY <1>1, <1>2, <1>3, <1>4

(* The product of a float and an integer is close to what it stands for.   *)
LEMMA ScaleNear ==
  ASSUME NEW f, IsFloat(f)
  PROVE  /\ IsFloat(Scale(f, minorUnits))
         /\ Close(Top(Scale(f, minorUnits)) * Bot(f),
                  (minorUnits * Top(f)) * Bot(Scale(f, minorUnits)))
<1> DEFINE k == minorUnits
           g == Float(f.m * k, 1)
           s == Scale(f, minorUnits)
<1>1. k \in Nat \ {0} /\ f.m \in Nat \ {0} /\ f.m <= 2 ^ P /\ f.e \in Int
  BY DEF minorUnits, IsFloat
<1>2. f.m * k \in Nat \ {0} /\ Holds(f.m * k, 1)
  <2> DEFINE big == 2 ^ Emax
             fine == 2 ^ Emin
             q == 2 ^ P
             h == 2 ^ (P - 1)
  <2>1. /\ big \in Nat /\ fine \in Nat /\ q \in Nat \ {0} /\ h \in Nat
        /\ k < big /\ 1000 * h <= fine
    BY MoneyAssumption, PowerType, HalfPower DEF MoneyAssumption
  <2> HIDE DEF big, fine, q, h
  <2>2. f.m <= q
    BY <1>1 DEF q
  <2> DEFINE m == f.m
  <2>3. m * k \in Nat \ {0}
    BY <1>1 DEF minorUnits
  <2>4. m * k <= q * k
    BY <1>1, <2>1, <2>2 DEF minorUnits
  <2>5. q * k < (1 * big) * q
    BY <1>1, <2>1
  <2>6. 1 * h <= (m * k) * fine
    <3> DEFINE mk == m * k
    <3>1. mk \in Nat \ {0}
      BY <2>3
    <3> HIDE DEF mk
    <3>2. fine <= mk * fine
      BY <2>1, <3>1
    <3>3. h <= fine
      BY <2>1
    <3>4. mk * fine \in Int
      BY <2>1, <3>1
    <3>5. 1 * h <= mk * fine
      BY <2>1, <3>2, <3>3, <3>4
    <3>6. QED
      BY <3>5 DEF mk
  <2>7. m * k < (1 * big) * q
    <3>1. q * k \in Int /\ (1 * big) * q \in Int
      BY <1>1, <2>1
    <3>2. QED
      BY <2>3, <2>4, <2>5, <3>1
  <2>8. QED
    BY <2>3, <2>6, <2>7 DEF Holds, big, fine, q, h
<1>3. IsFloat(g) /\ Close(Top(g) * 1, (f.m * k) * Bot(g))
  BY <1>2, FloatNear
<1>4. s = [g EXCEPT !.e = @ + f.e]
  BY DEF Scale
<1> HIDE DEF g, s, k
<1>5. /\ g.m \in Nat /\ g.e \in Int
      /\ s.m = g.m /\ s.e = g.e + f.e /\ IsFloat(s)
  BY <1>1, <1>3, <1>4 DEF IsFloat
<1>6. /\ Up(g.e) \in Nat /\ Down(g.e) \in Nat \ {0}
      /\ Up(f.e) \in Nat \ {0} /\ Down(f.e) \in Nat
      /\ Up(s.e) \in Nat /\ Down(s.e) \in Nat \ {0}
  BY <1>1, <1>5, ScaleType
<1>7. Up(s.e) * (Down(g.e) * Down(f.e)) = (Up(g.e) * Up(f.e)) * Down(s.e)
  BY <1>1, <1>5, SumOfExponents
<1> DEFINE a == (g.m * Up(g.e)) * 1
           b == (f.m * k) * Down(g.e)
           c == Up(f.e) * Down(s.e)
           a2 == (g.m * Up(s.e)) * Down(f.e)
           b2 == (k * (f.m * Up(f.e))) * Down(s.e)
<1>8. a * c = a2 * Down(g.e) /\ b * c = b2 * Down(g.e)
  <2> DEFINE gm == g.m
             fm == f.m
             gu == Up(g.e)
             gd == Down(g.e)
             fu == Up(f.e)
             fd == Down(f.e)
             su == Up(s.e)
             sd == Down(s.e)
  <2>1. /\ gm \in Nat /\ fm \in Nat /\ k \in Nat
        /\ gu \in Nat /\ gd \in Nat /\ fu \in Nat
        /\ fd \in Nat /\ su \in Nat /\ sd \in Nat
    BY <1>1, <1>5, <1>6
  <2>2. su * (gd * fd) = (gu * fu) * sd
    BY <1>7
  <2> HIDE DEF gm, fm, gu, gd, fu, fd, su, sd
  <2>3. /\ ((gm * gu) * 1) * (fu * sd) = gm * ((gu * fu) * sd)
        /\ ((gm * su) * fd) * gd = gm * (su * (gd * fd))
    BY <2>1
  <2>4. ((fm * k) * gd) * (fu * sd) = ((k * (fm * fu)) * sd) * gd
    BY <2>1
  <2>5. ((gm * gu) * 1) * (fu * sd) = ((gm * su) * fd) * gd
    BY <2>2, <2>3, Zenon
  <2>6. QED
    BY <2>4, <2>5, Zenon DEF gm, fm, gu, gd, fu, fd, su, sd
<1>9. a \in Nat /\ b \in Nat /\ c \in Nat \ {0} /\ a2 \in Nat /\ b2 \in Nat
  <2>1. ASSUME NEW x \in Nat, NEW y \in Nat PROVE x * y \in Nat
    OBVIOUS
  <2>2. ASSUME NEW x \in Nat \ {0}, NEW y \in Nat \ {0}
        PROVE  x * y \in Nat \ {0}
    OBVIOUS
  <2>3. QED
    BY <1>1, <1>5, <1>6, <2>1, <2>2
<1>10. Close(a, b)
  BY <1>3 DEF Top, Bot
<1> HIDE DEF a, b, c, a2, b2
<1>11. Close(a2 * Down(g.e), b2 * Down(g.e))
  BY <1>8, <1>9, <1>10, CloseScaled
<1>12. Close(a2, b2)
  BY <1>6, <1>9, <1>11, CloseScaled
<1>13. QED
  BY <1>5, <1>12 DEF Top, Bot, a2, b2, s, k

-----------------------------------------------------------------------------
(* Rounding to an integer.                                                 *)

LEMMA RoundNear ==
  ASSUME NEW f \in [m : Nat, e : Int]
  PROVE  /\ MathRound(f) \in Nat
         /\ 2 * (Bot(f) * MathRound(f)) <= 2 * Top(f) + Bot(f)
         /\ 2 * Top(f) < 2 * (Bot(f) * MathRound(f)) + Bot(f)
<1>1. CASE f.e >= 0
  <2>1. MathRound(f) = f.m * 2 ^ f.e /\ Top(f) = f.m * 2 ^ f.e /\ Bot(f) = 1
    BY <1>1 DEF MathRound, Top, Bot, Up, Down
  <2>2. f.m * 2 ^ f.e \in Nat
    <3>1. f.m \in Nat /\ 2 ^ f.e \in Nat
      BY <1>1, PowerType
    <3>2. QED
      BY <3>1
  <2>3. QED
    BY <2>1, <2>2
<1>2. CASE f.e < 0
  <2> DEFINE b == 2 ^ (-f.e)
             q == (2 * f.m + b) \div (2 * b)
             r == (2 * f.m + b) % (2 * b)
  <2>1. b \in Nat \ {0} /\ f.m \in Nat
    BY <1>2, PowerType
  <2>2. MathRound(f) = q /\ Top(f) = f.m /\ Bot(f) = b
    BY <1>2, <2>1 DEF MathRound, HalfAway, Top, Bot, Up, Down
  <2> HIDE DEF b
  <2>3. 2 * b \in Nat \ {0} /\ 2 * f.m + b \in Nat
    BY <2>1
  <2>4. 2 * f.m + b = (2 * b) * q + r /\ q \in Nat /\ r \in 0 .. 2 * b - 1
    <3> DEFINE x == 2 * f.m + b
               y == 2 * b
    <3>1. x \in Nat /\ y \in Nat \ {0}
      BY <2>3
    <3> HIDE DEF x, y
    <3>2. x = y * (x \div y) + (x % y) /\ x \div y \in Nat /\ x % y \in 0 .. y - 1
      BY <3>1
    <3>3. QED
      BY <3>2 DEF x, y
  <2> HIDE DEF q, r
  <2>5. (2 * b) * q = 2 * (b * q) /\ b * q \in Nat
    BY <2>1, <2>4
  <2>6. QED
    BY <2>1, <2>2, <2>4, <2>5
<1>3. QED
  BY <1>1, <1>2

(* Two relative errors in a row, Q being 2^P: x / y is t / 1000, and a / b *)
(* is 100 times x / y.                                                     *)
LEMMA TwoErrors ==
  ASSUME NEW Q \in Nat \ {0}, NEW a \in Nat, NEW b \in Nat,
         NEW x \in Nat, NEW y \in Nat \ {0}, NEW t \in Nat,
         Q * (x * 1000) <= (Q + 1) * (t * y),
         (Q - 1) * (t * y) <= Q * (x * 1000),
         Q * (a * y) <= (Q + 1) * ((100 * x) * b),
         (Q - 1) * ((100 * x) * b) <= Q * (a * y)
  PROVE  /\ (Q * Q) * (10 * a) <= ((Q + 1) * (Q + 1)) * (t * b)
         /\ ((Q - 1) * (Q - 1)) * (t * b) <= (Q * Q) * (10 * a)
<1>1. ((Q * Q) * (10 * a)) * y <= (((Q + 1) * (Q + 1)) * (t * b)) * y
  <2>1. (10 * Q) * (Q * (a * y)) <= (10 * Q) * ((Q + 1) * ((100 * x) * b))
    BY Ordered
  <2>2. ((Q + 1) * b) * (Q * (x * 1000)) <= ((Q + 1) * b) * ((Q + 1) * (t * y))
    BY Ordered
  <2>3. /\ (10 * Q) * (Q * (a * y)) = ((Q * Q) * (10 * a)) * y
        /\ (10 * Q) * ((Q + 1) * ((100 * x) * b))
             = ((Q + 1) * b) * (Q * (x * 1000))
        /\ ((Q + 1) * b) * ((Q + 1) * (t * y))
             = (((Q + 1) * (Q + 1)) * (t * b)) * y
    OBVIOUS
  <2>4. QED
    BY <2>1, <2>2, <2>3
<1>2. (((Q - 1) * (Q - 1)) * (t * b)) * y <= ((Q * Q) * (10 * a)) * y
  <2>1. (10 * Q) * ((Q - 1) * ((100 * x) * b)) <= (10 * Q) * (Q * (a * y))
    BY Ordered
  <2>2. ((Q - 1) * b) * ((Q - 1) * (t * y)) <= ((Q - 1) * b) * (Q * (x * 1000))
    BY Ordered
  <2>3. /\ (10 * Q) * (Q * (a * y)) = ((Q * Q) * (10 * a)) * y
        /\ (10 * Q) * ((Q - 1) * ((100 * x) * b))
             = ((Q - 1) * b) * (Q * (x * 1000))
        /\ ((Q - 1) * b) * ((Q - 1) * (t * y))
             = (((Q - 1) * (Q - 1)) * (t * b)) * y
    OBVIOUS
  <2>4. QED
    BY <2>1, <2>2, <2>3
<1>3. ASSUME NEW u \in Int, NEW v \in Int, u * y <= v * y PROVE u <= v
  BY <1>3
<1>4. QED
  <2> DEFINE u == (Q * Q) * (10 * a)
             v == ((Q + 1) * (Q + 1)) * (t * b)
             w == ((Q - 1) * (Q - 1)) * (t * b)
  <2>1. u \in Int /\ v \in Int /\ w \in Int
    OBVIOUS
  <2> HIDE DEF u, v, w
  <2>2. u * y <= v * y /\ w * y <= u * y
    BY <1>1, <1>2 DEF u, v, w
  <2>3. u <= v /\ w <= u
    BY <1>3, <2>1, <2>2
  <2>4. QED
    BY <2>3 DEF u, v, w

(* While t is small against Q, the errors are less than one tenth.         *)
LEMMA SmallErrors ==
  ASSUME NEW Q \in Nat, Q >= 2, NEW a \in Nat, NEW b \in Nat \ {0},
         NEW t \in Nat, 3 * t <= Q,
         (Q * Q) * (10 * a) <= ((Q + 1) * (Q + 1)) * (t * b),
         ((Q - 1) * (Q - 1)) * (t * b) <= (Q * Q) * (10 * a)
  PROVE  10 * a < t * b + b /\ t * b < 10 * a + b
<1> DEFINE A == 10 * a
           B == t * b
           S == Q * Q
<1>1. A \in Nat /\ B \in Nat /\ S \in Nat \ {0} /\ Q * b \in Nat
  OBVIOUS
<1>2. /\ ((Q + 1) * (Q + 1)) * (t * b) = S * B + (2 * Q + 1) * B
      /\ ((Q - 1) * (Q - 1)) * (t * b) = S * B - (2 * Q - 1) * B
  OBVIOUS
<1>3. 3 * B <= Q * b
  <2>1. b * (3 * t) <= b * Q
    BY Ordered
  <2>2. b * (3 * t) = 3 * B /\ b * Q = Q * b
    OBVIOUS
  <2>3. QED
    BY <2>1, <2>2
<1>4. (2 * Q + 1) * (3 * B) <= (2 * Q + 1) * (Q * b)
  <2> HIDE DEF B
  <2>1. QED
    BY <1>1, <1>3, Ordered
<1>5. (2 * Q + 1) * (Q * b) < (3 * Q) * (Q * b)
  <2>1. Q * b \in Nat \ {0}
    OBVIOUS
  <2> DEFINE z == Q * b
  <2> HIDE DEF z
  <2>2. (2 * Q + 1) * z = (3 * Q) * z - (Q - 1) * z
    BY <1>1 DEF z
  <2>3. z \in Nat \ {0}
    BY <2>1 DEF z
  <2>4. (Q - 1) * z > 0
    BY <2>3
  <2>5. (3 * Q) * z \in Int /\ (Q - 1) * z \in Int
    BY <2>3
  <2>6. (2 * Q + 1) * z < (3 * Q) * z
    BY <2>2, <2>4, <2>5
  <2>7. QED
    BY <2>6 DEF z
<1>6. (3 * Q) * (Q * b) = 3 * (S * b) /\ (2 * Q + 1) * (3 * B) = 3 * ((2 * Q + 1) * B)
  OBVIOUS
<1>7. (2 * Q + 1) * B < S * b
  <2>1. (2 * Q + 1) * B \in Int /\ S * b \in Int /\ (2 * Q + 1) * (Q * b) \in Int
    OBVIOUS
  <2>2. QED
    BY <1>4, <1>5, <1>6, <2>1
<1>8. S * A <= S * B + (2 * Q + 1) * B /\ S * B - (2 * Q - 1) * B <= S * A
  BY <1>2
<1>9. S * A < S * B + S * b /\ S * B < S * A + S * b
  <2>1. /\ S * A \in Int /\ S * B \in Int /\ S * b \in Int
        /\ (2 * Q + 1) * B \in Int /\ (2 * Q - 1) * B \in Int
        /\ (2 * Q - 1) * B <= (2 * Q + 1) * B
    OBVIOUS
  <2> HIDE DEF A, B, S
  <2>2. QED
    BY <1>7, <1>8, <2>1
<1> HIDE DEF A, B, S
<1>10. S * (B + b) = S * B + S * b /\ S * (A + b) = S * A + S * b
  BY <1>1
<1>11. ASSUME NEW u \in Int, NEW v \in Int, S * u < S * v PROVE u < v
  BY <1>1, <1>11
<1>12. A < B + b /\ B < A + b
  BY <1>1, <1>9, <1>10, <1>11
<1>13. QED
  BY <1>12 DEF A, B

(* Then the integer next to a / b is within half a unit of t / 10.         *)
LEMMA NearestUnit ==
  ASSUME NEW a \in Nat, NEW b \in Nat \ {0}, NEW t \in Nat, NEW r \in Nat,
         10 * a < t * b + b, t * b < 10 * a + b,
         2 * (b * r) <= 2 * a + b, 2 * a < 2 * (b * r) + b
  PROVE  10 * r - t \in -5 .. 5
<1>1. b * (10 * r) < b * (t + 6) /\ b * t < b * (10 * r + 6)
  <2>1. /\ b * (10 * r) = 10 * (b * r) /\ b * (t + 6) = t * b + 6 * b
        /\ b * t = t * b /\ b * (10 * r + 6) = 10 * (b * r) + 6 * b
        /\ b * r \in Nat /\ t * b \in Nat
    OBVIOUS
  <2>2. QED
    BY <2>1
<1>2. ASSUME NEW u \in Int, NEW v \in Int, b * u < b * v PROVE u < v
  BY <1>2
<1>3. 10 * r < t + 6 /\ t < 10 * r + 6
  BY <1>1, <1>2
<1>4. QED
  BY <1>3

(* An amount in range comes from one that is small against Q.              *)
LEMMA RangeIsSmall ==
  ASSUME NEW Q \in Nat, NEW a \in Nat, NEW b \in Nat \ {0},
         NEW t \in Nat, NEW r \in Nat, NEW max \in Nat,
         40 * (max + 1) <= Q, r <= max,
         ((Q - 1) * (Q - 1)) * (t * b) <= (Q * Q) * (10 * a),
         2 * a < 2 * (b * r) + b
  PROVE  3 * t <= Q
<1> SUFFICES ASSUME Q < 3 * t PROVE FALSE
  OBVIOUS
<1> DEFINE S == Q * Q
           R == (Q - 1) * (Q - 1)
<1>1. S \in Nat \ {0} /\ R \in Nat \ {0} /\ Q >= 40
  <2>1. Q >= 40
    OBVIOUS
  <2>2. Q - 1 \in Nat \ {0} /\ Q \in Nat \ {0}
    BY <2>1
  <2>3. ASSUME NEW x \in Nat \ {0} PROVE x * x \in Nat \ {0}
    OBVIOUS
  <2>4. QED
    BY <2>1, <2>2, <2>3
<1>2. b * r <= b * max
  BY Ordered
<1>3. 10 * a < b * (10 * max + 5)
  <2>1. b * (10 * max + 5) = 10 * (b * max) + 5 * b
    OBVIOUS
  <2>2. b * max \in Nat /\ b * r \in Nat
    OBVIOUS
  <2>3. QED
    BY <1>2, <2>1, <2>2
<1> HIDE DEF S, R
<1>4. S * (10 * a) < S * (b * (10 * max + 5))
  <2> DEFINE u == 10 * a
             v == b * (10 * max + 5)
  <2>1. u \in Nat /\ v \in Nat /\ u < v
    BY <1>3
  <2> HIDE DEF u, v
  <2>2. S * u < S * v
    BY <1>1, <2>1
  <2>3. QED
    BY <2>2 DEF u, v
<1>5. R * (t * b) < S * (b * (10 * max + 5))
  <2>1. /\ R * (t * b) \in Int /\ S * (10 * a) \in Int
        /\ S * (b * (10 * max + 5)) \in Int
    BY <1>1
  <2>2. R * (t * b) <= S * (10 * a)
    BY DEF R, S
  <2>3. QED
    BY <1>4, <2>1, <2>2
<1>6. R * t < S * (10 * max + 5)
  <2>1. R * (t * b) = b * (R * t)
    BY <1>1
  <2>2. S * (b * (10 * max + 5)) = b * (S * (10 * max + 5))
    BY <1>1
  <2>3. R * t \in Int /\ S * (10 * max + 5) \in Int
    BY <1>1
  <2>4. ASSUME NEW u \in Int, NEW v \in Int, b * u < b * v PROVE u < v
    BY <2>4
  <2>5. b * (R * t) < b * (S * (10 * max + 5))
    BY <1>5, <2>1, <2>2
  <2> DEFINE u == R * t
             v == S * (10 * max + 5)
  <2> HIDE DEF u, v
  <2>6. u < v
    BY <2>3, <2>4, <2>5 DEF u, v
  <2>7. QED
    BY <2>6 DEF u, v
<1>7. R * Q <= R * (3 * t)
  BY <1>1, Ordered
<1>8. S * (40 * max + 20) <= S * Q
  BY <1>1, Ordered
<1>9. 4 * (R * Q) < 3 * (S * Q)
  <2>1. R * (3 * t) = 3 * (R * t) /\ R * t \in Int /\ R * Q \in Int
    BY <1>1
  <2>2. /\ S * (40 * max + 20) = 4 * (S * (10 * max + 5))
        /\ S * (10 * max + 5) \in Int /\ S * Q \in Int
    BY <1>1
  <2> DEFINE p == R * t
             q == R * Q
             u == S * (10 * max + 5)
             v == S * Q
  <2>3. p < u /\ q <= 3 * p /\ 4 * u <= v
    BY <1>6, <1>7, <1>8, <2>1, <2>2
  <2>4. p \in Int /\ q \in Int /\ u \in Int /\ v \in Int
    BY <2>1, <2>2
  <2> HIDE DEF p, q, u, v
  <2>5. 4 * q < 3 * v
    BY <2>3, <2>4
  <2>6. QED
    BY <2>5 DEF q, v
<1>10. 4 * R < 3 * S
  <2>1. 4 * (R * Q) = Q * (4 * R) /\ 3 * (S * Q) = Q * (3 * S)
    BY <1>1
  <2>2. ASSUME NEW u \in Int, NEW v \in Int, Q * u < Q * v PROVE u < v
    BY <1>1, <2>2
  <2>3. 4 * R \in Int /\ 3 * S \in Int
    BY <1>1
  <2>4. Q * (4 * R) < Q * (3 * S)
    BY <1>9, <2>1
  <2>5. QED
    BY <2>2, <2>3, <2>4
<1>11. R = S - 2 * Q + 1 /\ S >= 40 * Q
  <2>1. Q * Q >= Q * 40
    BY <1>1, Ordered
  <2>2. QED
    BY <2>1 DEF R, S
<1>12. QED
  BY <1>1, <1>10, <1>11

-----------------------------------------------------------------------------
(* What becomes of t thousandths of a major unit, and of m minor units.    *)

Amount(t) == MathRound(Scale(Float(t, 1000), minorUnits))

LEMMA AmountErrors ==
  ASSUME NEW t \in Nat \ {0}, Holds(t, 1000)
  PROVE  \E a \in Nat, b \in Nat \ {0} :
           /\ Amount(t) \in Nat
           /\ 2 * (b * Amount(t)) <= 2 * a + b
           /\ 2 * a < 2 * (b * Amount(t)) + b
           /\ (2 ^ P * 2 ^ P) * (10 * a) <=
                ((2 ^ P + 1) * (2 ^ P + 1)) * (t * b)
           /\ ((2 ^ P - 1) * (2 ^ P - 1)) * (t * b) <=
                (2 ^ P * 2 ^ P) * (10 * a)
<1> DEFINE f == Float(t, 1000)
           s == Scale(f, minorUnits)
           a == Top(s)
           b == Bot(s)
           x == Top(f)
           y == Bot(f)
           Q == 2 ^ P
<1>1. IsFloat(f) /\ Close(x * 1000, t * y)
  BY FloatNear
<1> HIDE DEF f
<1>2. IsFloat(s) /\ Close(a * y, (minorUnits * x) * b)
  BY <1>1, ScaleNear
<1> HIDE DEF s
<1>3. /\ a \in Nat /\ b \in Nat \ {0} /\ x \in Nat /\ y \in Nat \ {0}
      /\ Q \in Nat \ {0}
  <2>1. ASSUME NEW g, IsFloat(g)
        PROVE  Top(g) \in Nat /\ Bot(g) \in Nat \ {0}
    <3>1. g.m \in Nat /\ g.e \in Int
      BY <2>1 DEF IsFloat
    <3>2. Up(g.e) \in Nat /\ Down(g.e) \in Nat \ {0}
      BY <3>1, ScaleType
    <3>3. g.m * Up(g.e) \in Nat
      BY <3>1, <3>2
    <3>4. QED
      BY <3>2, <3>3 DEF Top, Bot
  <2>2. QED
    BY <1>1, <1>2, <2>1, HalfPower
<1>4. /\ MathRound(s) \in Nat
      /\ 2 * (b * MathRound(s)) <= 2 * a + b
      /\ 2 * a < 2 * (b * MathRound(s)) + b
  <2>1. s \in [m : Nat, e : Int]
    BY <1>2 DEF IsFloat
  <2>2. QED
    BY <2>1, RoundNear
<1>5. /\ Q * (x * 1000) <= (Q + 1) * (t * y)
      /\ (Q - 1) * (t * y) <= Q * (x * 1000)
      /\ Q * (a * y) <= (Q + 1) * ((100 * x) * b)
      /\ (Q - 1) * ((100 * x) * b) <= Q * (a * y)
  BY <1>1, <1>2 DEF Close, minorUnits
<1>6. Amount(t) = MathRound(s)
  BY DEF Amount, s, f
<1> HIDE DEF a, b, x, y, Q
<1>7. /\ (Q * Q) * (10 * a) <= ((Q + 1) * (Q + 1)) * (t * b)
      /\ ((Q - 1) * (Q - 1)) * (t * b) <= (Q * Q) * (10 * a)
  BY <1>3, <1>5, TwoErrors
<1>8. QED
  BY <1>3, <1>4, <1>6, <1>7 DEF Q

(* A float can hold every amount sent, and a small one divided by d.       *)
LEMMA TextHolds ==
  ASSUME NEW t \in Texts
  PROVE  t \in Nat \ {0} /\ Holds(t, 1000)
<1>1. /\ t \in Nat \ {0} /\ Emin \in Nat /\ Emax \in Nat
      /\ 1000 * 2 ^ (P - 1) <= 2 ^ Emin
      /\ t \div (1000 * 2 ^ Emax) < 2 ^ P
  BY MoneyAssumption
<1> DEFINE Q == 2 ^ P
           H == 2 ^ (P - 1)
           lo == 2 ^ Emin
           hi == 2 ^ Emax
<1>2. Q \in Nat /\ H \in Nat /\ lo \in Nat \ {0} /\ hi \in Nat \ {0}
  BY <1>1, HalfPower, PowerType
<1> HIDE DEF Q, H, lo, hi
<1>3. t < (1000 * hi) * Q
  <2>1. 1000 * hi \in Nat \ {0}
    BY <1>2
  <2>2. t \div (1000 * hi) \in Nat
    BY <1>1, <2>1
  <2>3. ~(t \div (1000 * hi) >= Q)
    BY <1>1, <1>2, <2>2 DEF Q, hi
  <2>4. ~(t >= Q * (1000 * hi))
    BY <1>1, <1>2, <2>1, <2>3, QuotientBound
  <2>5. Q * (1000 * hi) = (1000 * hi) * Q /\ Q * (1000 * hi) \in Nat
    BY <1>2
  <2>6. QED
    BY <1>1, <2>4, <2>5
<1>4. 1000 * H <= t * lo
  <2>1. lo * 1 <= lo * t
    BY <1>1, <1>2, Ordered
  <2>2. lo * 1 = lo /\ lo * t = t * lo /\ t * lo \in Nat
    BY <1>1, <1>2
  <2>3. 1000 * H <= lo
    BY <1>1 DEF H, lo
  <2>4. QED
    BY <1>2, <2>1, <2>2, <2>3
<1>5. QED
  BY <1>1, <1>3, <1>4 DEF Holds, Q, H, lo, hi

LEMMA SmallHolds ==
  ASSUME NEW n \in Nat \ {0}, NEW d \in 1 .. 1000, n < 2 ^ P
  PROVE  Holds(n, d)
<1>1. /\ Emin \in Nat /\ Emax \in Nat
      /\ 1000 * 2 ^ (P - 1) <= 2 ^ Emin
  BY MoneyAssumption
<1> DEFINE Q == 2 ^ P
           H == 2 ^ (P - 1)
           lo == 2 ^ Emin
           hi == 2 ^ Emax
<1>2. Q \in Nat /\ H \in Nat /\ lo \in Nat \ {0} /\ hi \in Nat \ {0} /\ n < Q
  BY <1>1, HalfPower, PowerType
<1>3. 1000 * H <= lo
  BY <1>1
<1> HIDE DEF Q, H, lo, hi
<1>4. n < (d * hi) * Q
  <2>1. d * hi \in Nat \ {0}
    BY <1>2
  <2> DEFINE z == d * hi
  <2> HIDE DEF z
  <2>2. Q * 1 <= Q * z
    BY <1>2, <2>1, Ordered DEF z
  <2>3. Q * 1 = Q /\ Q * z = z * Q /\ z * Q \in Nat
    BY <1>2, <2>1 DEF z
  <2>4. n < z * Q
    BY <1>2, <2>2, <2>3
  <2>5. QED
    BY <2>4 DEF z
<1>5. d * H <= n * lo
  <2>1. lo * 1 <= lo * n
    BY <1>2, Ordered
  <2>2. lo * 1 = lo /\ lo * n = n * lo /\ n * lo \in Nat
    BY <1>2
  <2>3. H * d <= H * 1000
    BY <1>2, Ordered
  <2>4. H * d = d * H /\ H * 1000 = 1000 * H /\ d * H \in Nat
    BY <1>2
  <2>5. QED
    BY <1>2, <1>3, <2>1, <2>2, <2>3, <2>4
<1>6. QED
  BY <1>4, <1>5 DEF Holds, Q, H, lo, hi

(* The limits in numbers.                                                  *)
LEMMA Limits ==
  ASSUME NEW m \in Int, InRange(m)
  PROVE  /\ m \in Nat \ {0} /\ 2 * m < 2 ^ P
         /\ 10 * m \in Nat \ {0} /\ 3 * (10 * m) <= 2 ^ P /\ 10 * m < 2 ^ P
         /\ m < 2 ^ (W - 1)
<1>1. /\ MinMinor \in Nat \ {0} /\ MaxMinor \in Nat /\ 2 ^ (W - 1) \in Nat
      /\ MaxMinor + 1 < 2 ^ (W - 1) /\ 40 * (MaxMinor + 1) <= 2 ^ P
  BY MoneyAssumption, PowerType
<1>2. 2 ^ P \in Nat
  BY HalfPower
<1> DEFINE Q == 2 ^ P
           w == 2 ^ (W - 1)
<1> HIDE DEF Q, w
<1>3. /\ MinMinor \in Nat \ {0} /\ MaxMinor \in Nat /\ w \in Nat /\ Q \in Nat
      /\ MaxMinor + 1 < w /\ 40 * (MaxMinor + 1) <= Q
  BY <1>1, <1>2 DEF Q, w
<1>4. /\ m \in Nat \ {0} /\ 2 * m < Q
      /\ 10 * m \in Nat \ {0} /\ 3 * (10 * m) <= Q /\ 10 * m < Q
      /\ m < w
  BY <1>3 DEF InRange
<1>5. QED
  BY <1>4 DEF Q, w

(* An amount that is small against 2^P, or comes out in range, comes out   *)
(* within half a minor unit of what was sent.                              *)
LEMMA AmountNear ==
  ASSUME NEW t \in Nat \ {0}, Holds(t, 1000)
  PROVE  /\ Amount(t) \in Nat
         /\ 3 * t <= 2 ^ P \/ Amount(t) <= MaxMinor =>
              10 * Amount(t) - t \in -5 .. 5
<1> DEFINE Q == 2 ^ P
           r == Amount(t)
<1>1. PICK a \in Nat, b \in Nat \ {0} :
        /\ r \in Nat
        /\ 2 * (b * r) <= 2 * a + b
        /\ 2 * a < 2 * (b * r) + b
        /\ (Q * Q) * (10 * a) <= ((Q + 1) * (Q + 1)) * (t * b)
        /\ ((Q - 1) * (Q - 1)) * (t * b) <= (Q * Q) * (10 * a)
  BY AmountErrors
<1>2. Q \in Nat /\ MaxMinor \in Nat /\ 40 * (MaxMinor + 1) <= Q
  BY MoneyAssumption, HalfPower
<1> HIDE DEF Q, r
<1>3. Q >= 2
  BY <1>2
<1>4. ASSUME r <= MaxMinor PROVE 3 * t <= Q
  BY <1>1, <1>2, <1>4, RangeIsSmall
<1>5. ASSUME 3 * t <= Q PROVE 10 * r - t \in -5 .. 5
  <2>1. 10 * a < t * b + b /\ t * b < 10 * a + b
    BY <1>1, <1>2, <1>3, <1>5, SmallErrors
  <2>2. QED
    BY <1>1, <2>1, NearestUnit
<1>6. QED
  BY <1>1, <1>4, <1>5 DEF Q, r

LEMMA ParseIs == ASSUME NEW t PROVE Parse(t) = ToInt(Amount(t))
  BY DEF Parse, NewMoney, Amount

(* What parsing yields: an integer of W bits, and in range only if nothing *)
(* wrapped.                                                                *)
LEMMA ParseNear ==
  ASSUME NEW t \in Nat \ {0}, Holds(t, 1000), NEW m \in Parse(t)
  PROVE  /\ m \in -(2 ^ (W - 1)) .. 2 ^ (W - 1) - 1
         /\ InRange(m) => 10 * m - t \in -5 .. 5
<1>1. Amount(t) \in Nat
  BY AmountNear
<1>2. /\ MinMinor \in Nat \ {0} /\ MaxMinor \in Nat
      /\ MaxMinor + 1 < 2 ^ (W - 1) /\ 2 ^ (W - 1) \in Nat
  BY MoneyAssumption, PowerType
<1>3. m \in ToInt(Amount(t))
  BY ParseIs
<1> DEFINE w == 2 ^ (W - 1)
           r == Amount(t)
<1>4. m \in IF r < w THEN {r} ELSE {-w, w - 1}
  BY <1>3 DEF ToInt
<1> HIDE DEF w, r
<1>5. CASE r < w
  <2>1. m = r /\ m \in -w .. w - 1
    BY <1>1, <1>2, <1>4, <1>5 DEF w, r
  <2>2. InRange(m) => m <= MaxMinor
    BY DEF InRange
  <2>3. QED
    BY <2>1, <2>2, AmountNear DEF w, r
<1>6. CASE ~(r < w)
  <2>1. m \in {-w, w - 1}
    BY <1>4, <1>6
  <2>2. w \in Nat /\ MaxMinor + 1 < w
    BY <1>2 DEF w
  <2>3. m \in -w .. w - 1 /\ ~InRange(m)
    BY <1>2, <2>1, <2>2 DEF InRange
  <2>4. QED
    BY <2>3 DEF w
<1>7. QED
  BY <1>5, <1>6

(* An amount in range that is printed parses as itself.                    *)
LEMMA ParsePrinted ==
  ASSUME NEW m \in Int, InRange(m)
  PROVE  String(m) = 10 * m /\ Parse(10 * m) = {m}
<1>1. /\ m \in Nat \ {0} /\ 10 * m \in Nat \ {0} /\ 3 * (10 * m) <= 2 ^ P
      /\ 10 * m < 2 ^ P /\ m < 2 ^ (W - 1)
  BY Limits
<1>2. String(m) = 10 * m
  <2>1. m = 100 * (m \div 100) + (m % 100) /\ m \div 100 \in Nat /\ m % 100 \in 0 .. 99
    BY <1>1
  <2>2. QED
    BY <1>1, <2>1 DEF String, minorUnits
<1>3. Holds(10 * m, 1000)
  BY <1>1, SmallHolds
<1>4. Amount(10 * m) \in Nat /\ 10 * Amount(10 * m) - 10 * m \in -5 .. 5
  BY <1>1, <1>3, AmountNear
<1>5. Amount(10 * m) = m
  <2> DEFINE r == Amount(10 * m)
  <2>1. r \in Nat /\ 10 * r - 10 * m \in -5 .. 5
    BY <1>4
  <2> HIDE DEF r
  <2>2. r = m
    BY <1>1, <2>1
  <2>3. QED
    BY <2>2 DEF r
<1>6. Parse(10 * m) = {m}
  BY <1>1, <1>5, ParseIs DEF ToInt
<1>7. QED
  BY <1>2, <1>6

(* One relative error of at most 1/Q moves m by less than half a unit.     *)
LEMMA OneError ==
  ASSUME NEW Q \in Nat, NEW m \in Nat, 2 * m < Q,
         NEW x \in Nat, NEW y \in Nat \ {0}, NEW r \in Nat,
         Q * (x * 100) <= (Q + 1) * (m * y),
         (Q - 1) * (m * y) <= Q * (x * 100),
         2 * (y * r) <= 2 * (100 * x) + y,
         2 * (100 * x) < 2 * (y * r) + y
  PROVE  r = m
<1> DEFINE A == 100 * x
           B == m * y
<1>1. A \in Nat /\ B \in Nat /\ Q \in Nat \ {0} /\ y * r \in Nat
  OBVIOUS
<1>2. 2 * B < Q * y
  <2>1. Q - 2 * m \in Nat \ {0}
    OBVIOUS
  <2>2. (Q - 2 * m) * y > 0
    BY <2>1
  <2>3. (Q - 2 * m) * y = Q * y - 2 * B /\ Q * y \in Int
    OBVIOUS
  <2> HIDE DEF B
  <2>4. QED
    BY <1>1, <2>2, <2>3
<1>3. Q * A <= Q * B + B /\ Q * B - B <= Q * A
  <2>1. /\ Q * (x * 100) = Q * A
        /\ (Q + 1) * (m * y) = Q * B + B /\ (Q - 1) * (m * y) = Q * B - B
    OBVIOUS
  <2>2. QED
    BY <2>1
<1>4. 2 * (y * r) <= 2 * A + y /\ 2 * A < 2 * (y * r) + y
  OBVIOUS
<1> HIDE DEF A, B
<1>5. Q * (2 * A) < Q * (2 * B + y) /\ Q * (2 * B) < Q * (2 * A + y)
  <2>1. /\ Q * (2 * A) = 2 * (Q * A) /\ Q * (2 * B + y) = 2 * (Q * B) + Q * y
        /\ Q * (2 * B) = 2 * (Q * B) /\ Q * (2 * A + y) = 2 * (Q * A) + Q * y
        /\ Q * A \in Int /\ Q * B \in Int /\ Q * y \in Int
    BY <1>1
  <2>2. QED
    BY <1>1, <1>2, <1>3, <2>1
<1>6. ASSUME NEW u \in Int, NEW v \in Int, Q * u < Q * v PROVE u < v
  BY <1>1, <1>6
<1>7. 2 * A < 2 * B + y /\ 2 * B < 2 * A + y
  BY <1>1, <1>5, <1>6
<1>8. y * r < B + y /\ B < y * r + y
  BY <1>1, <1>4, <1>7
<1>9. y * r < y * (m + 1) /\ y * m < y * (r + 1)
  <2>1. y * (m + 1) = B + y /\ y * m = B /\ y * (r + 1) = y * r + y
    BY DEF B
  <2>2. QED
    BY <1>8, <2>1
<1>10. ASSUME NEW u \in Int, NEW v \in Int, y * u < y * v PROVE u < v
  BY <1>10
<1>11. r < m + 1 /\ m < r + 1
  BY <1>9, <1>10
<1>12. QED
  BY <1>11

(* The float shown for an amount in range is read as that amount.          *)
LEMMA ShownIsStored ==
  ASSUME NEW m \in Int, InRange(m)
  PROVE  Shown(m) = m
<1>1. m \in Nat \ {0} /\ 2 * m < 2 ^ P /\ 10 * m < 2 ^ P
  BY Limits
<1>2. Holds(m, 100)
  <2>1. m < 2 ^ P
    BY <1>1, HalfPower
  <2>2. QED
    BY <1>1, <2>1, SmallHolds
<1> DEFINE f == Float(m, 100)
           g == [f EXCEPT !.m = @ * 100]
           x == Top(f)
           y == Bot(f)
           r == MathRound(g)
           Q == 2 ^ P
<1>3. IsFloat(f) /\ Close(x * 100, m * y)
  BY <1>1, <1>2, FloatNear
<1>4. Shown(m) = r
  BY DEF Shown, Major, minorUnits
<1> HIDE DEF f
<1>5. f.m \in Nat /\ f.e \in Int /\ g.m = f.m * 100 /\ g.e = f.e
  BY <1>3, HalfPower DEF IsFloat
<1>6. g \in [m : Nat, e : Int]
  <2>1. f.m * 100 \in Nat
    BY <1>5
  <2>2. f \in [m : 1 .. 2 ^ P, e : Int]
    BY <1>3 DEF IsFloat
  <2>3. g = [m |-> f.m * 100, e |-> f.e]
    BY <2>2
  <2>4. QED
    BY <1>5, <2>1, <2>3
<1>7. x \in Nat /\ y \in Nat \ {0} /\ Top(g) = 100 * x /\ Bot(g) = y
  <2>1. Up(f.e) \in Nat /\ Down(f.e) \in Nat \ {0}
    BY <1>5, ScaleType
  <2>2. (f.m * 100) * Up(f.e) = 100 * (f.m * Up(f.e)) /\ f.m * Up(f.e) \in Nat
    BY <1>5, <2>1
  <2>3. QED
    BY <1>5, <2>1, <2>2 DEF Top, Bot
<1>8. /\ r \in Nat
      /\ 2 * (y * r) <= 2 * (100 * x) + y
      /\ 2 * (100 * x) < 2 * (y * r) + y
  <2> HIDE DEF g, x, y
  <2>1. QED
    BY <1>6, <1>7, RoundNear
<1>9. /\ Q * (x * 100) <= (Q + 1) * (m * y)
      /\ (Q - 1) * (m * y) <= Q * (x * 100)
  BY <1>3 DEF Close
<1>10. Q \in Nat /\ 2 * m < Q
  BY <1>1, HalfPower
<1> HIDE DEF x, y, r, Q
<1>11. r = m
  BY <1>1, <1>7, <1>8, <1>9, <1>10, OneError
<1>12. QED
  BY <1>4, <1>11

-----------------------------------------------------------------------------
(* The way of an amount, step by step.                                     *)

LEMMA InitInv == Init => TypeOK /\ MoneyInv
<1> SUFFICES ASSUME Init PROVE TypeOK /\ MoneyInv
  OBVIOUS
<1>1. text \in Nat /\ asked \in Texts
  BY MoneyAssumption DEF Init
<1>2. 0 \in -(2 ^ (W - 1)) .. 2 ^ (W - 1) - 1
  <2>1. 2 ^ (W - 1) \in Nat \ {0}
    BY MoneyAssumption, PowerType
  <2> DEFINE w == 2 ^ (W - 1)
  <2> HIDE DEF w
  <2>2. 0 \in -w .. w - 1
    BY <2>1 DEF w
  <2>3. QED
    BY <2>2 DEF w
<1>3. QED
  BY <1>1, <1>2 DEF Init, TypeOK, MoneyInv, PrintedParsesBack

LEMMA NextInv == TypeOK /\ MoneyInv /\ [Next]_vars => TypeOK' /\ MoneyInv'
<1> SUFFICES ASSUME TypeOK, MoneyInv, [Next]_vars
             PROVE  TypeOK' /\ MoneyInv'
  OBVIOUS
<1> DEFINE Width == -(2 ^ (W - 1)) .. 2 ^ (W - 1) - 1
<1>1. /\ text \in Nat /\ asked \in Texts /\ minor \in Width
      /\ stored \in {0} \union MinMinor .. MaxMinor
      /\ MinMinor \in Nat \ {0} /\ MaxMinor \in Nat /\ Width \subseteq Int
  BY MoneyAssumption DEF TypeOK
<1>2. CASE Decode
  <2>1. text \in Nat \ {0} /\ Holds(text, 1000) /\ text = asked
    BY <1>1, <1>2, TextHolds DEF Decode, MoneyInv
  <2>2. minor' \in Width /\ (InRange(minor') => 10 * minor' - text \in -5 .. 5)
    <3>1. minor' \in Parse(text)
      BY <1>2 DEF Decode
    <3>2. QED
      BY <2>1, <3>1, ParseNear
  <2>3. TypeOK'
    BY <1>1, <1>2, <2>2 DEF TypeOK, Decode
  <2>4. MoneyInv'
    <3> HIDE DEF Width
    <3>1. asked' = asked /\ step' \in {"accepted", "refused"}
      BY <1>2 DEF Decode
    <3>2. step' = "accepted" => InRange(minor')
      BY <1>2 DEF Decode
    <3>3. InRange(minor') => Near(minor)'
      BY <2>1, <2>2, <3>1 DEF Near
    <3>4. QED
      BY <3>1, <3>2, <3>3 DEF MoneyInv, PrintedParsesBack, InRange, Near
  <2>5. QED
    BY <2>3, <2>4
<1>3. CASE Store
  <2>1. InRange(minor) /\ Near(minor)
    BY <1>3 DEF Store, MoneyInv
  <2>2. minor \in MinMinor .. MaxMinor
    BY <1>1, <2>1 DEF InRange
  <2>3. TypeOK'
    BY <1>1, <1>3, <2>2 DEF TypeOK, Store
  <2>4. MoneyInv'
    BY <1>3, <2>1 DEF Store, MoneyInv, PrintedParsesBack, InRange, Near
  <2>5. QED
    BY <2>3, <2>4
<1>4. CASE Render
  <2>1. InRange(stored) /\ stored \in MinMinor .. MaxMinor /\ stored \in Int
    BY <1>1, <1>4 DEF Render, MoneyInv, InRange
  <2>2. text' = 10 * stored /\ 10 * stored \in Nat
    BY <1>4, <2>1, ParsePrinted, Limits DEF Render
  <2>3. minor' = stored /\ stored \in Width
    BY <1>1, <1>4 DEF Render, MoneyInv
  <2>4. TypeOK'
    BY <1>1, <1>4, <2>2, <2>3 DEF TypeOK, Render
  <2>5. MoneyInv'
    BY <1>4, <2>1, <2>2 DEF Render, MoneyInv, PrintedParsesBack, InRange, Near
  <2>6. QED
    BY <2>4, <2>5
<1>5. CASE Reparse
  <2>1. InRange(stored) /\ text = 10 * stored /\ stored \in Int
    BY <1>1, <1>5 DEF Reparse, MoneyInv
  <2>2. minor' = stored
    <3>1. minor' \in Parse(10 * stored)
      BY <1>5, <2>1 DEF Reparse
    <3>2. QED
      BY <2>1, <3>1, ParsePrinted
  <2>3. stored \in Width
    <3>1. 10 * stored \in Nat \ {0} /\ 10 * stored < 2 ^ P
      BY <2>1, Limits
    <3>2. Holds(10 * stored, 1000)
      BY <3>1, SmallHolds
    <3>3. stored \in Parse(10 * stored)
      BY <2>1, ParsePrinted
    <3>4. QED
      BY <3>1, <3>2, <3>3, ParseNear
  <2>4. TypeOK'
    BY <1>1, <1>5, <2>2, <2>3 DEF TypeOK, Reparse
  <2>5. MoneyInv'
    BY <1>5, <2>1, <2>2 DEF Reparse, MoneyInv, PrintedParsesBack, InRange, Near
  <2>6. QED
    BY <2>4, <2>5
<1>6. CASE UNCHANGED vars
  BY <1>6 DEF vars, TypeOK, MoneyInv, PrintedParsesBack, InRange, Near
<1>7. QED
  BY <1>2, <1>3, <1>4, <1>5, <1>6 DEF Next

(* What the amount is at each step: the text sent until it is decoded,     *)
(* then an amount in range next to it, then ten times that in thousandths. *)
THEOREM InvCorrect == Spec => [](TypeOK /\ MoneyInv)
  BY InitInv, NextInv, PTL DEF Spec

(* The amount is an integer of W bits at every step, even one that was out *)
(* of its range, and a stored one is within the limits.                    *)
THEOREM TypeCorrect == Spec => []TypeOK
  BY InvCorrect, PTL

(* An accepted amount is within half a minor unit of the one sent, and no  *)
(* conversion that wrapped is accepted.                                    *)
THEOREM RoundsCorrect == Spec => []RoundsToNearest
<1>1. TypeOK /\ MoneyInv => RoundsToNearest
  BY DEF MoneyInv, RoundsToNearest
<1>2. QED
  BY <1>1, InvCorrect, PTL

(* An amount in whole minor units is stored and shown as it was sent.      *)
THEOREM ShownCorrect == Spec => []ShownAsSent
<1>1. TypeOK /\ MoneyInv => ShownAsSent
  <2> SUFFICES ASSUME TypeOK, MoneyInv, step = "stored", asked % 10 = 0
               PROVE  10 * stored = asked /\ Shown(stored) = stored
    BY DEF ShownAsSent
  <2>1. InRange(stored) /\ 10 * stored - asked \in -5 .. 5
    BY DEF MoneyInv, Near
  <2>2. stored \in Int /\ asked \in Nat
    BY MoneyAssumption DEF TypeOK
  <2>3. asked = 10 * (asked \div 10) /\ asked \div 10 \in Nat
    BY <2>2
  <2>4. 10 * stored = asked
    BY <2>1, <2>2, <2>3
  <2>5. QED
    BY <2>1, <2>2, <2>4, ShownIsStored
<1>2. QED
  BY <1>1, InvCorrect, PTL

(* What String prints of an amount in range is parsed as the same amount.  *)
THEOREM ParsesBackCorrect == Spec => []PrintedParsesBack
<1>1. TypeOK /\ MoneyInv => PrintedParsesBack
  BY DEF MoneyInv
<1>2. QED
  BY <1>1, InvCorrect, PTL
=============================================================================
