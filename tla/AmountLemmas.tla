---------------------------- MODULE AmountLemmas ----------------------------
(***************************************************************************)
(* Lemmas about the arithmetic of Amount and of the solver of the          *)
(* quadratic: which way each operation rounds, and by how much.            *)
(***************************************************************************)
EXTENDS Quadratic, TLAPS, WellFoundedInduction

\* Floor division by a positive divisor, as the code's U256 divides.
LEMMA FloorDivision ==
    ASSUME NEW x \in Nat, NEW y \in Nat \ {0}
    PROVE  /\ x \div y \in Nat
           /\ y * (x \div y) <= x
           /\ x < y * (x \div y) + y
<1>1. x \div y \in Int /\ y * (x \div y) <= x /\ x < y * (x \div y) + y
  BY Z3
<1>2. x \div y >= 0
  <2>1. SUFFICES ASSUME x \div y <= -1 PROVE FALSE
    BY <1>1
  <2>2. y * (x \div y) <= -y
    BY <1>1, <2>1
  <2> QED BY <1>1, <2>2
<1> QED BY <1>1, <1>2

\* The scale is a positive integer.
LEMMA ScaleType == SCALE \in Nat \ {0} /\ SCALE_SQRT \in Nat \ {0}
BY AmountAssumption DEF SCALE

\* A product of amounts rounds down.
LEMMA TimesRoundsDown ==
    ASSUME NEW x \in Nat, NEW y \in Nat
    PROVE  /\ Times(x, y) \in Nat
           /\ SCALE * Times(x, y) <= x * y
<1>1. x * y \in Nat
  OBVIOUS
<1> QED BY <1>1, ScaleType, FloorDivision DEF Times

\* The saturating subtraction of amounts is their difference or zero.
LEMMA SsbFacts ==
    ASSUME NEW x \in Nat, NEW y \in Nat
    PROVE  /\ Ssb(x, y) \in Nat
           /\ Ssb(x, y) <= x
           /\ x <= y => Ssb(x, y) = 0
           /\ y <= x => Ssb(x, y) = x - y
BY DEF Ssb, Lesser

\* ... and an amount again when the left operand is one.
LEMMA SsbType ==
    ASSUME NEW x \in Amounts, NEW y \in Nat
    PROVE  Ssb(x, y) \in Amounts
BY AmountAssumption DEF Ssb, Lesser, Amounts

\* Every natural number has a floor square root: the least r whose
\* successor's square exceeds n.
LEMMA FloorSqrtExists ==
    ASSUME NEW n \in Nat
    PROVE  \E r \in 0 .. n : IsFloorSqrt(r, n)
<1> DEFINE Above == {r \in Nat : n < (r + 1) * (r + 1)}
<1>1. n \in Above
  <2>1. (n + 1) * (n + 1) = n * n + 2 * n + 1
    OBVIOUS
  <2>2. n * n \in Nat
    OBVIOUS
  <2> QED BY <2>1, <2>2
<1>2. Above \subseteq Nat /\ Above # {}
  BY <1>1
<1> DEFINE Less == {ss \in Nat \X Nat : ss[1] < ss[2]}
<1>3. IsWellFoundedOn(Less, Nat)
  BY NatLessThanWellFounded DEF OpToRel
<1>4. PICK r \in Above : \A m \in Above : ~ (<<m, r>> \in Less)
  <2> HIDE DEF Above, Less
  <2> QED BY <1>2, <1>3, WFMin
<1> HIDE DEF Less
<1>5. r \in Nat /\ n < (r + 1) * (r + 1)
  OBVIOUS
<1>6. r * r <= n
  <2>1. CASE r = 0
    BY <2>1
  <2>2. CASE r # 0
    <3>1. r - 1 \in Nat /\ r - 1 < r
      BY <1>5, <2>2
    <3>2. r - 1 \notin Above
      BY <3>1, <1>4 DEF Less
    <3>3. ~ (n < ((r - 1) + 1) * ((r - 1) + 1))
      BY <3>1, <3>2
    <3>4. (r - 1) + 1 = r
      BY <1>5
    <3>5. r * r \in Nat
      BY <1>5
    <3> QED BY <3>3, <3>4, <3>5
  <2> QED BY <2>1, <2>2
<1>7. r <= n
  <2>1. CASE r = 0
    BY <2>1
  <2>2. CASE r # 0
    <3>1. r <= r * r
      BY <1>5, <2>2
    <3>2. r * r \in Nat
      BY <1>5
    <3> QED BY <1>5, <1>6, <3>1, <3>2
  <2> QED BY <2>1, <2>2
<1> QED BY <1>5, <1>6, <1>7 DEF IsFloorSqrt

\* The square root of an amount is an amount whose square, unscaled, does not
\* exceed it.
LEMMA SqrtRoundsDown ==
    ASSUME NEW x \in Nat
    PROVE  /\ Sqrt(x) \in Nat
           /\ Sqrt(x) * Sqrt(x) <= SCALE * x
<1> DEFINE r == IntSqrt(x)
<1>1. r \in 0 .. x /\ IsFloorSqrt(r, x)
  BY FloorSqrtExists DEF IntSqrt
<1>2. r \in Nat /\ r * r <= x
  BY <1>1 DEF IsFloorSqrt
<1>3. Sqrt(x) = r * SCALE_SQRT
  BY DEF Sqrt
<1> HIDE DEF r
<1>4. Sqrt(x) \in Nat
  BY <1>2, <1>3, ScaleType
<1>5. Sqrt(x) * Sqrt(x) = (r * r) * (SCALE_SQRT * SCALE_SQRT)
  BY <1>2, <1>3, ScaleType
<1>6. (r * r) * SCALE <= x * SCALE
  BY <1>2, ScaleType
<1> QED BY <1>4, <1>5, <1>6, ScaleType DEF SCALE

\* Dividing a multiple of the scale is exact, so TWO and FOUR multiply exactly.
LEMMA ExactDivision ==
    ASSUME NEW n \in Nat
    PROVE  (n * SCALE) \div SCALE = n
<1>1. n * SCALE \in Nat
  BY ScaleType
<1> DEFINE d == (n * SCALE) \div SCALE
<1>2. d \in Nat /\ SCALE * d <= n * SCALE /\ n * SCALE < SCALE * d + SCALE
  BY <1>1, ScaleType, FloorDivision
<1> HIDE DEF d
<1>3. ~ (n < d)
  <2>1. SUFFICES ASSUME n + 1 <= d PROVE FALSE
    BY <1>2
  <2>2. SCALE * (n + 1) <= SCALE * d
    BY <2>1, <1>2, ScaleType
  <2> QED BY <2>2, <1>2, ScaleType
<1>4. ~ (d < n)
  <2>1. SUFFICES ASSUME d + 1 <= n PROVE FALSE
    BY <1>2
  <2>2. SCALE * (d + 1) <= SCALE * n
    BY <2>1, <1>2, ScaleType
  <2> QED BY <2>2, <1>2, ScaleType
<1>5. d = n
  BY <1>2, <1>3, <1>4
<1> QED BY <1>5 DEF d

LEMMA TimesTwo ==
    ASSUME NEW x \in Nat
    PROVE  Times(x, TWO) = 2 * x
<1>1. x * TWO = (2 * x) * SCALE
  BY ScaleType DEF TWO
<1>2. 2 * x \in Nat
  OBVIOUS
<1> QED BY <1>1, <1>2, ExactDivision DEF Times

\* Rounding the radical down: the root's square is at most P^2 + 4*C*S.
LEMMA RootBound ==
    ASSUME NEW s \in Nat, NEW p \in Nat, NEW c \in Nat
    PROVE  /\ Root(s, p, c) \in Nat
           /\ Root(s, p, c) * Root(s, p, c) <= p * p + 4 * (c * s)
<1> DEFINE cs  == Times(c, s)
           pp  == Times(p, p)
           fcs == Times(FOUR, cs)
           rad == Radical(s, p, c)
<1>1. cs \in Nat /\ SCALE * cs <= c * s
  BY TimesRoundsDown
<1>2. pp \in Nat /\ SCALE * pp <= p * p
  BY TimesRoundsDown
<1>3. FOUR \in Nat /\ FOUR = 4 * SCALE
  BY ScaleType DEF FOUR
<1>4. fcs \in Nat /\ SCALE * fcs <= FOUR * cs
  <2> HIDE DEF cs
  <2> QED BY <1>1, <1>3, TimesRoundsDown
<1>5. FOUR * cs = 4 * (SCALE * cs)
  <2> HIDE DEF cs
  <2> QED BY <1>1, <1>3, ScaleType
<1>6. rad = pp + fcs
  BY DEF Radical, Plus
<1> HIDE DEF cs, pp, fcs
<1>7. SCALE * rad <= p * p + 4 * (c * s)
  <2>1. SCALE * rad = SCALE * pp + SCALE * fcs
    BY <1>2, <1>4, <1>6, ScaleType
  <2>2. p * p \in Nat /\ c * s \in Nat
    OBVIOUS
  <2>3. SCALE * pp \in Nat /\ SCALE * fcs \in Nat /\ SCALE * cs \in Nat
    BY <1>1, <1>2, <1>4, ScaleType
  <2> QED BY <1>1, <1>2, <1>4, <1>5, <2>1, <2>2, <2>3
<1>8. rad \in Nat
  BY <1>2, <1>4, <1>6
<1>9. Sqrt(rad) \in Nat /\ Sqrt(rad) * Sqrt(rad) <= SCALE * rad
  <2> HIDE DEF rad
  <2> QED BY <1>8, SqrtRoundsDown
<1>10. Root(s, p, c) = Sqrt(rad)
  BY DEF Root
<1> HIDE DEF rad
<1>11. Sqrt(rad) * Sqrt(rad) \in Nat /\ SCALE * rad \in Nat /\ p * p + 4 * (c * s) \in Nat
  BY <1>8, <1>9, ScaleType
<1> QED BY <1>7, <1>9, <1>10, <1>11

\* The quantity solved for, scaled by 2*S, is at most the numerator R - P.
LEMMA QuantityBound ==
    ASSUME NEW s \in Nat \ {0}, NEW p \in Nat, NEW c \in Nat
    PROVE  /\ IndexQuantity(s, p, c) \in Nat
           /\ 2 * s * IndexQuantity(s, p, c) <= Ssb(Root(s, p, c), p) * SCALE
<1> DEFINE n == Ssb(Root(s, p, c), p)
<1>1. n \in Nat
  BY RootBound, SsbFacts
<1>2. Times(s, TWO) = 2 * s /\ 2 * s \in Nat \ {0}
  BY TimesTwo
<1>3. IndexQuantity(s, p, c) = (n * SCALE) \div (2 * s)
  BY <1>2 DEF IndexQuantity, Over
<1> HIDE DEF n
<1>4. n * SCALE \in Nat
  BY <1>1, ScaleType
<1>5. /\ (n * SCALE) \div (2 * s) \in Nat
      /\ (2 * s) * ((n * SCALE) \div (2 * s)) <= n * SCALE
  BY <1>2, <1>4, FloorDivision
<1> QED BY <1>3, <1>5 DEF n

\* The inequality behind NoOverspend, over plain integers: k is the scale, r
\* the root, q the filled quantity and e the effective price.
LEMMA CostInequality ==
    ASSUME NEW k \in Nat \ {0}, NEW s \in Nat \ {0}, NEW p \in Nat, NEW c \in Nat,
           NEW r \in Nat, NEW q \in Nat, NEW e \in Nat,
           r * r <= p * p + 4 * (c * s),
           p <= r,
           2 * s * q <= (r - p) * k,
           k * e <= k * p + s * q
    PROVE  q * e <= k * c
<1> DEFINE u == 2 * s * q
           n == r - p
<1>1. u \in Nat /\ n \in Nat /\ u <= n * k /\ n * k \in Nat
  OBVIOUS
<1>2. u * u <= (n * k) * (n * k)
  <2> HIDE DEF u, n
  <2>1. u * u <= u * (n * k)
    BY <1>1
  <2>2. u * (n * k) <= (n * k) * (n * k)
    BY <1>1
  <2>3. u * u \in Nat /\ u * (n * k) \in Nat /\ (n * k) * (n * k) \in Nat
    BY <1>1
  <2> QED BY <2>1, <2>2, <2>3
<1>3. 2 * u * (k * p) <= 2 * (n * k) * (k * p)
  <2> HIDE DEF u, n
  <2>1. k * p \in Nat
    OBVIOUS
  <2>2. u * (k * p) <= (n * k) * (k * p)
    BY <1>1, <2>1
  <2>3. u * (k * p) \in Nat /\ (n * k) * (k * p) \in Nat
    BY <1>1, <2>1
  <2> QED BY <1>1, <2>1, <2>2, <2>3
<1>4. 4 * s * (q * (k * p + s * q)) = u * u + 2 * u * (k * p)
  OBVIOUS
<1>5. (n * k) * (n * k) + 2 * (n * k) * (k * p) = (k * k) * (r * r - p * p)
  OBVIOUS
<1>6. (k * k) * (r * r - p * p) <= (k * k) * (4 * (c * s))
  <2>1. r * r - p * p <= 4 * (c * s) /\ r * r - p * p \in Int /\ 4 * (c * s) \in Int
    OBVIOUS
  <2>2. k * k \in Nat
    OBVIOUS
  <2> QED BY <2>1, <2>2
<1>7. 4 * s * (q * (k * p + s * q)) <= (k * k) * (4 * (c * s))
  <2>1. u * u \in Nat /\ 2 * u * (k * p) \in Nat
    BY <1>1
  <2>2. (n * k) * (n * k) \in Nat /\ 2 * (n * k) * (k * p) \in Nat
    BY <1>1
  <2>3. (k * k) * (4 * (c * s)) \in Nat /\ (k * k) * (r * r - p * p) \in Int
    OBVIOUS
  <2> HIDE DEF u, n
  <2> QED BY <1>2, <1>3, <1>4, <1>5, <1>6, <2>1, <2>2, <2>3
<1>8. q * (k * e) <= q * (k * p + s * q)
  <2>1. k * e \in Nat /\ k * p + s * q \in Nat
    OBVIOUS
  <2> QED BY <2>1
<1>9. (4 * s * k) * (q * e) <= (4 * s * k) * (k * c)
  <2>1. 4 * s * (q * (k * e)) <= 4 * s * (q * (k * p + s * q))
    <3>1. q * (k * e) \in Nat /\ q * (k * p + s * q) \in Nat /\ 4 * s \in Nat
      OBVIOUS
    <3> QED BY <1>8, <3>1
  <2>2. 4 * s * (q * (k * e)) = (4 * s * k) * (q * e)
    OBVIOUS
  <2>3. (k * k) * (4 * (c * s)) = (4 * s * k) * (k * c)
    OBVIOUS
  <2>4. /\ 4 * s * (q * (k * e)) \in Nat
        /\ 4 * s * (q * (k * p + s * q)) \in Nat
        /\ (k * k) * (4 * (c * s)) \in Nat
    OBVIOUS
  <2> QED BY <1>7, <2>1, <2>2, <2>3, <2>4
<1> DEFINE m == 4 * s * k
           x == q * e
           y == k * c
<1>10. m \in Nat \ {0} /\ x \in Nat /\ y \in Nat
  OBVIOUS
<1>11. m * x <= m * y
  BY <1>9
<1> HIDE DEF m, x, y
<1>12. x <= y
  <2>1. SUFFICES ASSUME y + 1 <= x PROVE FALSE
    BY <1>10
  <2>2. m * (y + 1) <= m * x
    BY <1>10, <2>1
  <2>3. m * (y + 1) = m * y + m
    BY <1>10
  <2>4. m * x \in Nat /\ m * y \in Nat
    BY <1>10
  <2> QED BY <1>10, <1>11, <2>2, <2>3, <2>4
<1> QED BY <1>12 DEF x, y

\* No quantity up to the solution of the quadratic costs more than the
\* collateral it was solved for.
LEMMA CostWithinCollateral ==
    ASSUME NEW s \in Nat \ {0}, NEW p \in Nat, NEW c \in Nat, NEW q \in Nat,
           q <= IndexQuantity(s, p, c)
    PROVE  Times(Plus(p, Times(s, q)), q) <= c
<1> DEFINE r == Root(s, p, c)
           e == Plus(p, Times(s, q))
           n == Ssb(r, p)
           x == IndexQuantity(s, p, c)
<1>1. r \in Nat /\ r * r <= p * p + 4 * (c * s)
  BY RootBound
<1>2. Times(s, q) \in Nat /\ SCALE * Times(s, q) <= s * q
  BY TimesRoundsDown
<1>3. e \in Nat /\ SCALE * e <= SCALE * p + s * q
  <2>1. SCALE * (p + Times(s, q)) = SCALE * p + SCALE * Times(s, q)
    BY <1>2, ScaleType
  <2>2. SCALE * p \in Nat /\ SCALE * Times(s, q) \in Nat /\ s * q \in Nat
    BY <1>2, ScaleType
  <2> QED BY <1>2, <2>1, <2>2 DEF Plus
<1>4. x \in Nat /\ 2 * s * x <= n * SCALE
  BY QuantityBound
<1>5. n \in Nat /\ (p <= r => n = r - p) /\ (r <= p => n = 0)
  BY <1>1, SsbFacts
<1>6. Times(e, q) \in Nat /\ SCALE * Times(e, q) <= e * q
  <2> HIDE DEF e
  <2> QED BY <1>3, TimesRoundsDown
<1>7. 2 * s * q <= n * SCALE
  <2>1. q <= x
    OBVIOUS
  <2> HIDE DEF x, n
  <2>2. 2 * s * q <= 2 * s * x
    BY <1>4, <2>1
  <2>3. 2 * s * q \in Nat /\ 2 * s * x \in Nat /\ n * SCALE \in Nat
    BY <1>4, <1>5, ScaleType
  <2> QED BY <1>4, <2>2, <2>3
<1> HIDE DEF r, e, n, x
<1>8. q * e <= SCALE * c
  <2>1. CASE p <= r
    BY <1>1, <1>3, <1>5, <1>7, <2>1, ScaleType, CostInequality
  <2>2. CASE r < p
    <3>1. 2 * s * q <= 0
      BY <1>1, <1>5, <1>7, <2>2, ScaleType
    <3>2. q = 0
      <4>1. SUFFICES ASSUME q >= 1 PROVE FALSE
        OBVIOUS
      <4>2. 2 * s * q >= 2 * s
        BY <4>1
      <4> QED BY <3>1, <4>2
    <3>3. q * e = 0
      BY <1>3, <3>2
    <3> QED BY <3>3, ScaleType
  <2> QED BY <1>1, <2>1, <2>2
<1>9. SCALE * Times(e, q) <= SCALE * c
  <2>1. e * q = q * e /\ q * e \in Nat /\ SCALE * c \in Nat /\ SCALE * Times(e, q) \in Nat
    BY <1>3, <1>6, ScaleType
  <2> QED BY <1>6, <1>8, <2>1
<1>10. Times(e, q) <= c
  <2>1. SUFFICES ASSUME c + 1 <= Times(e, q) PROVE FALSE
    BY <1>6
  <2>2. SCALE * (c + 1) <= SCALE * Times(e, q)
    BY <1>6, <2>1, ScaleType
  <2> QED BY <1>6, <1>9, <2>2, ScaleType
<1> QED BY <1>10 DEF e

\* ... and its effective price is at most the root, or the price itself.
LEMMA PriceWithinRoot ==
    ASSUME NEW s \in Nat \ {0}, NEW p \in Nat, NEW c \in Nat, NEW q \in Nat,
           q <= IndexQuantity(s, p, c)
    PROVE  /\ Times(s, q) \in Nat
           /\ Plus(p, Times(s, q)) <= Greater(p, Root(s, p, c))
<1> DEFINE r == Root(s, p, c)
           n == Ssb(r, p)
           x == IndexQuantity(s, p, c)
           t == Times(s, q)
<1>1. r \in Nat /\ n \in Nat /\ (p <= r => n = r - p) /\ (r <= p => n = 0)
  BY RootBound, SsbFacts
<1>2. t \in Nat /\ SCALE * t <= s * q
  BY TimesRoundsDown
<1>3. x \in Nat /\ 2 * s * x <= n * SCALE
  BY QuantityBound
<1>4. s * q <= s * x
  BY <1>3
<1> HIDE DEF r, n, x, t
<1>5. s * x <= n * SCALE /\ s * q \in Nat /\ s * x \in Nat /\ n * SCALE \in Nat
  <2>1. s * x \in Nat /\ n * SCALE \in Nat /\ 2 * s * x = 2 * (s * x)
    BY <1>1, <1>3, ScaleType
  <2> QED BY <1>3, <2>1
<1>6. SCALE * t <= n * SCALE
  BY <1>2, <1>4, <1>5, ScaleType
<1>7. t <= n
  <2>1. SUFFICES ASSUME n + 1 <= t PROVE FALSE
    BY <1>1, <1>2
  <2>2. SCALE * (n + 1) <= SCALE * t
    BY <1>1, <1>2, <2>1, ScaleType
  <2>3. SCALE * (n + 1) = n * SCALE + SCALE
    BY <1>1, ScaleType
  <2> QED BY <1>1, <1>2, <1>6, <2>2, <2>3, ScaleType
<1>8. p + t <= Greater(p, r)
  BY <1>1, <1>2, <1>7 DEF Greater
<1> QED BY <1>2, <1>8 DEF Plus, t, r

-----------------------------------------------------------------------------
(***************************************************************************)
(* How much rounding takes away.                                           *)
(***************************************************************************)

\* A product loses less than one raw unit.
LEMMA TimesLosesLittle ==
    ASSUME NEW x \in Nat, NEW y \in Nat
    PROVE  x * y < SCALE * Times(x, y) + SCALE
<1>1. x * y \in Nat
  OBVIOUS
<1> QED BY <1>1, ScaleType, FloorDivision DEF Times

\* A square root loses less than one unit of the root of the scale.
LEMMA SqrtLosesLittle ==
    ASSUME NEW x \in Nat
    PROVE  SCALE * x < (Sqrt(x) + SCALE_SQRT) * (Sqrt(x) + SCALE_SQRT)
<1> DEFINE r == IntSqrt(x)
           h == SCALE_SQRT
<1>1. r \in 0 .. x /\ IsFloorSqrt(r, x)
  BY FloorSqrtExists DEF IntSqrt
<1>2. r \in Nat /\ x < (r + 1) * (r + 1)
  BY <1>1 DEF IsFloorSqrt
<1>3. Sqrt(x) = r * h /\ h \in Nat \ {0} /\ SCALE = h * h
  BY ScaleType DEF Sqrt, SCALE
<1> HIDE DEF r, h
<1>4. (h * h) * x < (h * h) * ((r + 1) * (r + 1))
  <2>1. h * h \in Nat \ {0} /\ (r + 1) * (r + 1) \in Nat
    BY <1>2, <1>3
  <2> QED BY <1>2, <2>1
<1>5. (h * h) * ((r + 1) * (r + 1)) = (r * h + h) * (r * h + h)
  BY <1>2, <1>3
<1> QED BY <1>3, <1>4, <1>5 DEF h

\* The root is the root of P^2 + 4*C*S up to SCALE_SQRT, and five units lost
\* under it.
LEMMA RootLosesLittle ==
    ASSUME NEW s \in Nat, NEW p \in Nat, NEW c \in Nat
    PROVE  p * p + 4 * (c * s) < (Root(s, p, c) + SCALE_SQRT) * (Root(s, p, c) + SCALE_SQRT)
                                    + 5 * SCALE
<1> DEFINE cs  == Times(c, s)
           pp  == Times(p, p)
           rad == Radical(s, p, c)
           b   == Sqrt(rad) + SCALE_SQRT
<1>1. cs \in Nat /\ c * s < SCALE * cs + SCALE
  BY TimesRoundsDown, TimesLosesLittle
<1>2. pp \in Nat /\ p * p < SCALE * pp + SCALE
  BY TimesRoundsDown, TimesLosesLittle
<1>3. Times(FOUR, cs) = 4 * cs
  <2> HIDE DEF cs
  <2>1. FOUR * cs = (4 * cs) * SCALE /\ 4 * cs \in Nat
    BY <1>1, ScaleType DEF FOUR
  <2> QED BY <2>1, ExactDivision DEF Times
<1>4. rad = pp + 4 * cs
  BY <1>3 DEF Radical, Plus
<1> HIDE DEF cs, pp
<1>5. rad \in Nat
  BY <1>1, <1>2, <1>4
<1>6. Root(s, p, c) = Sqrt(rad)
  BY DEF Root
<1> HIDE DEF rad
<1>7. SCALE * rad < b * b /\ b * b \in Nat
  <2>1. Sqrt(rad) \in Nat /\ SCALE * rad < b * b
    BY <1>5, SqrtRoundsDown, SqrtLosesLittle
  <2>2. b \in Nat
    BY <2>1, ScaleType
  <2> HIDE DEF b
  <2> QED BY <2>1, <2>2
<1>8. SCALE * rad = SCALE * pp + 4 * (SCALE * cs)
  BY <1>1, <1>2, <1>4, ScaleType
<1> HIDE DEF b
<1>9. p * p + 4 * (c * s) < b * b + 5 * SCALE
  <2>1. p * p \in Nat /\ c * s \in Nat
    OBVIOUS
  <2>2. SCALE * pp \in Nat /\ SCALE * cs \in Nat /\ SCALE * rad \in Nat
    BY <1>1, <1>2, <1>5, ScaleType
  <2> QED BY <1>1, <1>2, <1>7, <1>8, <2>1, <2>2, ScaleType
<1> QED BY <1>6, <1>9 DEF b

\* The quantity solved for loses less than one raw unit.
LEMMA QuantityLosesLittle ==
    ASSUME NEW s \in Nat \ {0}, NEW p \in Nat, NEW c \in Nat
    PROVE  Ssb(Root(s, p, c), p) * SCALE < 2 * s * IndexQuantity(s, p, c) + 2 * s
<1> DEFINE n == Ssb(Root(s, p, c), p)
<1>1. n \in Nat
  BY RootBound, SsbFacts
<1>2. Times(s, TWO) = 2 * s /\ 2 * s \in Nat \ {0}
  BY TimesTwo
<1>3. IndexQuantity(s, p, c) = (n * SCALE) \div (2 * s)
  BY <1>2 DEF IndexQuantity, Over
<1> HIDE DEF n
<1>4. n * SCALE \in Nat
  BY <1>1, ScaleType
<1>5. n * SCALE < (2 * s) * ((n * SCALE) \div (2 * s)) + 2 * s
  BY <1>2, <1>4, FloorDivision
<1> QED BY <1>3, <1>5 DEF n

\* The converse of CostInequality, over plain integers: k is the scale, h its
\* root, r the root of the radical, q the quantity solved for, e the effective
\* price and d the cost.  Each hypothesis says how little one rounding took.
LEMMA DustInequality ==
    ASSUME NEW k \in Nat \ {0}, NEW h \in Nat, NEW s \in Nat \ {0}, NEW p \in Nat,
           NEW c \in Nat, NEW r \in Nat, NEW n \in Nat, NEW q \in Nat, NEW e \in Nat,
           NEW d \in Nat,
           h * h = k,
           p <= r => n = r - p,
           r <= p => n = 0,
           p * p + 4 * (c * s) < (r + h) * (r + h) + 5 * k,
           2 * s * q <= n * k,
           n * k < 2 * s * q + 2 * s,
           k * p + s * q < k * e + k,
           e * q < k * d + k
    PROVE  4 * k * s * (c - d) < 6 * k * k + (2 * h + 2) * k * r + 4 * s * r + 4 * s * k
<1> DEFINE u  == 2 * s * q
           w  == u + k * p
           kr == k * r
<1>1. u \in Nat /\ w \in Nat /\ kr \in Nat /\ k * p \in Nat
  OBVIOUS
\* The numerator is at most the root.
<1>2. u <= kr
  <2>1. n <= r
    OBVIOUS
  <2>2. n * k <= r * k
    BY <2>1
  <2> QED BY <2>2
\* Cost and effective price, multiplied out.
<1>3. w * w - (k * p) * (k * p) - 2 * u * k < 4 * k * k * s * d + 4 * k * k * s
  <2>1. (4 * s * k) * (e * q) < (4 * s * k) * (k * d + k)
    <3>1. 4 * s * k \in Nat \ {0} /\ e * q \in Nat /\ k * d + k \in Nat
      OBVIOUS
    <3> QED BY <3>1
  <2>2. (k * p + s * q - k) * q <= (k * e) * q
    <3>1. k * p + s * q - k \in Int /\ k * e \in Int /\ k * p + s * q - k <= k * e
      OBVIOUS
    <3> QED BY <3>1
  <2>3. (4 * s) * ((k * p + s * q - k) * q) <= (4 * s) * ((k * e) * q)
    <3>1. (k * p + s * q - k) * q \in Int /\ (k * e) * q \in Int /\ 4 * s \in Nat
      OBVIOUS
    <3> QED BY <2>2, <3>1
  <2>4. (4 * s) * ((k * e) * q) = (4 * s * k) * (e * q)
    OBVIOUS
  <2>5. (4 * s) * ((k * p + s * q - k) * q) = w * w - (k * p) * (k * p) - 2 * u * k
    OBVIOUS
  <2>6. (4 * s * k) * (k * d + k) = 4 * k * k * s * d + 4 * k * k * s
    OBVIOUS
  <2>7. /\ w * w - (k * p) * (k * p) - 2 * u * k \in Int
        /\ (4 * s * k) * (e * q) \in Int /\ (4 * s * k) * (k * d + k) \in Int
    OBVIOUS
  <2> HIDE DEF u, w
  <2> QED BY <2>1, <2>3, <2>4, <2>5, <2>6, <2>7
\* The quantity falls short of the root by less than 2 * s.
<1>4. kr * kr - 4 * s * kr <= w * w
  <2>1. CASE kr <= w
    <3>1. kr * kr <= w * w
      <4> HIDE DEF kr, w
      <4>1. kr * kr <= kr * w
        BY <1>1, <2>1
      <4>2. kr * w <= w * w
        BY <1>1, <2>1
      <4>3. kr * kr \in Nat /\ kr * w \in Nat /\ w * w \in Nat
        BY <1>1
      <4> QED BY <4>1, <4>2, <4>3
    <3>2. 4 * s * kr \in Nat /\ kr * kr \in Nat /\ w * w \in Nat
      BY <1>1
    <3> HIDE DEF kr, w
    <3> QED BY <3>1, <3>2
  <2>2. CASE w < kr
    <3>1. kr < w + 2 * s
      <4>1. CASE p <= r
        <5>1. n = r - p
          BY <4>1
        <5>2. n * k = k * r - k * p
          BY <5>1
        <5> QED BY <5>2
      <4>2. CASE r < p
        <5>1. k * r <= k * p
          BY <4>2
        <5> QED BY <5>1, <1>1, <2>2
      <4> QED BY <4>1, <4>2
    <3> DEFINE g == kr - w
    <3>2. g \in Nat /\ g <= 2 * s /\ kr = w + g
      BY <1>1, <2>2, <3>1
    <3> HIDE DEF g, kr, w
    <3>3. kr * kr - 2 * g * kr <= w * w
      <4>1. w * w = kr * kr - 2 * g * kr + g * g
        BY <1>1, <3>2
      <4>2. g * g \in Nat /\ kr * kr - 2 * g * kr \in Int
        BY <1>1, <3>2
      <4> QED BY <4>1, <4>2
    <3>4. 2 * g * kr <= 4 * s * kr
      <4>1. 2 * g <= 4 * s /\ 2 * g \in Nat /\ 4 * s \in Nat
        BY <3>2
      <4> QED BY <1>1, <4>1
    <3>5. 2 * g * kr \in Nat /\ 4 * s * kr \in Nat /\ kr * kr \in Nat /\ w * w \in Nat
      BY <1>1, <3>2
    <3> QED BY <3>3, <3>4, <3>5
  <2> QED BY <1>1, <2>1, <2>2
\* The radical, multiplied out.
<1>5. (k * p) * (k * p) + 4 * k * k * s * c
         < kr * kr + 2 * h * k * kr + k * k * k + 5 * k * k * k
  <2>1. (k * k) * (p * p + 4 * (c * s)) < (k * k) * ((r + h) * (r + h) + 5 * k)
    <3>1. /\ k * k \in Nat \ {0}
          /\ p * p + 4 * (c * s) \in Int /\ (r + h) * (r + h) + 5 * k \in Int
      OBVIOUS
    <3> QED BY <3>1
  <2>2. (k * k) * (p * p + 4 * (c * s)) = (k * p) * (k * p) + 4 * k * k * s * c
    OBVIOUS
  <2>3. (r + h) * (r + h) + 5 * k = r * r + 2 * h * r + 6 * k
    OBVIOUS
  <2>4. (k * k) * (r * r + 2 * h * r + 6 * k)
           = kr * kr + 2 * h * k * kr + k * k * k + 5 * k * k * k
    OBVIOUS
  <2> QED BY <2>1, <2>2, <2>3, <2>4
<1> DEFINE x == 4 * k * s * (c - d)
           y == 6 * k * k + (2 * h + 2) * k * r + 4 * s * r + 4 * s * k
<1>6. x \in Int /\ y \in Int
  OBVIOUS
<1>7. k * x = 4 * k * k * s * c - 4 * k * k * s * d
  OBVIOUS
<1>8. k * y = kr * (2 * h * k) + 6 * k * k * k + 2 * k * kr + 4 * s * kr + 4 * k * k * s
  OBVIOUS
<1>9. 2 * u * k <= 2 * k * kr
  <2> HIDE DEF u, kr
  <2>1. u * (2 * k) <= kr * (2 * k)
    BY <1>1, <1>2
  <2> QED BY <1>1, <2>1
<1>10. k * x < k * y
  <2> DEFINE z == 2 * u * k
             ww == w * w
             pp == (k * p) * (k * p)
             dd == 4 * k * k * s * d
             cc == 4 * k * k * s * c
             rr == kr * kr
             sr == 4 * s * kr
             hr == 2 * h * k * kr
             kk == k * k * k
             ks == 4 * k * k * s
             zr == 2 * k * kr
  <2>1. /\ z \in Int /\ ww \in Int /\ pp \in Int /\ dd \in Int /\ cc \in Int /\ rr \in Int
        /\ sr \in Int /\ hr \in Int /\ kk \in Int /\ ks \in Int /\ zr \in Int
    BY <1>1
  <2>2. ww - pp - z < dd + ks /\ rr - sr <= ww /\ pp + cc < rr + hr + kk + 5 * kk /\ z <= zr
    <3>1. 5 * kk = 5 * k * k * k
      OBVIOUS
    <3> QED BY <1>3, <1>4, <1>5, <1>9, <3>1
  <2>3. k * x = cc - dd
    BY <1>7
  <2>4. k * y = hr + 6 * kk + zr + sr + ks
    <3>1. hr = kr * (2 * h * k) /\ 6 * kk = 6 * k * k * k
      OBVIOUS
    <3> QED BY <1>8, <3>1
  <2> HIDE DEF z, ww, pp, dd, cc, rr, sr, hr, kk, ks, zr
  <2>5. cc - dd < hr + 6 * kk + zr + sr + ks
    <3>1. rr - sr - pp - zr < dd + ks
      BY <2>1, <2>2
    <3>2. rr - pp < dd + ks + sr + zr
      BY <2>1, <3>1
    <3>3. cc < rr - pp + hr + 6 * kk
      BY <2>1, <2>2
    <3> QED BY <2>1, <3>2, <3>3
  <2> QED BY <2>3, <2>4, <2>5
<1> HIDE DEF x, y
<1>11. x < y
  <2>1. SUFFICES ASSUME y <= x PROVE FALSE
    BY <1>6
  <2>2. k * y <= k * x
    BY <1>6, <2>1
  <2>3. k * y \in Int /\ k * x \in Int
    BY <1>6
  <2> QED BY <1>10, <2>2, <2>3
<1> QED BY <1>11 DEF x, y

\* What the quantity solved for leaves of the collateral.
LEMMA UncappedDust ==
    ASSUME NEW s \in Nat \ {0}, NEW p \in Nat, NEW c \in Nat
    PROVE  LET r == Root(s, p, c)
               q == IndexQuantity(s, p, c)
               d == Times(Plus(p, Times(s, q)), q)
           IN  4 * SCALE * s * (c - d)
                  < 6 * SCALE * SCALE + (2 * SCALE_SQRT + 2) * SCALE * r
                       + 4 * s * r + 4 * s * SCALE
<1> DEFINE r == Root(s, p, c)
           n == Ssb(r, p)
           q == IndexQuantity(s, p, c)
           t == Times(s, q)
           e == Plus(p, t)
           d == Times(e, q)
<1>1. r \in Nat /\ p * p + 4 * (c * s) < (r + SCALE_SQRT) * (r + SCALE_SQRT) + 5 * SCALE
  BY RootBound, RootLosesLittle
<1>2. n \in Nat /\ (p <= r => n = r - p) /\ (r <= p => n = 0)
  BY <1>1, SsbFacts
<1>3. /\ q \in Nat /\ 2 * s * q <= n * SCALE
      /\ n * SCALE < 2 * s * q + 2 * s
  BY QuantityBound, QuantityLosesLittle
<1> HIDE DEF r, n, q
<1>4. t \in Nat /\ s * q < SCALE * t + SCALE
  BY <1>3, TimesRoundsDown, TimesLosesLittle
<1>5. e \in Nat /\ e = p + t
  BY <1>4 DEF Plus
<1> HIDE DEF t, e
<1>6. SCALE * p + s * q < SCALE * e + SCALE
  <2>1. SCALE * e = SCALE * p + SCALE * t
    BY <1>4, <1>5, ScaleType
  <2>2. SCALE * p \in Nat /\ SCALE * t \in Nat /\ s * q \in Nat
    BY <1>3, <1>4, ScaleType
  <2> QED BY <1>4, <2>1, <2>2, ScaleType
<1>7. d \in Nat /\ e * q < SCALE * d + SCALE
  BY <1>3, <1>5, TimesRoundsDown, TimesLosesLittle
<1> HIDE DEF d
<1>8. SCALE_SQRT * SCALE_SQRT = SCALE /\ SCALE_SQRT \in Nat /\ SCALE \in Nat \ {0}
  BY ScaleType DEF SCALE
<1>9. 4 * SCALE * s * (c - d)
         < 6 * SCALE * SCALE + (2 * SCALE_SQRT + 2) * SCALE * r + 4 * s * r + 4 * s * SCALE
  BY <1>1, <1>2, <1>3, <1>5, <1>6, <1>7, <1>8, DustInequality
<1> QED BY <1>9 DEF r, q, t, e, d

=============================================================================
