-------------------------- MODULE ProductCurve_proofs --------------------------
(***************************************************************************)
(* The arithmetic of the constant-product pair, for every commission,      *)
(* width and amount: what a swap returns, and the root of a first deposit. *)
(***************************************************************************)
EXTENDS ProductCurve, Arith_proofs

\* What is returned is no more than there is.  The part of the ask pool that
\* stays is rounded down to a fraction of a unit, which the offer makes up for
\* while the offer pool, as it is after the swap, is no more than that fraction.
LEMMA GrossLemma ==
    ASSUME NEW o \in Nat, NEW a \in Nat, NEW n \in Nat, o > 0
    PROVE  LET gross == GrossReturn(o, a, n)
           IN  /\ gross \in Nat /\ gross <= a
               /\ n = 0 => gross = 0
               /\ o + n <= DECIMAL_FRACTION => (o + n) * (a - gross) >= o * a
  <1> DEFINE F == DECIMAL_FRACTION
             s == o + n
             x == (o * a) * F
             q == x \div s
             kept == a * F - q
             gross == kept \div F
             left == a - gross
  <1>1. F \in Nat /\ F > 0 /\ s \in Nat /\ s > 0 /\ o <= s
    BY AssetAssumption
  <1> HIDE DEF F, s
  <1>2. o * a \in Nat /\ x \in Nat /\ a * F \in Nat
    BY <1>1, ProductLemma
  <1>3. x = o * (a * F)
    BY <1>1, ThreeLemma
  <1> HIDE DEF x
  <1>4. q \in Nat /\ s * q <= x /\ x < s * q + s
    BY <1>1, <1>2, DivLemma
  <1> HIDE DEF q
  <1>5. q <= a * F
    <2>1. o * (a * F) <= s * (a * F)
      BY <1>1, <1>2, ProductLemma
    <2>2. s * q <= s * (a * F) /\ s * (a * F) \in Nat /\ s * q \in Nat
      BY <1>1, <1>2, <1>3, <1>4, <2>1, ProductLemma
    <2> QED BY <1>1, <1>2, <1>4, <2>2, ProductLemma
  <1>6. kept \in Nat /\ kept <= a * F /\ a * F = kept + q
    BY <1>2, <1>4, <1>5
  <1> HIDE DEF kept
  <1>7. gross \in Nat /\ F * gross <= kept
    BY <1>1, <1>6, DivLemma
  <1>8. GrossReturn(o, a, n) = gross
    BY <1>1, <1>6 DEF GrossReturn, Scaled, FromRatio, F, s, x, q, kept
  <1> HIDE DEF gross
  <1>9. gross <= a
    <2>1. F * gross <= F * a
      BY <1>1, <1>6, <1>7, ProductLemma
    <2> QED BY <1>1, <1>7, <2>1, ProductLemma
  <1>10. left \in Nat /\ left + gross = a
    BY <1>7, <1>9
  <1> HIDE DEF left
  <1>11. n = 0 => gross = 0
    <2> SUFFICES ASSUME n = 0 PROVE gross = 0
      OBVIOUS
    <2>1. s = o
      BY DEF s
    <2>2. o * (a * F) < o * (q + 1)
      <3>1. o * (q + 1) = o * q + o * 1 /\ o * 1 = o
        BY <1>4, ProductLemma
      <3> QED BY <1>3, <1>4, <2>1, <3>1
    <2>3. a * F < q + 1
      BY <1>2, <1>4, <2>2, ProductLemma
    <2>4. kept = 0
      BY <1>2, <1>4, <1>5, <1>6, <2>3
    <2>5. F * gross <= F * 0
      BY <1>7, <2>4, <1>1
    <2> QED BY <1>1, <1>7, <2>5, ProductLemma
  <1>12. s <= F => s * left >= o * a
    <2> SUFFICES ASSUME s <= F PROVE s * left >= o * a
      OBVIOUS
    <2>1. F * left >= q
      <3>1. F * a = F * left + F * gross /\ F * a = a * F
        BY <1>1, <1>7, <1>10, ProductLemma
      <3>2. F * left \in Nat /\ F * gross \in Nat /\ F * a \in Nat
        BY <1>1, <1>7, <1>10, ProductLemma
      <3> QED BY <1>4, <1>6, <1>7, <3>1, <3>2
    <2>2. s * q <= s * (F * left) /\ s * (F * left) = F * (s * left)
      <3>1. F * left \in Nat
        BY <1>1, <1>10, ProductLemma
      <3>2. s * (F * left) = F * (s * left)
        BY <1>1, <1>10, ThreeLemma
      <3> QED BY <1>1, <1>4, <2>1, <3>1, <3>2, ProductLemma
    <2>3. s * left \in Nat /\ F * (s * left) \in Nat /\ s * q \in Nat
      BY <1>1, <1>4, <1>10, ProductLemma
    <2>4. F * (s * left + 1) = F * (s * left) + F * 1 /\ F * 1 = F
      BY <1>1, <2>3, ProductLemma
    <2>5. x < F * (s * left + 1)
      BY <1>1, <1>2, <1>4, <2>2, <2>3, <2>4
    <2>6. x = F * (o * a)
      BY <1>1, <1>2, ProductLemma DEF x
    <2>7. o * a < s * left + 1
      BY <1>1, <1>2, <2>3, <2>5, <2>6, ProductLemma
    <2> QED BY <1>2, <2>3, <2>7
  <1> QED BY <1>7, <1>8, <1>9, <1>11, <1>12 DEF s, F, left

\* The commission is a part of what is returned.
LEMMA CommissionLemma ==
    ASSUME NEW gross \in Nat
    PROVE  Commission(gross) \in Nat /\ Commission(gross) <= gross
  <1> DEFINE F == DECIMAL_FRACTION
             R == COMMISSION_RATE
  <1>1. F \in Nat /\ F > 0 /\ R \in Nat /\ R <= F
    BY AssetAssumption, ProductAssumption
  <1> HIDE DEF F, R
  <1> DEFINE x == gross * R
             q == x \div F
  <1>2. x \in Nat /\ x <= gross * F /\ gross * F = F * gross
    BY <1>1, ProductLemma
  <1> HIDE DEF x
  <1>3. q \in Nat /\ F * q <= x
    BY <1>1, <1>2, DivLemma
  <1> HIDE DEF q
  <1>4. F * q <= F * gross /\ F * q \in Nat /\ F * gross \in Nat
    BY <1>1, <1>2, <1>3, ProductLemma
  <1>5. q <= gross
    BY <1>1, <1>3, <1>4, ProductLemma
  <1> QED BY <1>3, <1>5 DEF Commission, Scaled, q, x, F, R

\* The square root that integer_sqrt answers is there, and of nothing only is
\* it nothing.
LEMMA RootLemma ==
    ASSUME NEW n \in Nat
    PROVE  integer_sqrt(n) \in Nat /\ (n = 0 => integer_sqrt(n) = 0)
  <1> DEFINE T == {r \in Nat : n < (r + 1) * (r + 1)}
  <1>1. n \in T
    <2>1. n + 1 \in Nat /\ (n + 1) * (n + 1) = (n + 1) * n + (n + 1) * 1
      BY ProductLemma
    <2>2. (n + 1) * n \in Nat /\ (n + 1) * 1 = n + 1
      BY ProductLemma
    <2> QED BY <2>1, <2>2
  <1>2. PICK r \in T : \A y \in T : r <= y
    <2>1. T \subseteq Nat /\ T # {}
      BY <1>1
    <2> HIDE DEF T
    <2> QED BY <2>1, SmallestLemma
  <1>3. r \in 0..n
    BY <1>1, <1>2
  <1>4. r * r <= n
    <2>1. CASE r = 0
      BY <2>1
    <2>2. CASE r > 0
      <3>1. r - 1 \in Nat /\ r - 1 \notin T
        BY <1>2, <2>2
      <3>2. (r - 1) + 1 = r
        BY <1>2
      <3>3. ~ (n < r * r)
        BY <3>1, <3>2
      <3>4. r * r \in Nat
        BY <1>3, ProductLemma
      <3> QED BY <3>3, <3>4
    <2> QED BY <1>2, <2>1, <2>2
  <1>5. \E t \in 0..n : t * t <= n /\ n < (t + 1) * (t + 1)
    BY <1>2, <1>3, <1>4
  <1>6. integer_sqrt(n) \in 0..n
    BY <1>5, Zenon DEF integer_sqrt
  <1> QED BY <1>6

\* An offer that leaves the pool, without what is asked for, a larger product
\* than before returns at least that.
LEMMA EnoughLemma ==
    ASSUME NEW o \in Nat, NEW a \in Nat, NEW n \in Nat, NEW g \in Nat,
           o > 0, g <= a, o * a < (o + n) * (a - g)
    PROVE  g <= GrossReturn(o, a, n)
  <1> DEFINE F == DECIMAL_FRACTION
             s == o + n
             d == a - g
             x == (o * a) * F
             q == x \div s
             kept == a * F - q
             gross == kept \div F
  <1>1. F \in Nat /\ F > 0 /\ s \in Nat /\ s > 0 /\ d \in Nat /\ a = d + g
    BY AssetAssumption
  <1>2. o * a < s * d
    OBVIOUS
  <1> HIDE DEF F, s, d
  <1>3. o * a \in Nat /\ s * d \in Nat /\ x \in Nat /\ F * d \in Nat /\ F * g \in Nat
    BY <1>1, ProductLemma
  <1>4. a * F = F * d + F * g
    BY <1>1, ProductLemma
  <1>5. x < s * (F * d)
    <2>1. F * (o * a) < F * (s * d) /\ F * (o * a) = x
      BY <1>1, <1>2, <1>3, ProductLemma
    <2>2. F * (s * d) = s * (F * d)
      BY <1>1, ThreeLemma
    <2> QED BY <2>1, <2>2
  <1> HIDE DEF x
  <1>6. q \in Nat /\ s * q <= x
    BY <1>1, <1>3, DivLemma
  <1> HIDE DEF q
  <1>7. q < F * d
    <2>1. s * q \in Nat /\ s * (F * d) \in Nat
      BY <1>1, <1>3, <1>6, ProductLemma
    <2>2. s * q < s * (F * d)
      BY <1>3, <1>5, <1>6, <2>1
    <2> QED BY <1>1, <1>3, <1>6, <2>2, ProductLemma
  <1>8. kept \in Nat /\ F * g < kept
    BY <1>3, <1>4, <1>6, <1>7
  <1> HIDE DEF kept
  <1>9. gross \in Nat /\ kept < F * gross + F
    BY <1>1, <1>8, DivLemma
  <1>10. GrossReturn(o, a, n) = gross
    BY <1>8 DEF GrossReturn, Scaled, FromRatio, F, s, x, q, kept
  <1> HIDE DEF gross
  <1>11. F * g < F * (gross + 1)
    <2>1. F * (gross + 1) = F * gross + F * 1 /\ F * 1 = F /\ F * gross \in Nat
      BY <1>1, <1>9, ProductLemma
    <2> QED BY <1>1, <1>3, <1>8, <1>9, <2>1
  <1>12. g < gross + 1
    BY <1>1, <1>9, <1>11, ProductLemma
  <1> QED BY <1>9, <1>10, <1>12

\* Nothing is returned beyond what the offer is worth at the pool's price, so
\* the spread is never negative.
LEMMA SpreadLemma ==
    ASSUME NEW o \in Nat, NEW a \in Nat, NEW n \in Nat, o > 0, o <= DECIMAL_FRACTION
    PROVE  /\ Scaled(n, FromRatio(a, o)) \in Nat
           /\ GrossReturn(o, a, n) <= Scaled(n, FromRatio(a, o))
  <1> DEFINE F == DECIMAL_FRACTION
             s == o + n
             A == a * F
             x == (o * a) * F
             t == x \div s
             kept == A - t
             gross == kept \div F
             B == F * gross
             q == A \div o
             w == n * q
             worth == w \div F
  <1>1. F \in Nat /\ F > 0 /\ s \in Nat /\ s > 0 /\ o <= F
    BY AssetAssumption
  <1>2. gross = GrossReturn(o, a, n) \/ ~(kept \in Int)
    BY DEF GrossReturn, Scaled, FromRatio
  <1>3. A \in Nat /\ x \in Nat /\ x = o * A
    BY <1>1, ProductLemma, ThreeLemma
  <1>4. s * A = o * A + n * A /\ o * A \in Nat /\ n * A \in Nat /\ s * A \in Nat
    BY <1>3, SMT
  <1>5. worth = Scaled(n, FromRatio(a, o))
    BY DEF Scaled, FromRatio
  <1>6. \A y \in Nat : s * y = o * y + n * y
    BY SMT
  <1> HIDE DEF F, s, A, x
  <1>7. t \in Nat /\ s * t <= x /\ x < s * t + s
    BY <1>1, <1>3, DivLemma
  <1> HIDE DEF t
  <1>8. t <= A
    <2>1. s * t <= s * A /\ s * t \in Nat
      BY <1>1, <1>3, <1>4, <1>7, ProductLemma
    <2> QED BY <1>1, <1>3, <1>7, <2>1, ProductLemma
  <1>9. kept \in Nat /\ A = kept + t
    BY <1>3, <1>7, <1>8
  <1> HIDE DEF kept
  <1>10. gross \in Nat /\ B \in Nat /\ B <= kept
    BY <1>1, <1>9, DivLemma, ProductLemma
  <1>11. q \in Nat /\ A < o * q + o /\ o * q \in Nat /\ w \in Nat
    BY <1>3, DivLemma, ProductLemma
  <1> HIDE DEF q
  <1>12. worth \in Nat /\ w < F * worth + F
    BY <1>1, <1>11, DivLemma
  <1> HIDE DEF worth
  <1>13. gross > 0 => B >= F
    <2>1. gross > 0 => F * 1 <= F * gross
      BY <1>1, <1>10, ProductLemma
    <2> QED BY <1>1, <2>1
  <1>14. o * B + n * B < n * A + s
    <2>1. s * B <= s * kept /\ s * A = s * kept + s * t
      BY <1>1, <1>7, <1>9, <1>10, ProductLemma
    <2>2. s * B = o * B + n * B
      BY <1>6, <1>10
    <2>3. s * B \in Nat /\ s * kept \in Nat /\ s * t \in Nat
      BY <1>1, <1>7, <1>9, <1>10, ProductLemma
    <2> QED BY <1>1, <1>3, <1>4, <1>7, <2>1, <2>2, <2>3
  <1>15. n * A + n <= o * w + n * o
    <2>1. n * (A + 1) <= n * (o * q + o)
      <3>1. A + 1 <= o * q + o /\ A + 1 \in Nat /\ o * q + o \in Nat
        BY <1>3, <1>11
      <3> QED BY <3>1, ProductLemma
    <2>2. n * (A + 1) = n * A + n * 1 /\ n * 1 = n
      BY <1>3, ProductLemma
    <2>3. n * (o * q + o) = n * (o * q) + n * o /\ n * (o * q) = o * w
      BY <1>11, ProductLemma, ThreeLemma
    <2> QED BY <2>1, <2>2, <2>3
  <1> HIDE DEF B, w
  <1>16. B <= w
    <2> SUFFICES ASSUME w < B PROVE FALSE
      BY <1>10, <1>11 DEF B, w
    <2>1. w \in Nat /\ B \in Nat
      BY <1>10, <1>11
    <2>2. B > 0
      BY <2>1
    <2>3. gross # 0
      BY <1>1, <2>1, <2>2, ProductLemma DEF B
    <2>4. B >= F /\ n * o <= n * B
      <3>1. B >= F
        BY <1>10, <1>13, <2>3
      <3> QED BY <1>1, <2>1, <3>1, ProductLemma
    <2>5. o * (w + 1) <= o * B /\ o * (w + 1) = o * w + o * 1 /\ o * 1 = o
      <3>1. w + 1 \in Nat /\ w + 1 <= B
        BY <2>1
      <3> QED BY <2>1, <3>1, ProductLemma
    <2>6. o * w \in Nat /\ o * B \in Nat /\ n * B \in Nat /\ n * o \in Nat
      BY <2>1, ProductLemma
    <2> QED BY <1>4, <1>14, <1>15, <2>4, <2>5, <2>6 DEF s
  <1>17. gross <= worth
    <2>1. F * (worth + 1) = F * worth + F * 1 /\ F * 1 = F /\ F * worth \in Nat
      BY <1>1, <1>12, ProductLemma
    <2>2. F * gross < F * (worth + 1)
      BY <1>1, <1>10, <1>11, <1>12, <1>16, <2>1 DEF B
    <2>3. gross < worth + 1
      BY <1>1, <1>10, <1>12, <2>2, ProductLemma
    <2> QED BY <1>10, <1>12, <2>3
  <1> QED BY <1>2, <1>5, <1>9, <1>12, <1>17

\* Of a larger amount, more is left after the commission.
LEMMA LeftLemma ==
    ASSUME NEW g \in Nat, NEW gross \in Nat, g <= gross
    PROVE  g - Commission(g) <= gross - Commission(gross)
  <1> DEFINE F == DECIMAL_FRACTION
             R == COMMISSION_RATE
             x == g * R
             y == gross * R
             p == x \div F
             q == y \div F
             d == gross - g
  <1>1. F \in Nat /\ F > 0 /\ R \in Nat /\ R <= F /\ d \in Nat /\ gross = g + d
    BY AssetAssumption, ProductAssumption
  <1>2. p = Commission(g) /\ q = Commission(gross)
    BY DEF Commission, Scaled
  <1> HIDE DEF F, R, d
  <1>3. x \in Nat /\ y \in Nat /\ F * d \in Nat /\ y <= x + F * d
    <2>1. y = x + R * d
      BY <1>1, ProductLemma
    <2>2. d * R <= d * F /\ d * R = R * d /\ d * F = F * d
      BY <1>1, ProductLemma
    <2> QED BY <1>1, <2>1, <2>2, ProductLemma
  <1> HIDE DEF x, y
  <1>4. /\ p \in Nat /\ x < F * p + F
        /\ q \in Nat /\ F * q <= y
    BY <1>1, <1>3, DivLemma
  <1> HIDE DEF p, q
  <1>5. F * (p + d + 1) = F * p + F * d + F /\ F * p \in Nat /\ F * q \in Nat
    <2>1. F * (p + d + 1) = F * (p + d) + F * 1 /\ F * (p + d) = F * p + F * d
          /\ F * 1 = F
      BY <1>1, <1>4, ProductLemma
    <2> QED BY <1>1, <1>4, <2>1, ProductLemma
  <1>6. F * q < F * (p + d + 1)
    BY <1>1, <1>3, <1>4, <1>5
  <1>7. q < p + d + 1
    BY <1>1, <1>4, <1>6, ProductLemma
  <1> QED BY <1>1, <1>2, <1>4, <1>7

\* What compute_offer_amount takes to be returned for an amount leaves that
\* amount after the commission, while it is no more than the Decimal's digits
\* of the rate: beyond, the quotient of two Decimals is too coarse.
LEMMA NetLemma ==
    ASSUME NEW ask \in Nat, ask <= COMMISSION_RATE
    PROVE  /\ BeforeCommission(ask) \in Nat
           /\ ask <= BeforeCommission(ask) - Commission(BeforeCommission(ask))
  <1> DEFINE F == DECIMAL_FRACTION
             R == COMMISSION_RATE
             d == F - R
             w == (F * F) \div d
             x == ask * w
             g == x \div F
             y == g * R
             c == y \div F
  <1>1. /\ F \in Nat /\ F > 0 /\ R \in Nat /\ R <= F /\ d \in Nat /\ d > 0 /\ d <= F
        /\ F = d + R /\ ask <= R
    BY AssetAssumption, ProductAssumption
  <1>2. g = BeforeCommission(ask) /\ c = Commission(g)
    BY DEF BeforeCommission, Commission, Scaled
  <1> HIDE DEF F, R, d
  <1>3. F * F \in Nat
    BY <1>1, ProductLemma
  <1>4. w \in Nat /\ F * F < d * w + d
    BY <1>1, <1>3, DivLemma
  <1> HIDE DEF w
  <1>5. x \in Nat
    BY <1>4, ProductLemma
  <1>6. g \in Nat /\ x < F * g + F
    BY <1>1, <1>5, DivLemma
  <1> HIDE DEF g
  <1>7. y \in Nat
    BY <1>1, <1>6, ProductLemma
  <1>8. c \in Nat /\ F * c <= y
    BY <1>1, <1>7, DivLemma
  <1> HIDE DEF c
  <1> DEFINE gd == g * d
  <1>9. gd \in Nat /\ F * gd \in Nat /\ ask * F \in Nat /\ F * (ask * F) \in Nat
    BY <1>1, <1>6, ProductLemma
  \* All that is lost is less than a unit.
  <1>10. F * (ask * F) < F * (gd + F)
    <2>1. ask * (F * F + 1) <= ask * (d * w + d)
      <3>1. F * F + 1 \in Nat /\ d * w + d \in Nat /\ F * F + 1 <= d * w + d
        BY <1>1, <1>3, <1>4, ProductLemma
      <3> QED BY <3>1, ProductLemma
    <2>2. ask * (F * F + 1) = F * (ask * F) + ask
      BY <1>1, SMT
    <2>3. ask * (d * w + d) = d * x + ask * d
      BY <1>1, <1>4, SMT
    <2>4. d * (x + 1) <= d * (F * g + F) /\ d * (x + 1) = d * x + d
      <3>1. x + 1 \in Nat /\ F * g + F \in Nat /\ x + 1 <= F * g + F
        BY <1>1, <1>5, <1>6, ProductLemma
      <3>2. d * (x + 1) = d * x + d * 1 /\ d * 1 = d
        BY <1>1, <1>5, ProductLemma
      <3> QED BY <1>1, <3>1, <3>2, ProductLemma
    <2>5. d * (F * g + F) = F * gd + d * F
      BY <1>1, <1>6, SMT
    <2>6. F * (gd + F) = F * gd + d * F + R * F
      <3>1. F * (gd + F) = F * gd + F * F
        BY <1>1, <1>9, ProductLemma
      <3>2. F * F = F * d + F * R /\ F * d = d * F /\ F * R = R * F
        BY <1>1, ProductLemma
      <3> QED BY <1>1, <1>9, <3>1, <3>2, ProductLemma
    <2>7. ask * d <= R * F /\ ask * d \in Nat /\ R * F \in Nat
      <3>1. ask * d <= ask * F /\ F * ask <= F * R /\ ask * F = F * ask /\ F * R = R * F
        BY <1>1, ProductLemma
      <3> QED BY <1>1, <3>1, ProductLemma
    <2>8. d * x \in Nat /\ d * F \in Nat
      BY <1>1, <1>5, ProductLemma
    <2> HIDE DEF x, gd
    <2> QED BY <1>1, <1>9, <2>1, <2>2, <2>3, <2>4, <2>5, <2>6, <2>7, <2>8
  <1>11. ask * F < gd + F
    BY <1>1, <1>9, <1>10, ProductLemma
  <1>12. g * F = gd + y
    BY <1>1, <1>6, ProductLemma
  <1>13. ask + c < g + 1
    <2>1. F * (ask + c) = F * ask + F * c /\ F * ask = ask * F /\ F * c \in Nat
      BY <1>1, <1>8, ProductLemma
    <2>2. F * (g + 1) = F * g + F * 1 /\ F * 1 = F /\ F * g = g * F
      BY <1>1, <1>6, ProductLemma
    <2> HIDE DEF y, gd
    <2>3. F * (ask + c) < F * (g + 1)
      BY <1>1, <1>7, <1>8, <1>9, <1>11, <1>12, <2>1, <2>2
    <2> QED BY <1>1, <1>6, <1>8, <2>3, ProductLemma
  <1> QED BY <1>2, <1>6, <1>8, <1>13

\* One unit more than what compute_offer_amount asks for is enough: a swap of it
\* does not panic, and returns what was wanted.
LEMMA QuoteLemma ==
    ASSUME NEW o \in Nat, NEW a \in Nat, NEW ask \in Nat, ask <= COMMISSION_RATE,
           o <= DECIMAL_FRACTION, o * a * DECIMAL_FRACTION <= U256Max,
           a * a <= U128Max, a * a * DECIMAL_FRACTION <= U256Max,
           compute_offer_amount(o, a, ask) # NoOffer
    PROVE  LET n == compute_offer_amount(o, a, ask).offer_amount + 1
           IN  CanSwap(o, a, n) /\ compute_swap(o, a, n).return_amount >= ask
  <1> DEFINE F == DECIMAL_FRACTION
             g == BeforeCommission(ask)
             d == a - g
             q == (o * a) \div d
             offer == OfferFor(o, a, g)
             n == offer + 1
             gross == GrossReturn(o, a, n)
             price == FromRatio(a, o)
             worth == Scaled(n, price)
  <1>1. /\ o > 0 /\ a > g /\ offer \in U128
        /\ compute_offer_amount(o, a, ask).offer_amount = offer
    BY DEF compute_offer_amount
  <1>2. F \in Nat /\ F > 0 /\ o <= F /\ o * a \in Nat
    BY AssetAssumption, ProductLemma
  <1>3. g \in Nat /\ ask <= g - Commission(g)
    BY NetLemma
  <1>4. offer \in Nat /\ n \in Nat /\ n > 0 /\ offer = q - o
    <2>1. offer \in Nat
      BY <1>1, WidthLemma
    <2> QED BY <2>1 DEF OfferFor
  <1>5. worth \in Nat /\ gross <= worth
    BY <1>1, <1>4, SpreadLemma
  <1> HIDE DEF g, offer, gross, worth
  <1>6. d \in Nat /\ d > 0 /\ a = d + g
    BY <1>1, <1>3
  <1> HIDE DEF d
  <1>7. q \in Nat /\ d * q <= o * a /\ o * a < d * q + d
    BY <1>2, <1>6, DivLemma
  <1> HIDE DEF q
  <1>8. o + n = q + 1
    BY <1>4, <1>7
  <1>9. g <= gross
    <2>1. o * a < (o + n) * d
      <3>1. d * (q + 1) = d * q + d * 1 /\ d * 1 = d /\ d * (q + 1) = (q + 1) * d
        BY <1>6, <1>7, ProductLemma
      <3> QED BY <1>7, <1>8, <3>1
    <2>2. g <= a /\ d = a - g
      BY <1>3, <1>6
    <2> QED BY <1>1, <1>3, <1>4, <2>1, <2>2, EnoughLemma DEF gross
  <1>10. gross \in Nat
    BY <1>1, <1>4, GrossLemma DEF gross
  <1>11. gross - Commission(gross) >= ask
    <2>1. /\ g - Commission(g) <= gross - Commission(gross)
          /\ Commission(g) \in Nat /\ Commission(gross) \in Nat
      BY <1>3, <1>9, <1>10, LeftLemma, CommissionLemma
    <2> QED BY <1>3, <1>10, <2>1
  \* Nothing overflows: the offer is at most o * g.
  <1>12. offer <= o * g /\ o * g \in Nat
    <2>1. d * q = d * offer + d * o /\ o * a = d * o + o * g /\ d * offer \in Nat
          /\ d * o \in Nat /\ o * g \in Nat
      <3>1. q = offer + o /\ d * q = d * offer + d * o
        BY <1>4, <1>6, <1>7, ProductLemma
      <3>2. o * a = o * d + o * g /\ o * d = d * o
        BY <1>3, <1>6, ProductLemma
      <3> QED BY <1>3, <1>4, <1>6, <3>1, <3>2, ProductLemma
    <2>2. d * offer <= o * g
      BY <1>2, <1>4, <1>6, <1>7, <2>1
    <2>3. offer * 1 <= offer * d /\ offer * d = d * offer
      BY <1>4, <1>6, ProductLemma
    <2> QED BY <1>4, <2>1, <2>2, <2>3
  <1> DEFINE A == a * F
             C == n * price
  <1>13. A \in Nat /\ price \in Nat /\ o * price <= A
    <2>1. A \in Nat
      BY <1>2, ProductLemma
    <2> QED BY <1>1, <2>1, DivLemma DEF FromRatio
  <1> HIDE DEF price
  <1>14. C \in Nat /\ C <= a * A /\ a * A = a * a * F
    <2>1. C <= (o * g + 1) * price
      <3>1. n <= o * g + 1 /\ o * g + 1 \in Nat
        BY <1>4, <1>12
      <3>2. price * n <= price * (o * g + 1) /\ price * n = n * price
            /\ price * (o * g + 1) = (o * g + 1) * price
        BY <1>4, <1>13, <3>1, ProductLemma
      <3> QED BY <3>2
    <2>2. (o * g + 1) * price = g * (o * price) + price
      BY <1>3, <1>13, SMT
    <2>3. g * (o * price) <= g * A /\ o * price \in Nat
      BY <1>3, <1>13, ProductLemma
    <2>4. price <= A
      <3>1. price * 1 <= price * o /\ price * o = o * price
        BY <1>1, <1>13, ProductLemma
      <3> QED BY <1>13, <2>3, <3>1
    <2>5. A * (g + 1) <= A * a /\ A * (g + 1) = A * g + A * 1 /\ A * 1 = A
          /\ A * g = g * A /\ A * a = a * A
      <3>1. g + 1 <= a /\ g + 1 \in Nat
        BY <1>1, <1>3
      <3> QED BY <1>3, <1>13, <3>1, ProductLemma
    <2>6. C \in Nat /\ a * A \in Nat /\ g * A \in Nat /\ g * (o * price) \in Nat
      BY <1>3, <1>4, <1>13, <2>3, ProductLemma
    <2>7. a * A = a * a * F
      BY <1>2, SMT
    <2> QED BY <1>13, <2>1, <2>2, <2>3, <2>4, <2>5, <2>6, <2>7
  <1>15. worth <= a * a
    <2>1. worth = C \div F
      BY DEF Scaled, worth
    <2> HIDE DEF C
    <2>2. F * worth <= C
      BY <1>2, <1>14, <2>1, DivLemma
    <2>3. a * a \in Nat /\ F * (a * a) = a * a * F
      BY <1>2, ProductLemma
    <2>4. F * worth <= F * (a * a)
      <3>1. F * worth \in Nat /\ F * (a * a) \in Nat
        BY <1>2, <1>5, <2>3, ProductLemma
      <3> QED BY <1>14, <2>2, <2>3, <3>1
    <2> QED BY <1>2, <1>5, <2>3, <2>4, ProductLemma
  <1>16. Spread(o, a, n) \in U128
    <2>1. Spread(o, a, n) = worth - gross
      BY DEF Spread, worth, gross, price
    <2>2. a * a \in Nat /\ U128Max \in Nat
      BY ProductLemma, WidthAssumption
    <2> QED BY <1>5, <1>10, <1>15, <2>1, <2>2 DEF U128
  <1>17. CanSwap(o, a, n)
    <2>1. C <= U256Max
      <3>1. U256Max \in Nat /\ a * a * F \in Nat
        <4>1. a * a \in Nat
          BY ProductLemma
        <4> QED BY <1>2, <4>1, ProductLemma, ProductAssumption
      <3>2. a * a * F <= U256Max
        OBVIOUS
      <3> HIDE DEF C, A, F
      <3> QED BY <1>14, <3>1, <3>2
    <2> QED BY <1>1, <1>16, <2>1, Zenon DEF CanSwap, price
  <1>18. compute_swap(o, a, n).return_amount = gross - Commission(gross)
    BY DEF compute_swap, gross
  <1> QED BY <1>1, <1>11, <1>17, <1>18

=============================================================================
