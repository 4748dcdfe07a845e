---------------------------- MODULE Curve_proofs ----------------------------
(***************************************************************************)
(* What the handlers of the stable pair rely on in Curve, for every pool,  *)
(* every amplification and every width of the integers: results are in     *)
(* range, what is paid out is less than what is there, and nothing is      *)
(* minted on a pool that has an empty reserve.                             *)
(***************************************************************************)
EXTENDS CurveRoot, Arith_proofs, SequenceTheorems

LOCAL INSTANCE SequencesExt

(***************************************************************************)
(* Checked arithmetic.                                                     *)
(***************************************************************************)
\* A checked product or quotient is a natural number or None.
LEMMA MulDivLemma ==
    ASSUME NEW a \in OptNat, NEW b \in OptNat
    PROVE  /\ Mul(a, b) \in OptNat
           /\ Div(a, b) \in OptNat
           /\ Mul64(a, b) \in OptNat
  <1>1. Mul(a, b) \in OptNat
    BY DEF Mul, Option, OptNat, None
  <1>2. Div(a, b) \in OptNat
    <2>1. CASE a = None \/ b = None \/ b = 0
      BY <2>1 DEF Div, Option, OptNat
    <2>2. CASE ~(a = None \/ b = None \/ b = 0)
      <3>1. a \in Nat /\ b \in Nat /\ b > 0
        BY <2>2 DEF Option, OptNat
      <3>2. a \div b \in Nat
        BY <3>1, DivLemma
      <3> QED BY <2>2, <3>2 DEF Div, Option, OptNat
    <2> QED BY <2>1, <2>2
  <1>3. Mul64(a, b) \in OptNat
    BY WidthLemma DEF Mul64, Option, OptNat
  <1> QED BY <1>1, <1>2, <1>3

(***************************************************************************)
(* The recursive functions.                                                *)
(***************************************************************************)
\* Powers of a natural number.
LEMMA PowerLemma ==
    ASSUME NEW x \in Nat
    PROVE  /\ Power(x, 0) = 1
           /\ \A n \in Nat : Power(x, n + 1) = x * Power(x, n)
           /\ \A n \in Nat : Power(x, n) \in Nat
  <1> DEFINE F == [k \in Nat |-> [v \in Nat |-> x * v]]
             Eqn(f) == f = [k \in Nat |-> IF k = 0 THEN 1 ELSE x * f[k - 1]]
             pow == CHOOSE f : Eqn(f)
  <1>1. F \in [Nat -> [Nat -> Nat]] /\ 1 \in Nat
    OBVIOUS
  <1>2. \A k, v \in Nat : F[k][v] = x * v
    OBVIOUS
  <1> HIDE DEF F
  <1>3. PICK f \in [Nat -> Nat] : Unfolds(f, 1, F, Nat \ {0})
    BY <1>1, RecursionLemma
  <1>4. Eqn(f)
    <2>1. ASSUME NEW k \in Nat PROVE f[k] = IF k = 0 THEN 1 ELSE x * f[k - 1]
      <3>1. CASE k = 0
        BY <1>3, <3>1 DEF Unfolds
      <3>2. CASE k # 0
        <4>1. k \in Nat \ {0} /\ k - 1 \in Nat /\ f[k - 1] \in Nat
          BY <3>2
        <4>2. f[k] = F[k][f[k - 1]]
          BY <1>3, <4>1 DEF Unfolds
        <4> QED BY <1>2, <3>2, <4>1, <4>2
      <3> QED BY <3>1, <3>2
    <2> QED BY <2>1
  <1>5. Eqn(pow)
    BY <1>4
  <1>6. \A n : Power(x, n) = pow[n]
    BY DEF Power
  <1> HIDE DEF pow
  <1>7. pow[0] = 1 /\ \A n \in Nat : pow[n + 1] = x * pow[n]
    <2>1. \A n \in Nat : n + 1 \in Nat /\ n + 1 # 0 /\ (n + 1) - 1 = n
      OBVIOUS
    <2>2. \A k \in Nat : pow[k] = IF k = 0 THEN 1 ELSE x * pow[k - 1]
      BY <1>5
    <2> QED BY <2>1, <2>2
  <1>8. \A n \in Nat : pow[n] \in Nat
    <2> DEFINE T == {n \in Nat : pow[n] \in Nat}
    <2>1. 0 \in T
      BY <1>7
    <2>2. ASSUME NEW n \in Nat, n \in T PROVE n + 1 \in T
      BY <1>7, <2>2
    <2> QED BY <2>1, <2>2, InductionLemma
  <1> QED BY <1>6, <1>7, <1>8

\* A sequence of n balances.
Pool(b, n) == n \in Nat /\ Len(b) = n /\ \A k \in 1..n : b[k] \in Nat

\* f holds the sums of the first balances, or their products.
Sums(f, b, n) == f[0] = 0 /\ \A k \in 1..n : f[k] = f[k - 1] + b[k]
Prods(f, b, n) == f[0] = 1 /\ \A k \in 1..n : f[k] = f[k - 1] * (b[k] * n)

\* Total is a sum.
LEMMA TotalLemma ==
    ASSUME NEW b, NEW n, Pool(b, n)
    PROVE  \E f \in [0..n -> Nat] : Sums(f, b, n) /\ Total(b) = f[n]
  <1> DEFINE F == [k \in 1..n |-> [v \in Nat |-> v + b[k]]]
             Eqn(f) == f = [k \in 0..n |-> IF k = 0 THEN 0 ELSE f[k - 1] + b[k]]
             sum == CHOOSE f : Eqn(f)
  <1>1. n \in Nat /\ Len(b) = n /\ \A k \in 1..n : b[k] \in Nat
    BY DEF Pool
  <1>2. F \in [1..n -> [Nat -> Nat]] /\ 0 \in Nat
    BY <1>1
  <1>3. \A k \in 1..n : \A v \in Nat : F[k][v] = v + b[k]
    OBVIOUS
  <1> HIDE DEF F
  <1>4. PICK f \in [0..n -> Nat] : Unfolds(f, 0, F, 1..n)
    BY <1>1, <1>2, UnfoldLemma
  <1>5. Sums(f, b, n)
    <2>1. \A k \in 1..n : k - 1 \in 0..n
      BY <1>1
    <2> QED BY <1>3, <1>4, <2>1 DEF Unfolds, Sums
  <1>6. Eqn(f)
    BY <1>1, <1>5 DEF Sums
  <1>7. Eqn(sum)
    BY <1>6
  <1>8. Total(b) = sum[n]
    BY <1>1 DEF Total
  <1> HIDE DEF sum
  <1>9. Sums(sum, b, n)
    BY <1>1, <1>7 DEF Sums
  <1>10. \A k \in 0..n : sum[k] \in Nat
    <2> DEFINE T == {k \in Nat : k <= n => sum[k] \in Nat}
    <2>1. 0 \in T
      BY <1>9 DEF Sums
    <2>2. ASSUME NEW k \in Nat, k \in T PROVE k + 1 \in T
      <3>1. SUFFICES ASSUME k + 1 <= n PROVE sum[k + 1] \in Nat
        OBVIOUS
      <3>2. k + 1 \in 1..n /\ (k + 1) - 1 = k /\ k <= n
        BY <1>1, <3>1
      <3>3. sum[k + 1] = sum[k] + b[k + 1]
        BY <1>9, <3>2 DEF Sums
      <3> QED BY <1>1, <2>2, <3>2, <3>3
    <2>3. Nat \subseteq T
      BY <2>1, <2>2, InductionLemma
    <2> QED BY <1>1, <2>3
  <1>11. sum = [k \in 0..n |-> sum[k]]
    BY <1>7
  <1>12. sum \in [0..n -> Nat]
    BY <1>10, <1>11
  <1> QED BY <1>8, <1>9, <1>12

\* Scale is a product.
LEMMA ScaleLemma ==
    ASSUME NEW b, NEW n, Pool(b, n)
    PROVE  \E f \in [0..n -> Nat] : Prods(f, b, n) /\ Scale(b) = f[n]
  <1> DEFINE F == [k \in 1..n |-> [v \in Nat |-> v * (b[k] * n)]]
             Eqn(f) == f = [k \in 0..n |-> IF k = 0 THEN 1 ELSE f[k - 1] * (b[k] * n)]
             prod == CHOOSE f : Eqn(f)
  <1>1. n \in Nat /\ Len(b) = n /\ \A k \in 1..n : b[k] \in Nat
    BY DEF Pool
  <1>2. F \in [1..n -> [Nat -> Nat]] /\ 1 \in Nat
    <2>1. \A k \in 1..n : \A v \in Nat : v * (b[k] * n) \in Nat
      BY <1>1, ProductLemma
    <2> QED BY <2>1
  <1>3. \A k \in 1..n : \A v \in Nat : F[k][v] = v * (b[k] * n)
    OBVIOUS
  <1> HIDE DEF F
  <1>4. PICK f \in [0..n -> Nat] : Unfolds(f, 1, F, 1..n)
    BY <1>1, <1>2, UnfoldLemma
  <1>5. Prods(f, b, n)
    <2>1. \A k \in 1..n : k - 1 \in 0..n
      BY <1>1
    <2> QED BY <1>3, <1>4, <2>1 DEF Unfolds, Prods
  <1>6. Eqn(f)
    BY <1>1, <1>5 DEF Prods
  <1>7. Eqn(prod)
    BY <1>6
  <1>8. Scale(b) = prod[n]
    BY <1>1 DEF Scale
  <1> HIDE DEF prod
  <1>9. \A k \in 0..n : prod[k] = f[k]
    <2> DEFINE T == {k \in Nat : k <= n => prod[k] = f[k]}
    <2>1. 0 \in T
      BY <1>1, <1>5, <1>7 DEF Prods
    <2>2. ASSUME NEW k \in Nat, k \in T PROVE k + 1 \in T
      <3>1. SUFFICES ASSUME k + 1 <= n PROVE prod[k + 1] = f[k + 1]
        OBVIOUS
      <3>2. k + 1 \in 1..n /\ k + 1 \in 0..n /\ (k + 1) - 1 = k /\ k <= n /\ k + 1 # 0
        BY <1>1, <3>1
      <3>3. prod[k + 1] = prod[k] * (b[k + 1] * n) /\ f[k + 1] = f[k] * (b[k + 1] * n)
        BY <1>5, <1>7, <3>2 DEF Prods
      <3> QED BY <2>2, <3>2, <3>3
    <2>3. Nat \subseteq T
      BY <2>1, <2>2, InductionLemma
    <2> QED BY <1>1, <2>3
  <1>10. n \in 0..n
    BY <1>1
  <1> QED BY <1>4, <1>5, <1>8, <1>9, <1>10

\* The checked sum of balances, when there is one, is their sum, and there is
\* one when that is a u128.
LEMMA SumOfLemma ==
    ASSUME NEW b, NEW n, Pool(b, n)
    PROVE  /\ SumOf(b) \in OptNat
           /\ SumOf(b) # None => SumOf(b) = Total(b)
           /\ Total(b) <= U128Max => SumOf(b) = Total(b)
  <1> DEFINE F == [k \in 1..n |-> [v \in OptNat |-> Add(v, b[k])]]
             Eqn(f) == f = [k \in 0..n |-> IF k = 0 THEN 0 ELSE Add(f[k - 1], b[k])]
             sum == CHOOSE f : Eqn(f)
  <1>1. n \in Nat /\ Len(b) = n /\ \A k \in 1..n : b[k] \in Nat
    BY DEF Pool
  <1>2. \A k \in 1..n : \A v \in OptNat : Add(v, b[k]) \in OptNat
    <2>1. \A k \in 1..n : b[k] \in OptNat
      BY <1>1 DEF OptNat, Option
    <2> QED BY <2>1, AddSubLemma, WidthLemma DEF Option, OptNat
  <1>3. F \in [1..n -> [OptNat -> OptNat]] /\ 0 \in OptNat
    BY <1>2 DEF OptNat, Option
  <1>4. \A k \in 1..n : \A v \in OptNat : F[k][v] = Add(v, b[k])
    OBVIOUS
  <1> HIDE DEF F
  <1>5. PICK f \in [0..n -> OptNat] : Unfolds(f, 0, F, 1..n)
    BY <1>1, <1>3, UnfoldLemma
  <1>6. f[0] = 0 /\ \A k \in 1..n : f[k] = Add(f[k - 1], b[k])
    <2>1. \A k \in 1..n : k - 1 \in 0..n
      BY <1>1
    <2> QED BY <1>4, <1>5, <2>1 DEF Unfolds
  <1>7. Eqn(f)
    BY <1>1, <1>6
  <1>8. Eqn(sum)
    BY <1>7
  <1>9. SumOf(b) = sum[n]
    BY <1>1 DEF SumOf
  <1> HIDE DEF sum
  <1>10. PICK g \in [0..n -> Nat] : Sums(g, b, n) /\ Total(b) = g[n]
    BY TotalLemma
  <1>11. \A k \in 0..n : sum[k] \in OptNat /\ (sum[k] # None => sum[k] = g[k])
    <2> DEFINE T == {k \in Nat : k <= n => sum[k] \in OptNat /\ (sum[k] # None => sum[k] = g[k])}
    <2>1. 0 \in T
      BY <1>1, <1>8, <1>10 DEF Sums, OptNat, Option
    <2>2. ASSUME NEW k \in Nat, k \in T PROVE k + 1 \in T
      <3>1. SUFFICES ASSUME k + 1 <= n
                     PROVE  sum[k + 1] \in OptNat /\ (sum[k + 1] # None => sum[k + 1] = g[k + 1])
        OBVIOUS
      <3>2. k + 1 \in 1..n /\ k + 1 \in 0..n /\ (k + 1) - 1 = k /\ k <= n /\ k + 1 # 0
        BY <1>1, <3>1
      <3>3. sum[k + 1] = Add(sum[k], b[k + 1]) /\ g[k + 1] = g[k] + b[k + 1]
        BY <1>8, <1>10, <3>2 DEF Sums
      <3>4. sum[k] \in OptNat /\ b[k + 1] \in OptNat /\ (sum[k] # None => sum[k] = g[k])
        BY <1>1, <2>2, <3>2 DEF OptNat, Option
      <3>5. sum[k + 1] # None => sum[k] \in Nat /\ sum[k + 1] = sum[k] + b[k + 1]
        BY <3>3, <3>4, AddSubLemma
      <3>6. sum[k + 1] \in OptNat
        BY <1>2, <3>2, <3>3, <3>4
      <3> QED BY <3>3, <3>4, <3>5, <3>6, WidthLemma
    <2>3. Nat \subseteq T
      BY <2>1, <2>2, InductionLemma
    <2> QED BY <1>1, <2>3
  <1>12. ASSUME Total(b) <= U128Max PROVE sum[n] = g[n]
    <2> DEFINE U == {k \in Nat : k <= n => g[n - k] <= U128Max}
    <2>1. 0 \in U
      BY <1>1, <1>10, <1>12
    <2>2. ASSUME NEW k \in Nat, k \in U PROVE k + 1 \in U
      <3>1. SUFFICES ASSUME k + 1 <= n PROVE g[n - (k + 1)] <= U128Max
        OBVIOUS
      <3>2. n - k \in 1..n /\ (n - k) - 1 = n - (k + 1) /\ k <= n /\ n - (k + 1) \in 0..n
            /\ n - k \in 0..n
        BY <1>1, <3>1
      <3>3. g[n - k] = g[n - (k + 1)] + b[n - k]
        BY <1>10, <3>2 DEF Sums
      <3>4. g[n - k] \in Nat /\ g[n - (k + 1)] \in Nat /\ b[n - k] \in Nat
        BY <1>1, <3>2
      <3> QED BY <2>2, <3>2, <3>3, <3>4, WidthAssumption
    <2>3. Nat \subseteq U
      BY <2>1, <2>2, InductionLemma
    <2>4. \A k \in 0..n : g[k] \in Nat /\ g[k] <= U128Max
      <3> SUFFICES ASSUME NEW k \in 0..n PROVE g[k] \in Nat /\ g[k] <= U128Max
        OBVIOUS
      <3>1. n - k \in Nat /\ n - k <= n /\ n - (n - k) = k
        BY <1>1
      <3> QED BY <2>3, <3>1
    <2> DEFINE T == {k \in Nat : k <= n => sum[k] = g[k]}
    <2>5. 0 \in T
      BY <1>1, <1>8, <1>10 DEF Sums
    <2>6. ASSUME NEW k \in Nat, k \in T PROVE k + 1 \in T
      <3>1. SUFFICES ASSUME k + 1 <= n PROVE sum[k + 1] = g[k + 1]
        OBVIOUS
      <3>2. k + 1 \in 1..n /\ k + 1 \in 0..n /\ k \in 0..n /\ (k + 1) - 1 = k /\ k <= n
            /\ k + 1 # 0
        BY <1>1, <3>1
      <3>3. sum[k + 1] = Add(g[k], b[k + 1]) /\ g[k + 1] = g[k] + b[k + 1]
        BY <1>8, <1>10, <2>6, <3>2 DEF Sums
      <3>4. g[k] \in Nat /\ b[k + 1] \in Nat /\ g[k + 1] \in Nat /\ g[k + 1] <= U128Max
        BY <1>1, <2>4, <3>2
      <3> QED BY <3>3, <3>4 DEF Add, AsU128, U128, None
    <2>7. Nat \subseteq T
      BY <2>5, <2>6, InductionLemma
    <2> QED BY <1>1, <2>7
  <1>13. n \in 0..n
    BY <1>1
  <1> QED BY <1>9, <1>10, <1>11, <1>12, <1>13

\* Checked products and quotients, when they exist, and when they do.
LEMMA ExactLemma ==
    ASSUME NEW a \in OptNat, NEW b \in OptNat
    PROVE  /\ Mul(a, b) # None => a \in Nat /\ b \in Nat /\ Mul(a, b) = a * b
           /\ a \in Nat /\ b \in Nat /\ a * b <= U128Max => Mul(a, b) = a * b
           /\ Div(a, b) # None => /\ a \in Nat /\ b \in Nat /\ b > 0
                                  /\ Div(a, b) \in Nat
                                  /\ b * Div(a, b) <= a /\ a < b * Div(a, b) + b
           /\ a \in Nat /\ b \in Nat /\ b > 0 => Div(a, b) = a \div b
  <1>1. Mul(a, b) # None => a \in Nat /\ b \in Nat /\ Mul(a, b) = a * b
    BY DEF Mul, Option, OptNat, None
  <1>2. ASSUME a \in Nat, b \in Nat, a * b <= U128Max PROVE Mul(a, b) = a * b
    <2>1. ASSUME b # 0 PROVE ~(a > U128Max \div b)
      <3> DEFINE q == U128Max \div b
      <3>1. q \in Nat /\ U128Max < b * q + b
        BY <1>2, <2>1, WidthAssumption, DivLemma
      <3> HIDE DEF q
      <3>2. SUFFICES ASSUME q + 1 <= a PROVE FALSE
        BY <1>2, <3>1 DEF q
      <3>3. b * (q + 1) <= b * a /\ b * (q + 1) = b * q + b /\ b * a = a * b
        BY <1>2, <3>1, <3>2, ProductLemma
      <3>4. b * q \in Nat /\ a * b \in Nat
        BY <1>2, <3>1, ProductLemma
      <3> QED BY <1>2, <3>1, <3>3, <3>4, WidthAssumption
    <2>2. None \notin {a, b}
      BY <1>2 DEF None
    <2> QED BY <2>1, <2>2, Zenon DEF Mul
  <1>3. Div(a, b) # None => a \in Nat /\ b \in Nat /\ b > 0 /\ Div(a, b) = a \div b
    BY DEF Div, Option, OptNat, None
  <1>4. a \in Nat /\ b \in Nat /\ b > 0 => Div(a, b) = a \div b
    BY DEF Div, None
  <1> QED BY <1>1, <1>2, <1>3, <1>4, DivLemma

\* The quotients of Product lose at most what they round off.
LEMMA QuotientsLemma ==
    ASSUME NEW d \in OptNat, NEW b, NEW n, Pool(b, n), n > 0, \A k \in 1..n : b[k] > 0
    PROVE  LET p == Product(d, b, n)
           IN  /\ p \in OptNat
               /\ p # None => d \in Nat /\ p * Scale(b) <= Power(d, n + 1)
               /\ (/\ d \in Nat /\ d > 0 /\ Power(d, n + 1) <= U128Max
                   /\ \A k \in 1..n : b[k] * n <= U128Max) => p # None
  <1> DEFINE G(k, v) == Div(Mul(v, d), Mul(b[k], n))
             F == [k \in 1..n |-> [v \in OptNat |-> G(k, v)]]
             Eqn(f) == f = [k \in 0..n |-> IF k = 0 THEN d
                               ELSE Div(Mul(f[k - 1], d), Mul(b[k], n))]
             prod == CHOOSE f : Eqn(f)
  <1>1. n \in Nat /\ Len(b) = n /\ \A k \in 1..n : b[k] \in Nat /\ b[k] \in OptNat
    BY DEF Pool, OptNat, Option
  <1>2. n \in OptNat
    BY <1>1 DEF OptNat, Option
  <1>3. \A k \in 1..n : \A v \in OptNat : G(k, v) \in OptNat
    <2> SUFFICES ASSUME NEW k \in 1..n, NEW v \in OptNat PROVE G(k, v) \in OptNat
      OBVIOUS
    <2>1. Mul(v, d) \in OptNat /\ Mul(b[k], n) \in OptNat
      BY <1>1, <1>2, MulDivLemma
    <2> QED BY <2>1, MulDivLemma
  <1>4. F \in [1..n -> [OptNat -> OptNat]]
    BY <1>3
  <1>5. \A k \in 1..n : \A v \in OptNat : F[k][v] = G(k, v)
    OBVIOUS
  <1> HIDE DEF F
  <1>6. PICK f \in [0..n -> OptNat] : Unfolds(f, d, F, 1..n)
    BY <1>1, <1>4, UnfoldLemma
  <1>7. f[0] = d /\ \A k \in 1..n : f[k] = G(k, f[k - 1])
    <2>1. \A k \in 1..n : k - 1 \in 0..n
      BY <1>1
    <2> QED BY <1>5, <1>6, <2>1 DEF Unfolds
  <1>8. Eqn(f)
    BY <1>1, <1>7
  <1>9. Eqn(prod)
    BY <1>8
  <1>10. Product(d, b, n) = prod[n]
    BY <1>1 DEF Product
  <1>11. prod[0] = d /\ \A k \in Nat : k + 1 <= n => prod[k + 1] = G(k + 1, prod[k])
    <2> HIDE DEF prod
    <2>1. 0 \in 0..n /\ \A k \in Nat : k + 1 <= n => k + 1 \in 0..n /\ k + 1 # 0 /\ (k + 1) - 1 = k
      BY <1>1
    <2> QED BY <1>9, <2>1
  <1> HIDE DEF prod, G
  <1>12. PICK g \in [0..n -> Nat] : Prods(g, b, n) /\ Scale(b) = g[n]
    BY ScaleLemma
  <1>13. ASSUME NEW k \in Nat, k + 1 <= n, prod[k] \in OptNat
         PROVE  /\ k + 1 \in 1..n /\ (k + 1) - 1 = k /\ k \in 0..n /\ k + 1 \in 0..n
                /\ prod[k + 1] = Div(Mul(prod[k], d), Mul(b[k + 1], n))
                /\ prod[k + 1] \in OptNat
                /\ Mul(prod[k], d) \in OptNat /\ Mul(b[k + 1], n) \in OptNat
                /\ g[k + 1] = g[k] * (b[k + 1] * n)
                /\ g[k + 1] \in Nat /\ g[k] \in Nat
    <2>1. k + 1 \in 1..n /\ (k + 1) - 1 = k /\ k \in 0..n /\ k + 1 \in 0..n
      BY <1>1, <1>13
    <2>2. prod[k + 1] = G(k + 1, prod[k]) /\ G(k + 1, prod[k]) \in OptNat
      BY <1>3, <1>11, <1>13, <2>1
    <2>3. Mul(prod[k], d) \in OptNat /\ Mul(b[k + 1], n) \in OptNat
      BY <1>1, <1>2, <1>13, <2>1, MulDivLemma
    <2>4. g[k + 1] = g[k] * (b[k + 1] * n)
      BY <1>12, <2>1 DEF Prods
    <2> QED BY <2>1, <2>2, <2>3, <2>4 DEF G
  <1> DEFINE Low(k) == prod[k] # None =>
                          d \in Nat /\ prod[k] \in Nat /\ prod[k] * g[k] <= Power(d, k + 1)
             T == {k \in Nat : k <= n => prod[k] \in OptNat /\ Low(k)}
  <1>14. 0 \in T
    <2>1. prod[0] = d /\ g[0] = 1
      BY <1>11, <1>12 DEF Prods
    <2>2. d \in Nat => Power(d, 0 + 1) = d
      BY PowerLemma
    <2>3. d # None => d \in Nat
      BY DEF OptNat, Option
    <2> QED BY <2>1, <2>2, <2>3
  <1>15. ASSUME NEW k \in Nat, k \in T PROVE k + 1 \in T
    <2>1. SUFFICES ASSUME k + 1 <= n PROVE prod[k + 1] \in OptNat /\ Low(k + 1)
      OBVIOUS
    <2>2. prod[k] \in OptNat /\ Low(k)
      BY <1>1, <1>15, <2>1
    <2>3. /\ k + 1 \in 1..n
          /\ prod[k + 1] = Div(Mul(prod[k], d), Mul(b[k + 1], n))
          /\ prod[k + 1] \in OptNat
          /\ Mul(prod[k], d) \in OptNat /\ Mul(b[k + 1], n) \in OptNat
          /\ g[k + 1] = g[k] * (b[k + 1] * n)
          /\ g[k + 1] \in Nat /\ g[k] \in Nat
      BY <1>13, <2>1, <2>2
    <2>4. ASSUME prod[k + 1] # None PROVE Low(k + 1)
      <3> DEFINE q == prod[k + 1]
                 p == prod[k]
                 x == b[k + 1] * n
      <3>1. /\ Mul(p, d) \in Nat /\ Mul(b[k + 1], n) \in Nat
            /\ q \in Nat /\ Mul(b[k + 1], n) * q <= Mul(p, d)
        BY <2>3, <2>4, ExactLemma
      <3>2. /\ Mul(p, d) = p * d /\ p \in Nat /\ d \in Nat
            /\ Mul(b[k + 1], n) = x
        BY <1>1, <1>2, <2>2, <2>3, <3>1, ExactLemma, WidthLemma, ZenonT(30)
      <3>3. p * g[k] <= Power(d, k + 1) /\ Power(d, k + 1) \in Nat
            /\ Power(d, (k + 1) + 1) = d * Power(d, k + 1)
        <4>1. p # None
          BY <3>2, WidthLemma
        <4> QED BY <2>2, <3>2, <4>1, PowerLemma
      <3>4. x \in Nat /\ x * q <= p * d /\ g[k] \in Nat /\ g[k + 1] = g[k] * x
        BY <2>3, <3>1, <3>2
      <3> HIDE DEF q, p, x
      <3>5. x * q \in Nat /\ p * d \in Nat /\ p * g[k] \in Nat
        BY <3>1, <3>2, <3>4, ProductLemma
      <3>6. g[k] * (x * q) <= g[k] * (p * d)
        BY <3>4, <3>5, ProductLemma
      <3>7. d * (p * g[k]) <= d * Power(d, k + 1)
        BY <3>2, <3>3, <3>5, ProductLemma
      <3>8. q * (g[k] * x) = g[k] * (x * q) /\ g[k] * (p * d) = d * (p * g[k])
        BY <3>1, <3>2, <3>4, ThreeLemma
      <3>9. /\ g[k] * (x * q) \in Nat /\ g[k] * (p * d) \in Nat
            /\ d * (p * g[k]) \in Nat /\ d * Power(d, k + 1) \in Nat
        BY <3>2, <3>3, <3>4, <3>5, ProductLemma
      <3>10. q * g[k + 1] <= Power(d, (k + 1) + 1)
        BY <3>3, <3>4, <3>6, <3>7, <3>8, <3>9
      <3> QED BY <3>1, <3>2, <3>10 DEF q
    <2> QED BY <2>3, <2>4
  <1>16. Nat \subseteq T
    BY <1>14, <1>15, InductionLemma
  <1>17. \A k \in 0..n : prod[k] \in OptNat /\ Low(k)
    BY <1>1, <1>16
  <1>18. ASSUME d \in Nat, d > 0, Power(d, n + 1) <= U128Max,
                \A k \in 1..n : b[k] * n <= U128Max
         PROVE  prod[n] # None
    <2> DEFINE pow(k) == Power(d, k)
               U == {k \in Nat : k <= n => pow((n + 1) - k) <= U128Max}
               W == {k \in Nat : k <= n => prod[k] # None /\ g[k] > 0}
    <2>1. \A k \in Nat : pow(k) \in Nat /\ pow(k + 1) = d * pow(k)
      BY <1>18, PowerLemma
    <2>2. \A k \in Nat : pow(k) <= pow(k + 1)
      <3> SUFFICES ASSUME NEW k \in Nat PROVE pow(k) <= pow(k + 1)
        OBVIOUS
      <3>1. pow(k) \in Nat /\ pow(k + 1) = d * pow(k)
        BY <2>1
      <3> HIDE DEF pow
      <3>2. pow(k) * 1 <= pow(k) * d /\ pow(k) * d = d * pow(k)
        BY <1>18, <3>1, ProductLemma
      <3> QED BY <3>1, <3>2
    <2>3. 0 \in U
      BY <1>1, <1>18
    <2> HIDE DEF pow
    <2>4. ASSUME NEW k \in Nat, k \in U PROVE k + 1 \in U
      <3>1. SUFFICES ASSUME k + 1 <= n PROVE pow((n + 1) - (k + 1)) <= U128Max
        OBVIOUS
      <3>2. (n + 1) - (k + 1) \in Nat /\ ((n + 1) - (k + 1)) + 1 = (n + 1) - k
            /\ (n + 1) - k \in Nat /\ k <= n
        BY <1>1, <3>1
      <3>3. pow((n + 1) - (k + 1)) <= pow((n + 1) - k)
        BY <2>2, <3>2
      <3>4. pow((n + 1) - k) <= U128Max
        BY <2>4, <3>2
      <3>5. pow((n + 1) - (k + 1)) \in Nat /\ pow((n + 1) - k) \in Nat
        BY <2>1, <3>2
      <3> QED BY <3>3, <3>4, <3>5, WidthAssumption
    <2>5. Nat \subseteq U
      BY <2>3, <2>4, InductionLemma
    <2>6. \A k \in 0..n : pow(k + 1) <= U128Max
      <3> SUFFICES ASSUME NEW k \in 0..n PROVE pow(k + 1) <= U128Max
        OBVIOUS
      <3>1. n - k \in Nat /\ n - k <= n /\ (n + 1) - (n - k) = k + 1
        BY <1>1
      <3> QED BY <2>5, <3>1
    <2>7. 0 \in W
      BY <1>1, <1>11, <1>12, <1>18, WidthLemma DEF Prods
    <2>8. ASSUME NEW k \in Nat, k \in W PROVE k + 1 \in W
      <3>1. SUFFICES ASSUME k + 1 <= n PROVE prod[k + 1] # None /\ g[k + 1] > 0
        OBVIOUS
      <3>2. prod[k] # None /\ g[k] > 0 /\ k \in 0..n
        BY <1>1, <2>8, <3>1
      <3>3. prod[k] \in Nat /\ prod[k] \in OptNat /\ prod[k] * g[k] <= pow(k + 1)
        BY <1>17, <3>2 DEF pow
      <3>4. /\ k + 1 \in 1..n /\ k + 1 \in 0..n
            /\ prod[k + 1] = Div(Mul(prod[k], d), Mul(b[k + 1], n))
            /\ Mul(prod[k], d) \in OptNat /\ Mul(b[k + 1], n) \in OptNat
            /\ g[k + 1] = g[k] * (b[k + 1] * n)
            /\ g[k + 1] \in Nat /\ g[k] \in Nat
        BY <1>13, <3>1, <3>3
      <3>5. b[k + 1] \in Nat /\ b[k + 1] > 0
        BY <1>1, <3>4
      <3> DEFINE x == b[k + 1] * n
                 p == prod[k]
      <3>6. x \in Nat /\ x > 0 /\ x <= U128Max /\ Mul(b[k + 1], n) = x
        <4>1. x \in Nat /\ b[k + 1] * 0 < x
          BY <1>1, <3>5, ProductLemma
        <4>2. b[k + 1] * 0 = 0
          BY <3>5
        <4>3. x <= U128Max
          BY <1>18, <3>4
        <4>4. b[k + 1] \in OptNat
          BY <1>1, <3>4
        <4> QED BY <1>1, <1>2, <3>5, <4>1, <4>2, <4>3, <4>4, ExactLemma
      <3>7. p * d <= U128Max
        <4>1. p <= p * g[k]
          <5>1. p * 1 <= p * g[k]
            BY <3>2, <3>3, <3>4, ProductLemma
          <5> QED BY <3>3, <5>1
        <4>2. pow(k + 1) \in Nat /\ pow((k + 1) + 1) = d * pow(k + 1)
              /\ pow((k + 1) + 1) <= U128Max
          BY <2>1, <2>6, <3>4
        <4>3. p * g[k] \in Nat
          BY <3>3, <3>4, ProductLemma
        <4> HIDE DEF p
        <4>4. p \in Nat /\ p <= pow(k + 1)
          BY <3>3, <4>1, <4>2, <4>3 DEF p
        <4>5. d * p <= d * pow(k + 1) /\ d * p = p * d /\ d * p \in Nat /\ d * pow(k + 1) \in Nat
          BY <1>18, <4>2, <4>4, ProductLemma
        <4> QED BY <4>2, <4>5, WidthAssumption
      <3>8. Mul(p, d) = p * d /\ p * d \in Nat
        BY <1>18, <3>3, <3>7, ExactLemma, ProductLemma
      <3>9. Div(p * d, x) = (p * d) \div x /\ (p * d) \div x \in Nat
        <4>1. p * d \in OptNat /\ x \in OptNat
          BY <3>6, <3>8 DEF OptNat, Option
        <4> HIDE DEF x
        <4> QED BY <3>6, <3>8, <4>1, ExactLemma, DivLemma
      <3>10. g[k + 1] > 0
        <4> HIDE DEF x
        <4>1. g[k] * 0 < g[k] * x /\ g[k] * 0 = 0
          BY <3>2, <3>4, <3>6, ProductLemma
        <4> QED BY <3>4, <4>1 DEF x
      <3> QED BY <3>4, <3>6, <3>8, <3>9, <3>10, WidthLemma
    <2>9. Nat \subseteq W
      BY <2>7, <2>8, InductionLemma
    <2> QED BY <1>1, <2>9
  <1>19. n \in 0..n
    BY <1>1
  <1>20. prod[n] \in OptNat /\ Low(n)
    BY <1>17, <1>19
  <1> QED BY <1>10, <1>12, <1>18, <1>20

(***************************************************************************)
(* The Newton iteration.                                                   *)
(***************************************************************************)
Rounds == [v : OptNat, settled : BOOLEAN]

\* it holds the rounds of the iteration of F from start.
Iterates(it, F, start) ==
    /\ it[0] = [v |-> start, settled |-> start = None]
    /\ \A k \in 1..ITERATIONS :
          it[k] = IF it[k - 1].settled THEN it[k - 1]
                  ELSE [v |-> F[it[k - 1].v], settled |-> Settled(it[k - 1].v, F[it[k - 1].v])]

\* There are such rounds.
LEMMA RoundsLemma ==
    ASSUME NEW F \in [OptNat -> OptNat], NEW start \in OptNat
    PROVE  \E it \in [0..ITERATIONS -> Rounds] : Iterates(it, F, start)
  <1> DEFINE After(r) == IF r.settled THEN r
                         ELSE [v |-> F[r.v], settled |-> Settled(r.v, F[r.v])]
             G == [k \in 1..ITERATIONS |-> [r \in Rounds |-> After(r)]]
             base == [v |-> start, settled |-> start = None]
  <1>1. \A r \in Rounds : After(r) \in Rounds
    <2> SUFFICES ASSUME NEW r \in Rounds PROVE After(r) \in Rounds
      OBVIOUS
    <2>1. r.v \in OptNat /\ F[r.v] \in OptNat
      BY DEF Rounds
    <2>2. Settled(r.v, F[r.v]) \in BOOLEAN
      BY Zenon DEF Settled
    <2>3. [v |-> F[r.v], settled |-> Settled(r.v, F[r.v])] \in Rounds
      BY <2>1, <2>2, Zenon DEF Rounds
    <2> QED BY <2>3
  <1>2. base \in Rounds
    BY Zenon DEF Rounds
  <1>3. \A k \in 1..ITERATIONS : \A r \in Rounds : G[k][r] = After(r)
    OBVIOUS
  <1>4. G \in [1..ITERATIONS -> [Rounds -> Rounds]]
    BY <1>1
  <1> HIDE DEF G, base
  <1>5. PICK it \in [0..ITERATIONS -> Rounds] : Unfolds(it, base, G, 1..ITERATIONS)
    BY <1>2, <1>4, UnfoldLemma, CurveAssumption
  <1>6. \A k \in 1..ITERATIONS : k - 1 \in 0..ITERATIONS
    BY CurveAssumption
  <1>7. it[0] = base /\ \A k \in 1..ITERATIONS : it[k] = After(it[k - 1])
    BY <1>3, <1>5, <1>6 DEF Unfolds
  <1> QED BY <1>7 DEF Iterates, base

\* The fields of a round.
LEMMA FieldsLemma ==
    ASSUME NEW a, NEW e \in BOOLEAN, NEW r, r = [v |-> a, settled |-> e]
    PROVE  r.v = a /\ (r.settled <=> e)
  BY Zenon

\* last is in I, and F has made it of another value in I, unless it is None.
LastFound(last, F, I) ==
    /\ last \in I
    /\ last # None => \E z \in I \ {None} : last = F[z]

\* A set closed under F holds the last value, which F has made of one in it.
LEMMA LastLemma ==
    ASSUME NEW F, NEW start, NEW it, it \in [0..ITERATIONS -> Rounds],
           Iterates(it, F, start), NEW I, start \in I,
           \A v \in I \ {None} : F[v] \in I
    PROVE  LastFound(it[ITERATIONS].v, F, I)
  <1> DEFINE Good(k) == /\ it[k].v \in I
                        /\ it[k].v = None => it[k].settled
                        /\ it[k].v # None => k = 0 \/ \E z \in I \ {None} : it[k].v = F[z]
             T == {k \in Nat : k <= ITERATIONS => Good(k)}
  <1>1. it[0].v = start /\ (it[0].settled <=> start = None)
    <2> DEFINE e == (start = None)
    <2>1. it[0] = [v |-> start, settled |-> e]
      BY DEF Iterates
    <2>2. e \in BOOLEAN
      BY Zenon
    <2> HIDE DEF e
    <2>3. it[0].v = start /\ (it[0].settled <=> e)
      BY <2>1, <2>2, FieldsLemma, Zenon
    <2> QED BY <2>3, Zenon DEF e
  <1>2. 0 \in T
    <2>1. it[0].v = start /\ (it[0].v = None => it[0].settled)
      BY <1>1
    <2>2. Good(0)
      BY <2>1
    <2> QED BY <2>2
  <1>3. ASSUME NEW k \in Nat, k \in T PROVE k + 1 \in T
    <2>1. SUFFICES ASSUME k + 1 <= ITERATIONS PROVE Good(k + 1)
      OBVIOUS
    <2>2. k + 1 \in 1..ITERATIONS /\ (k + 1) - 1 = k /\ k <= ITERATIONS /\ k + 1 # 0
      BY <2>1, CurveAssumption
    <2>3. it[k + 1] = IF it[k].settled THEN it[k]
                      ELSE [v |-> F[it[k].v], settled |-> Settled(it[k].v, F[it[k].v])]
      BY <2>2 DEF Iterates
    <2>4. Good(k)
      BY <1>3, <2>2
    <2>5. CASE ~it[k].settled
      <3>1. /\ it[k + 1].v = F[it[k].v]
            /\ it[k + 1].settled = Settled(it[k].v, F[it[k].v])
        BY <2>3, <2>5
      <3>2. it[k].v \in I \ {None}
        BY <2>4, <2>5
      <3>3. it[k + 1].v = None => it[k + 1].settled
        BY <3>1 DEF Settled
      <3> QED BY <3>1, <3>2, <3>3
    <2>6. CASE it[k].settled
      <3>1. it[k + 1] = it[k]
        BY <2>3, <2>6
      <3>2. k = 0 => it[k].v = None
        <4> QED BY <1>1, <2>6
      <3> QED BY <2>4, <3>1, <3>2
    <2> QED BY <2>5, <2>6
  <1>4. Nat \subseteq T
    BY <1>2, <1>3, InductionLemma
  <1>5. Good(ITERATIONS) /\ ITERATIONS # 0
    BY <1>4, CurveAssumption
  <1> QED BY <1>5 DEF LastFound

\* A round of the iteration for D has a type.
LEMMA StepDLemma ==
    ASSUME NEW self, self.amp \in Nat, NEW b, NEW n, Pool(b, n), n > 0,
           \A k \in 1..n : b[k] > 0, NEW d \in OptNat
    PROVE  LET ann == Ann(self, n)
               p == Product(d, b, n)
           IN  /\ ann \in OptNat /\ p \in OptNat /\ SumOf(b) \in OptNat
               /\ Mul(ann, SumOf(b)) \in OptNat /\ Mul(p, n) \in OptNat
               /\ Add(Mul(ann, SumOf(b)), Mul(p, n)) \in OptNat
               /\ Mul(Add(Mul(ann, SumOf(b)), Mul(p, n)), d) \in OptNat
               /\ Sub(ann, 1) \in OptNat /\ Mul(d, Sub(ann, 1)) \in OptNat
               /\ Add(p, Mul(p, n)) \in OptNat
               /\ Add(Mul(d, Sub(ann, 1)), Add(p, Mul(p, n))) \in OptNat
               /\ StepD(self, b, d) =
                     Div(Mul(Add(Mul(ann, SumOf(b)), Mul(p, n)), d),
                         Add(Mul(d, Sub(ann, 1)), Add(p, Mul(p, n))))
               /\ StepD(self, b, d) \in OptNat
  <1> DEFINE ann == Ann(self, n)
             p == Product(d, b, n)
             s == SumOf(b)
  <1>1. n \in Nat /\ Len(b) = n
    BY DEF Pool
  <1>2. n \in OptNat /\ self.amp \in OptNat /\ 1 \in OptNat
    BY <1>1 DEF OptNat, Option
  <1>3. ann \in OptNat
    BY <1>2, MulDivLemma DEF Ann
  <1>4. p \in OptNat
    BY QuotientsLemma
  <1>5. s \in OptNat
    BY SumOfLemma
  <1>6. StepD(self, b, d) = Div(Mul(Add(Mul(ann, s), Mul(p, n)), d),
                                Add(Mul(d, Sub(ann, 1)), Add(p, Mul(p, n))))
    BY <1>1 DEF StepD
  <1> HIDE DEF ann, p, s
  <1>7. \A x, y \in OptNat : /\ Add(x, y) \in OptNat /\ Sub(x, y) \in OptNat
                             /\ Mul(x, y) \in OptNat /\ Div(x, y) \in OptNat
    BY AddSubLemma, MulDivLemma, WidthLemma DEF Option, OptNat
  <1>8. Mul(ann, s) \in OptNat /\ Mul(p, n) \in OptNat /\ Sub(ann, 1) \in OptNat
    BY <1>2, <1>3, <1>4, <1>5, <1>7
  <1>9. /\ Add(Mul(ann, s), Mul(p, n)) \in OptNat
        /\ Mul(d, Sub(ann, 1)) \in OptNat
        /\ Add(p, Mul(p, n)) \in OptNat
    BY <1>4, <1>7, <1>8
  <1>10. /\ Mul(Add(Mul(ann, s), Mul(p, n)), d) \in OptNat
         /\ Add(Mul(d, Sub(ann, 1)), Add(p, Mul(p, n))) \in OptNat
    BY <1>7, <1>9
  <1>11. StepD(self, b, d) \in OptNat
    BY <1>6, <1>7, <1>10
  <1> QED BY <1>3, <1>4, <1>5, <1>6, <1>8, <1>9, <1>10, <1>11 DEF ann, p, s

\* What the iteration for D ends with.
LEMMA NewtonDLemma ==
    ASSUME NEW self, self.amp \in Nat, NEW b, NEW n, Pool(b, n), n > 0,
           \A k \in 1..n : b[k] > 0, NEW start \in OptNat,
           NEW I \in SUBSET OptNat, start \in I,
           \A v \in I \ {None} : StepD(self, b, v) \in I
    PROVE  LET last == NewtonD(self, b, start)
           IN  /\ last \in I
               /\ last # None => \E z \in I \ {None} : last = StepD(self, b, z)
  <1> DEFINE F == [v \in OptNat |-> StepD(self, b, v)]
             Eqn(f) == f = [k \in 0..ITERATIONS |->
                 IF k = 0 THEN [v |-> start, settled |-> start = None]
                 ELSE IF f[k - 1].settled THEN f[k - 1]
                      ELSE [v |-> StepD(self, b, f[k - 1].v),
                            settled |-> Settled(f[k - 1].v, StepD(self, b, f[k - 1].v))]]
             it == CHOOSE f : Eqn(f)
  <1>1. F \in [OptNat -> OptNat]
    BY StepDLemma
  <1>2. \A v \in OptNat : F[v] = StepD(self, b, v)
    OBVIOUS
  <1> HIDE DEF F
  <1>3. PICK g \in [0..ITERATIONS -> Rounds] : Iterates(g, F, start)
    BY <1>1, RoundsLemma
  <1>4. \A k \in 1..ITERATIONS : k - 1 \in 0..ITERATIONS /\ g[k - 1].v \in OptNat /\ k # 0
    BY CurveAssumption DEF Rounds
  <1>5. Eqn(g)
    <2>1. /\ g[0] = [v |-> start, settled |-> start = None]
          /\ \A k \in 1..ITERATIONS :
                g[k] = IF g[k - 1].settled THEN g[k - 1]
                       ELSE [v |-> F[g[k - 1].v],
                             settled |-> Settled(g[k - 1].v, F[g[k - 1].v])]
      BY <1>3, Zenon DEF Iterates
    <2>2. \A k \in 1..ITERATIONS : F[g[k - 1].v] = StepD(self, b, g[k - 1].v)
      BY <1>2, <1>4
    <2>3. \A k \in 1..ITERATIONS :
                g[k] = IF g[k - 1].settled THEN g[k - 1]
                       ELSE [v |-> StepD(self, b, g[k - 1].v),
                             settled |-> Settled(g[k - 1].v, StepD(self, b, g[k - 1].v))]
      BY <2>1, <2>2, Zenon
    <2>4. \A k \in 0..ITERATIONS : k = 0 \/ (k # 0 /\ k \in 1..ITERATIONS)
      BY CurveAssumption
    <2>5. \A k \in 0..ITERATIONS : g[k] =
                 IF k = 0 THEN [v |-> start, settled |-> start = None]
                 ELSE IF g[k - 1].settled THEN g[k - 1]
                      ELSE [v |-> StepD(self, b, g[k - 1].v),
                            settled |-> Settled(g[k - 1].v, StepD(self, b, g[k - 1].v))]
      BY <2>1, <2>3, <2>4, Zenon
    <2>6. g = [k \in 0..ITERATIONS |-> g[k]]
      OBVIOUS
    <2> QED BY <2>5, <2>6, Zenon
  <1>6. Eqn(it)
    BY <1>5
  <1>7. NewtonD(self, b, start) = it[ITERATIONS].v
    BY Zenon DEF NewtonD, Newton
  <1> HIDE DEF it
  <1>8. it[0] = [v |-> start, settled |-> start = None]
    BY <1>6, CurveAssumption
  <1>9. \A k \in 1..ITERATIONS :
            it[k] = IF it[k - 1].settled THEN it[k - 1]
                    ELSE [v |-> StepD(self, b, it[k - 1].v),
                          settled |-> Settled(it[k - 1].v, StepD(self, b, it[k - 1].v))]
    BY <1>6, CurveAssumption
  <1>10. \A k \in 0..ITERATIONS : it[k] = g[k]
    <2> DEFINE T == {k \in Nat : k <= ITERATIONS => it[k] = g[k]}
    <2>1. 0 \in T
      BY <1>3, <1>8 DEF Iterates
    <2>2. ASSUME NEW k \in Nat, k \in T PROVE k + 1 \in T
      <3>1. SUFFICES ASSUME k + 1 <= ITERATIONS PROVE it[k + 1] = g[k + 1]
        OBVIOUS
      <3>2. k + 1 \in 1..ITERATIONS /\ (k + 1) - 1 = k /\ k <= ITERATIONS
        BY <3>1, CurveAssumption
      <3>3. it[k] = g[k] /\ g[k].v \in OptNat
        BY <1>4, <2>2, <3>2
      <3> QED BY <1>2, <1>3, <1>9, <3>2, <3>3, ZenonT(30) DEF Iterates
    <2>3. Nat \subseteq T
      BY <2>1, <2>2, InductionLemma
    <2> QED BY <2>3, CurveAssumption
  <1>11. \A v \in I \ {None} : F[v] \in I /\ F[v] = StepD(self, b, v)
    BY <1>2
  <1>12. LastFound(g[ITERATIONS].v, F, I)
    BY <1>3, <1>11, LastLemma
  <1>13. it[ITERATIONS] = g[ITERATIONS]
    BY <1>10, CurveAssumption
  <1> QED BY <1>7, <1>11, <1>12, <1>13 DEF LastFound

\* What the iteration for the balance of one coin ends with.
LEMMA NewtonYLemma ==
    ASSUME NEW d \in OptNat, NEW b \in OptNat, NEW c \in OptNat
    PROVE  NewtonY(b, c, d) # None => \E z \in Nat : NewtonY(b, c, d) = StepY(z, b, c, d)
  <1> DEFINE F == [v \in OptNat |-> StepY(v, b, c, d)]
             Eqn(f) == f = [k \in 0..ITERATIONS |->
                 IF k = 0 THEN [v |-> d, settled |-> d = None]
                 ELSE IF f[k - 1].settled THEN f[k - 1]
                      ELSE [v |-> StepY(f[k - 1].v, b, c, d),
                            settled |-> Settled(f[k - 1].v, StepY(f[k - 1].v, b, c, d))]]
             it == CHOOSE f : Eqn(f)
  <1>1. F \in [OptNat -> OptNat]
    <2> SUFFICES ASSUME NEW v \in OptNat PROVE StepY(v, b, c, d) \in OptNat
      OBVIOUS
    <2>1. \A x, y \in OptNat : /\ Add(x, y) \in OptNat /\ Sub(x, y) \in OptNat
                               /\ Mul(x, y) \in OptNat /\ Div(x, y) \in OptNat
      BY AddSubLemma, MulDivLemma, WidthLemma DEF Option, OptNat
    <2>2. 2 \in OptNat
      BY DEF OptNat, Option
    <2>3. Mul(v, v) \in OptNat /\ Mul(v, 2) \in OptNat
      BY <2>1, <2>2
    <2>4. Add(Mul(v, v), c) \in OptNat /\ Add(Mul(v, 2), b) \in OptNat
      BY <2>1, <2>3
    <2>5. Sub(Add(Mul(v, 2), b), d) \in OptNat
      BY <2>1, <2>4
    <2> QED BY <2>1, <2>4, <2>5 DEF StepY
  <1>2. \A v \in OptNat : F[v] = StepY(v, b, c, d)
    OBVIOUS
  <1> HIDE DEF F
  <1>3. PICK g \in [0..ITERATIONS -> Rounds] : Iterates(g, F, d)
    BY <1>1, RoundsLemma
  <1>4. \A k \in 1..ITERATIONS : k - 1 \in 0..ITERATIONS /\ g[k - 1].v \in OptNat /\ k # 0
    BY CurveAssumption DEF Rounds
  <1>5. Eqn(g)
    <2>1. /\ g[0] = [v |-> d, settled |-> d = None]
          /\ \A k \in 1..ITERATIONS :
                g[k] = IF g[k - 1].settled THEN g[k - 1]
                       ELSE [v |-> F[g[k - 1].v],
                             settled |-> Settled(g[k - 1].v, F[g[k - 1].v])]
      BY <1>3, Zenon DEF Iterates
    <2>2. \A k \in 1..ITERATIONS : F[g[k - 1].v] = StepY(g[k - 1].v, b, c, d)
      BY <1>2, <1>4
    <2>3. \A k \in 1..ITERATIONS :
                g[k] = IF g[k - 1].settled THEN g[k - 1]
                       ELSE [v |-> StepY(g[k - 1].v, b, c, d),
                             settled |-> Settled(g[k - 1].v, StepY(g[k - 1].v, b, c, d))]
      BY <2>1, <2>2, Zenon
    <2>4. \A k \in 0..ITERATIONS : k = 0 \/ (k # 0 /\ k \in 1..ITERATIONS)
      BY CurveAssumption
    <2>5. \A k \in 0..ITERATIONS : g[k] =
                 IF k = 0 THEN [v |-> d, settled |-> d = None]
                 ELSE IF g[k - 1].settled THEN g[k - 1]
                      ELSE [v |-> StepY(g[k - 1].v, b, c, d),
                            settled |-> Settled(g[k - 1].v, StepY(g[k - 1].v, b, c, d))]
      BY <2>1, <2>3, <2>4, Zenon
    <2>6. g = [k \in 0..ITERATIONS |-> g[k]]
      OBVIOUS
    <2> QED BY <2>5, <2>6, Zenon
  <1>6. Eqn(it)
    BY <1>5
  <1>7. NewtonY(b, c, d) = it[ITERATIONS].v
    BY Zenon DEF NewtonY, Newton
  <1> HIDE DEF it
  <1>8. it[0] = [v |-> d, settled |-> d = None]
    BY <1>6, CurveAssumption
  <1>9. \A k \in 1..ITERATIONS :
            it[k] = IF it[k - 1].settled THEN it[k - 1]
                    ELSE [v |-> StepY(it[k - 1].v, b, c, d),
                          settled |-> Settled(it[k - 1].v, StepY(it[k - 1].v, b, c, d))]
    BY <1>6, CurveAssumption
  <1>10. \A k \in 0..ITERATIONS : it[k] = g[k]
    <2> DEFINE T == {k \in Nat : k <= ITERATIONS => it[k] = g[k]}
    <2>1. 0 \in T
      BY <1>3, <1>8 DEF Iterates
    <2>2. ASSUME NEW k \in Nat, k \in T PROVE k + 1 \in T
      <3>1. SUFFICES ASSUME k + 1 <= ITERATIONS PROVE it[k + 1] = g[k + 1]
        OBVIOUS
      <3>2. k + 1 \in 1..ITERATIONS /\ (k + 1) - 1 = k /\ k <= ITERATIONS
        BY <3>1, CurveAssumption
      <3>3. it[k] = g[k] /\ g[k].v \in OptNat
        BY <1>4, <2>2, <3>2
      <3>4. F[g[k].v] = StepY(g[k].v, b, c, d)
        BY <1>2, <3>3
      <3>5. g[k + 1] = IF g[k].settled THEN g[k]
                       ELSE [v |-> F[g[k].v], settled |-> Settled(g[k].v, F[g[k].v])]
        BY <1>3, <3>2 DEF Iterates
      <3>6. it[k + 1] = IF it[k].settled THEN it[k]
                        ELSE [v |-> StepY(it[k].v, b, c, d),
                              settled |-> Settled(it[k].v, StepY(it[k].v, b, c, d))]
        BY <1>9, <3>2
      <3> QED BY <3>3, <3>4, <3>5, <3>6, Zenon
    <2>3. Nat \subseteq T
      BY <2>1, <2>2, InductionLemma
    <2> QED BY <2>3, CurveAssumption
  <1>11. \A v \in OptNat \ {None} : F[v] \in OptNat
    BY <1>1
  <1>12. LastFound(g[ITERATIONS].v, F, OptNat)
    BY <1>3, <1>11, LastLemma
  <1>13. it[ITERATIONS] = g[ITERATIONS]
    BY <1>10, CurveAssumption
  <1>14. OptNat \ {None} = Nat
    BY WidthLemma DEF OptNat, Option
  <1>15. NewtonY(b, c, d) # None => \E z \in Nat : NewtonY(b, c, d) = F[z]
    BY <1>7, <1>12, <1>13, <1>14, Zenon DEF LastFound
  <1> QED BY <1>2, <1>15 DEF OptNat, Option

(***************************************************************************)
(* Two coins.                                                              *)
(***************************************************************************)
\* The rounding of the last round for y, of the two quotients in c and of the
\* one in b, costs less than two units: with that much more of the coin, d is
\* at most the root.
LEMMA KeptLemma ==
    ASSUME NEW x \in Nat, NEW d \in Nat, NEW ann \in Nat, NEW t \in Nat,
           NEW q \in Nat, NEW c \in Nat, NEW z \in Nat, NEW y \in Nat,
           x > 0, ann >= 2, ann * t <= d,
           d * d < (2 * x) * q + 2 * x,
           q * d < (2 * ann) * c + 2 * ann,
           z * z + c < (2 * z + (x + t) - d) * y + (2 * z + (x + t) - d)
    PROVE  d * (d * d) <= (4 * (x * (y + 2))) * (ann * (x + (y + 2) - d) + d)
  <1> DEFINE w == y + 1
             u == d - x - 2 * w
             E == ann * (w * (w + x - d)) + w * d
             G == x * (ann * (c + 1))
             L == d * (d * d) + d - 2 * (x * d) + 2 * x
             v == ann * (2 * w + 1 + x - d) + d
  <1>1. w \in Nat /\ w >= 1 /\ u \in Int
    OBVIOUS
  <1>2. c + 1 <= w * w + w * (x + t - d)
    <2>1. z * z + c < w * (2 * z + (x + t) - d)
      BY SMT
    <2> HIDE DEF w
    <2>2. w * (2 * z + (x + t) - d) = 2 * (w * z) + w * (x + t - d)
      BY <1>1, SMT
    <2>3. (w - z) * (w - z) = w * w - 2 * (w * z) + z * z /\ (w - z) * (w - z) >= 0
      BY <1>1, SMT
    <2> DEFINE wz == w * z
               ww == w * w
               zz == z * z
               k == w * (x + t - d)
    <2>4. wz \in Int /\ ww \in Int /\ zz \in Int /\ k \in Int
      BY <1>1, SMT
    <2> HIDE DEF wz, ww, zz, k
    <2>5. zz + c < 2 * wz + k /\ ww - 2 * wz + zz >= 0
      BY <2>1, <2>2, <2>3, <2>4 DEF wz, ww, zz, k
    <2>6. c + 1 <= ww + k
      BY <2>4, <2>5
    <2> QED BY <2>6 DEF ww, k
  <1>3. L <= 4 * G
    <2>1. q * d + 1 <= 2 * (ann * (c + 1))
      <3>1. (2 * ann) * c + 2 * ann = 2 * (ann * (c + 1)) /\ q * d \in Nat
            /\ ann * (c + 1) \in Nat
        BY SMT
      <3> QED BY <3>1
    <2>2. x * (q * d + 1) <= x * (2 * (ann * (c + 1)))
      <3>1. q * d + 1 \in Nat /\ 2 * (ann * (c + 1)) \in Nat
        BY SMT
      <3> QED BY <2>1, <3>1, SMT
    <2>3. x * (2 * (ann * (c + 1))) = 2 * G /\ x * (q * d + 1) = x * (q * d) + x
      BY SMT
    <2>4. d * (d * d + 1) <= d * ((2 * x) * q + 2 * x)
      <3>1. d * d + 1 \in Nat /\ (2 * x) * q + 2 * x \in Nat
            /\ d * d + 1 <= (2 * x) * q + 2 * x
        BY SMT
      <3> QED BY <3>1, SMT
    <2>5. d * (d * d + 1) = d * (d * d) + d
          /\ d * ((2 * x) * q + 2 * x) = 2 * (x * (q * d)) + 2 * (x * d)
      BY SMT
    <2> DEFINE e1 == x * (q * d)
               e2 == d * (d * d)
               e3 == x * d
    <2>6. e1 \in Int /\ e2 \in Int /\ e3 \in Int /\ G \in Int
      BY SMT
    <2> HIDE DEF e1, e2, e3, G
    <2>7. e1 + x <= 2 * G /\ e2 + d <= 2 * e1 + 2 * e3
      BY <2>2, <2>3, <2>4, <2>5 DEF e1, e2, e3
    <2>8. e2 + d - 2 * e3 + 2 * x <= 4 * G
      BY <2>6, <2>7
    <2> QED BY <2>8 DEF e2, e3
  <1>4. ann * (c + 1) <= E
    <2> HIDE DEF w, u
    <2>1. ann * (c + 1) <= ann * (w * w + w * (x + t - d))
      <3>1. c + 1 \in Int /\ w * w + w * (x + t - d) \in Int
        BY <1>1, SMT
      <3> QED BY <1>2, <3>1, SMT
    <2>2. ann * (w * w + w * (x + t - d)) = ann * (w * (w + x - d)) + w * (ann * t)
      BY <1>1, SMT
    <2>3. w * (ann * t) <= w * d
      <3>1. ann * t \in Nat
        BY SMT
      <3> QED BY <1>1, <3>1, SMT
    <2> DEFINE e1 == ann * (w * (w + x - d))
               e2 == w * (ann * t)
               e3 == w * d
               e4 == ann * (c + 1)
    <2>4. e1 \in Int /\ e2 \in Int /\ e3 \in Int /\ e4 \in Int
      BY <1>1, SMT
    <2> HIDE DEF e1, e2, e3, e4
    <2>5. e4 <= e1 + e2 /\ e2 <= e3
      BY <2>1, <2>2, <2>3 DEF e1, e2, e3, e4
    <2>6. e4 <= e1 + e3
      BY <2>4, <2>5
    <2> QED BY <2>6 DEF e1, e3, e4
  <1>5. G <= x * E
    <2>1. ann * (c + 1) \in Int /\ E \in Int
      BY SMT
    <2> HIDE DEF E
    <2> QED BY <1>4, <2>1, SMT
  <1>6. (4 * (x * (y + 2))) * (ann * (x + (y + 2) - d) + d) = 4 * (x * E) + 4 * (x * v)
    <2>1. y + 2 = w + 1
      OBVIOUS
    <2> HIDE DEF w
    <2>2. (4 * (x * (w + 1))) * (ann * (x + (w + 1) - d) + d) = 4 * (x * E) + 4 * (x * v)
      BY <1>1, SMT
    <2> QED BY <2>1, <2>2
  <1>7. CASE 2 * (ann * u) <= d + 2
    <2>1. x * (2 * (ann * u)) <= x * (d + 2)
      <3>1. ann * u \in Int
        BY <1>1, SMT
      <3> HIDE DEF u
      <3> QED BY <1>7, <3>1, SMT
    <2>2. x * (2 * (ann * u)) = 2 * (x * (ann * u)) /\ x * (d + 2) = x * d + 2 * x
      BY SMT
    <2>3. x * v = x * ann - x * (ann * u) + x * d
      <3>1. 2 * w + 1 + x - d = 1 - u
        OBVIOUS
      <3>2. v = ann * (1 - u) + d
        BY <3>1
      <3> HIDE DEF u, v, w
      <3> QED BY <1>1, <3>2, SMT
    <2>4. x * 2 <= x * ann
      BY SMT
    <2> DEFINE e1 == x * (ann * u)
               e2 == x * d
               e3 == x * ann
               e4 == d * (d * d)
               e5 == x * E
    <2>5. e1 \in Int /\ e2 \in Nat /\ e3 \in Int /\ e4 \in Int /\ G \in Int /\ e5 \in Int
      BY <1>1, SMT
    <2> HIDE DEF u, v, w, E, G, e1, e2, e3, e4, e5
    <2>6. 2 * e1 <= e2 + 2 * x /\ x * v = e3 - e1 + e2 /\ 2 * x <= e3
          /\ e4 + d - 2 * e2 + 2 * x <= 4 * G /\ G <= e5
      BY <1>3, <1>5, <2>1, <2>2, <2>3, <2>4 DEF e1, e2, e3, e4, e5
    <2>7. e4 <= 4 * e5 + 4 * (e3 - e1 + e2)
      BY <2>5, <2>6
    <2> QED BY <1>6, <2>6, <2>7 DEF e4, e5
  <1>8. CASE 2 * (ann * u) >= d + 3
    <2> DEFINE A == d - x
               h == t - u
    <2>1. 4 * (c + 1) <= h * h - (A - t) * (A - t)
      <3>1. 4 * (w * w + w * (x + t - d)) = (2 * w) * (2 * w + 2 * (x + t - d))
        BY <1>1, SMT
      <3>2. 2 * w = A - u /\ 2 * w + 2 * (x + t - d) = 2 * t - A - u
        OBVIOUS
      <3>3. (A - u) * (2 * t - A - u) = (t - u) * (t - u) - (A - t) * (A - t)
        <4> A \in Int
          OBVIOUS
        <4> HIDE DEF A, u, w
        <4> QED BY <1>1, SMT
      <3>4. w * w + w * (x + t - d) \in Int
        BY <1>1, SMT
      <3>5. 4 * (c + 1) <= 4 * (w * w + w * (x + t - d))
        BY <1>2, <3>4
      <3> HIDE DEF w, u, A
      <3> QED BY <3>1, <3>2, <3>3, <3>5
    <2>2. u > 0
      <3>1. ann * u > 0
        <4>1. ann * u \in Int
          BY <1>1, SMT
        <4> HIDE DEF u
        <4> QED BY <1>8, <4>1
      <3> HIDE DEF u
      <3> QED BY <1>1, <3>1, SMT
    <2>3. h > 0 /\ A > u
      <3>1. A - u = 2 * w
        OBVIOUS
      <3>2. w * (2 * w + 2 * (x + t - d)) > 0
        <4>1. w * (2 * w + 2 * (x + t - d)) = 2 * (w * w + w * (x + t - d))
              /\ w * w + w * (x + t - d) \in Int
          BY <1>1, SMT
        <4> QED BY <1>2, <4>1
      <3>3. 2 * w + 2 * (x + t - d) > 0
        <4> DEFINE k == 2 * w + 2 * (x + t - d)
        <4>1. k \in Int /\ w * k > 0
          BY <1>1, <3>2
        <4> HIDE DEF k, w
        <4>2. k > 0
          BY <1>1, <4>1, SMT
        <4> QED BY <4>2 DEF k
      <3> QED BY <1>1, <3>1, <3>3
    <2>4. (2 * ann) * h <= d - 3
      <3>1. (2 * ann) * h = 2 * (ann * t) - 2 * (ann * u) /\ ann * t \in Int /\ ann * u \in Int
        <4> HIDE DEF u
        <4> QED BY <1>1, SMT
      <3> HIDE DEF u
      <3> QED BY <1>8, <3>1
    <2> h \in Int /\ A \in Int
      BY <1>1
    <2> HIDE DEF h, A
    <2>5. ((2 * ann) * h) * ((2 * ann) * h) <= (d - 3) * (d - 3)
      <3> DEFINE k == (2 * ann) * h
      <3>1. k \in Nat
        BY <2>3, SMT
      <3> HIDE DEF k
      <3>2. k <= d - 3
        BY <2>4 DEF k
      <3>3. k * k <= (d - 3) * (d - 3)
        BY <3>1, <3>2, SMT
      <3> QED BY <3>3 DEF k
    <2>6. 4 * (c + 1) <= h * h
      <3>1. (A - t) * (A - t) >= 0 /\ (A - t) * (A - t) \in Int /\ h * h \in Int
        BY SMT
      <3> QED BY <2>1, <3>1
    <2>7. 16 * (ann * (ann * (c + 1))) <= (d - 3) * (d - 3)
      <3>1. ((2 * ann) * h) * ((2 * ann) * h) = (4 * (ann * ann)) * (h * h)
        BY SMT
      <3>2. (4 * (ann * ann)) * (4 * (c + 1)) <= (4 * (ann * ann)) * (h * h)
        <4>1. 4 * (ann * ann) \in Nat /\ 4 * (c + 1) \in Nat /\ h * h \in Int
          BY SMT
        <4> HIDE DEF h
        <4> QED BY <2>6, <4>1, SMT
      <3>3. (4 * (ann * ann)) * (4 * (c + 1)) = 16 * (ann * (ann * (c + 1)))
        BY SMT
      <3>4. (4 * (ann * ann)) * (h * h) \in Int /\ 16 * (ann * (ann * (c + 1))) \in Int
            /\ (d - 3) * (d - 3) \in Int
        BY SMT
      <3> QED BY <2>5, <3>1, <3>2, <3>3, <3>4
    <2>8. x < d
      BY <2>2, <2>3, <1>1 DEF A
    <2>9. (4 * ann) * (4 * G) <= d * ((d - 3) * (d - 3))
      <3>1. (4 * ann) * (4 * G) = x * (16 * (ann * (ann * (c + 1))))
        BY SMT
      <3> DEFINE k == (d - 3) * (d - 3)
                 m == 16 * (ann * (ann * (c + 1)))
      <3>2. k \in Int /\ k >= 0 /\ m \in Int
        BY SMT
      <3> HIDE DEF k, m
      <3>3. m <= k
        BY <2>7 DEF k, m
      <3>4. x * m <= x * k /\ x * k <= d * k
        BY <2>8, <3>2, <3>3, SMT
      <3>5. x * m \in Int /\ x * k \in Int /\ d * k \in Int
        BY <3>2, SMT
      <3>6. x * m <= d * k
        BY <3>4, <3>5
      <3> QED BY <3>1, <3>6 DEF k, m
    <2>10. d * (d * d) - 2 * (d * d) + 3 * d <= L
      <3>1. x * (d - 1) <= d * (d - 1)
        BY <2>8, SMT
      <3>2. x * (d - 1) = x * d - x /\ d * (d - 1) = d * d - d
        BY SMT
      <3> DEFINE e1 == x * d
                 e2 == d * d
                 e3 == d * (d * d)
      <3>3. e1 \in Int /\ e2 \in Int /\ e3 \in Int
        BY SMT
      <3> HIDE DEF e1, e2, e3
      <3>4. e1 - x <= e2 - d
        BY <3>1, <3>2 DEF e1, e2
      <3>5. e3 - 2 * e2 + 3 * d <= e3 + d - 2 * e1 + 2 * x
        BY <3>3, <3>4
      <3> QED BY <3>5 DEF e1, e2, e3
    <2>11. d * (d * d) - 2 * (d * d) + 3 * d >= 0
      <3>1. d * (d * d) - 2 * (d * d) + 3 * d = d * ((d - 1) * (d - 1) + 2)
        BY SMT
      <3>2. (d - 1) * (d - 1) + 2 \in Nat
        BY SMT
      <3> QED BY <3>1, <3>2, SMT
    <2> DEFINE M == d * (d * d) - 2 * (d * d) + 3 * d
    <2>12. M \in Int /\ L \in Int /\ G \in Int /\ (4 * ann) * (4 * G) \in Int
           /\ d * ((d - 3) * (d - 3)) \in Int
      BY SMT
    <2>13. 8 * M <= (4 * ann) * (4 * G)
      <3> HIDE DEF M, L, G
      <3>1. M <= 4 * G /\ M >= 0
        BY <1>3, <2>10, <2>11, <2>12 DEF M
      <3>2. 8 * M <= 8 * (4 * G)
        BY <2>12, <3>1
      <3>3. 8 * (4 * G) <= (4 * ann) * (4 * G)
        <4>1. 4 * G \in Nat
          BY <2>12, <3>1
        <4> DEFINE g == 4 * G
        <4> HIDE DEF g
        <4>2. g \in Nat
          BY <4>1 DEF g
        <4>3. 8 * g <= (4 * ann) * g
          BY <4>2, SMT
        <4> QED BY <4>3 DEF g
      <3> QED BY <2>12, <3>2, <3>3
    <2>14. 8 * M <= d * ((d - 3) * (d - 3))
      <3> HIDE DEF M, G
      <3> QED BY <2>9, <2>12, <2>13
    <2>15. 8 * M - d * ((d - 3) * (d - 3)) = d * (5 * ((d - 1) * (d - 1)) + 2 * (d * d) + 10)
      BY SMT
    <2>16. 5 * ((d - 1) * (d - 1)) + 2 * (d * d) + 10 > 0
           /\ 5 * ((d - 1) * (d - 1)) + 2 * (d * d) + 10 \in Int
      BY SMT
    <2>17. d * (5 * ((d - 1) * (d - 1)) + 2 * (d * d) + 10) > 0
      BY <2>8, <2>16, SMT
    <2> HIDE DEF M
    <2> QED BY <2>12, <2>14, <2>15, <2>17
  <1>9. 2 * (ann * u) \in Int
    BY <1>1, SMT
  <1> HIDE DEF u
  <1> QED BY <1>7, <1>8, <1>9
\* What the checked operations make of one balance.
LEMMA SingletonLemma ==
    ASSUME NEW xs, Len(xs) = 1, NEW d, NEW n
    PROVE  /\ SumOf(xs) = Add(0, xs[1])
           /\ Product(d, xs, n) = Div(Mul(d, d), Mul(xs[1], n))
  <1> DEFINE Eqn(f) == f = [k \in 0..1 |-> IF k = 0 THEN 0 ELSE Add(f[k - 1], xs[k])]
             Eqp(f) == f = [k \in 0..1 |-> IF k = 0 THEN d
                               ELSE Div(Mul(f[k - 1], d), Mul(xs[k], n))]
             sum == CHOOSE f : Eqn(f)
             prod == CHOOSE f : Eqp(f)
  <1>1. Eqn([k \in 0..1 |-> IF k = 0 THEN 0 ELSE Add(0, xs[1])])
    OBVIOUS
  <1>2. Eqp([k \in 0..1 |-> IF k = 0 THEN d ELSE Div(Mul(d, d), Mul(xs[1], n))])
    OBVIOUS
  <1>3. Eqn(sum) /\ Eqp(prod)
    BY <1>1, <1>2
  <1>4. SumOf(xs) = sum[1] /\ Product(d, xs, n) = prod[1]
    BY DEF SumOf, Product
  <1> HIDE DEF sum, prod
  <1>5. sum[0] = 0 /\ sum[1] = Add(sum[0], xs[1])
    BY <1>3
  <1>6. prod[0] = d /\ prod[1] = Div(Mul(prod[0], d), Mul(xs[1], n))
    BY <1>3
  <1> QED BY <1>4, <1>5, <1>6

\* d is at most the root of a pool of two coins.
UpTo(amp, d, x, y) == d * (d * d) <= (4 * (x * y)) * ((2 * amp) * (x + y - d) + d)

\* A balance y solved for is at most two units short of the invariant d.
LEMMA SolveLemma ==
    ASSUME NEW self, self.amp \in Nat, NEW xs, Len(xs) = 1, xs[1] \in OptNat,
           NEW d \in OptNat, SolveY(self, 2, xs, d) # None
    PROVE  LET y == SolveY(self, 2, xs, d)
           IN  /\ xs[1] \in Nat /\ xs[1] > 0 /\ d \in Nat /\ y \in Nat /\ self.amp > 0
               /\ UpTo(self.amp, d, xs[1], y + 2)
  <1> DEFINE x == xs[1]
             ann == Ann(self, 2)
             p == Product(d, xs, 2)
             b == Add(SumOf(xs), Div(d, ann))
             c == Div(Mul(p, d), Mul64(ann, 2))
             y == NewtonY(b, c, d)
  <1>1. /\ 0 \in OptNat /\ 2 \in OptNat /\ self.amp \in OptNat
        /\ \A v, w \in OptNat : /\ Add(v, w) \in OptNat /\ Sub(v, w) \in OptNat
                                /\ Mul(v, w) \in OptNat /\ Div(v, w) \in OptNat
                                /\ Mul64(v, w) \in OptNat
    BY AddSubLemma, MulDivLemma, WidthLemma DEF Option, OptNat
  <1>2. SumOf(xs) = Add(0, x) /\ p = Div(Mul(d, d), Mul(x, 2))
    BY SingletonLemma
  <1>3. ann = Mul64(self.amp, 2)
    BY DEF Ann
  <1> HIDE DEF ann, p
  <1>4. ann \in OptNat /\ Mul(d, d) \in OptNat /\ Mul(x, 2) \in OptNat /\ SumOf(xs) \in OptNat
    BY <1>1, <1>2, <1>3
  <1>5. p \in OptNat /\ Div(d, ann) \in OptNat /\ Mul64(ann, 2) \in OptNat
    BY <1>1, <1>2, <1>4
  <1>6. Mul(p, d) \in OptNat
    BY <1>1, <1>5
  <1>7. b \in OptNat /\ c \in OptNat
    BY <1>1, <1>4, <1>5, <1>6
  <1>8. /\ SolveY(self, 2, xs, d) = y /\ y # None
        /\ b # None /\ c # None
    BY Zenon DEF SolveY, AsU128, ann, p
  <1>9. \E z \in Nat : y = StepY(z, b, c, d)
    BY <1>7, <1>8, NewtonYLemma
  <1> HIDE DEF y
  <1>10. PICK z \in Nat : y = StepY(z, b, c, d)
    BY <1>9
  <1> DEFINE t == Div(d, ann)
  <1>11. /\ SumOf(xs) \in Nat /\ t \in Nat /\ b = SumOf(xs) + t /\ b \in Nat
    <2> HIDE DEF t
    <2>1. b # None /\ t \in OptNat /\ b = Add(SumOf(xs), t)
      BY <1>5, <1>8 DEF t
    <2> HIDE DEF b
    <2> QED BY <1>4, <2>1, AddSubLemma
  <1>12. x \in Nat /\ SumOf(xs) = x
    <2>1. Add(0, x) # None
      BY <1>2, <1>11, WidthLemma
    <2> QED BY <1>1, <1>2, <2>1, AddSubLemma
  <1>13. d \in Nat /\ ann \in Nat /\ ann > 0 /\ ann * t <= d
    <2>1. t # None
      BY <1>11, WidthLemma
    <2> QED BY <1>4, <2>1, ExactLemma
  <1> HIDE DEF t
  <1>14. ann = 2 * self.amp /\ self.amp > 0 /\ ann >= 2
    <2>1. Mul(self.amp, 2) = ann
      BY <1>3, <1>13, WidthLemma, Zenon DEF Mul64, TryU64
    <2>2. ann = self.amp * 2
      BY <1>1, <1>13, <2>1, ExactLemma, WidthLemma
    <2> QED BY <1>13, <2>2
  <1>15. c \in Nat /\ Mul(p, d) \in Nat /\ Mul(p, d) = p * d /\ p \in Nat
         /\ p * d < (2 * ann) * c + 2 * ann
    <2> DEFINE m == Mul64(ann, 2)
    <2>1. c # None /\ m \in OptNat /\ c = Div(Mul(p, d), m)
      BY <1>5, <1>8
    <2> HIDE DEF m, c
    <2>2. Mul(p, d) \in Nat /\ m \in Nat /\ m > 0 /\ c \in Nat /\ Mul(p, d) < m * c + m
      BY <1>6, <2>1, ExactLemma
    <2>3. Mul(p, d) = p * d /\ p \in Nat
      BY <1>5, <2>2, ExactLemma, WidthLemma
    <2>4. m = Mul(ann, 2)
      BY <2>2, WidthLemma, Zenon DEF m, Mul64, TryU64
    <2>5. m = ann * 2
      BY <1>1, <1>4, <2>2, <2>4, ExactLemma, WidthLemma
    <2>6. m = 2 * ann
      BY <1>13, <2>5
    <2> QED BY <2>2, <2>3, <2>6
  <1>16. x > 0 /\ d * d < (2 * x) * p + 2 * x
    <2>1. p # None
      BY <1>15, WidthLemma
    <2>2. /\ Mul(d, d) \in Nat /\ Mul(x, 2) \in Nat /\ Mul(x, 2) > 0
          /\ Mul(d, d) < Mul(x, 2) * p + Mul(x, 2)
      BY <1>2, <1>4, <2>1, ExactLemma
    <2>3. Mul(d, d) = d * d
      BY <2>2, ExactLemma, WidthLemma
    <2>4. Mul(x, 2) = x * 2
      BY <1>1, <2>2, ExactLemma, WidthLemma
    <2>5. Mul(x, 2) = 2 * x
      BY <1>12, <2>4
    <2> QED BY <1>12, <2>2, <2>3, <2>5
  <1>17. /\ y \in Nat
         /\ z * z + c < (2 * z + (x + t) - d) * y + (2 * z + (x + t) - d)
    <2> DEFINE num == Add(Mul(z, z), c)
               sum == Add(Mul(z, 2), b)
               den == Sub(sum, d)
    <2> HIDE DEF b, c
    <2>1. z \in OptNat /\ b \in OptNat /\ c \in OptNat
      BY <1>7 DEF OptNat, Option
    <2>2. Mul(z, z) \in OptNat /\ Mul(z, 2) \in OptNat
      BY <1>1, <2>1
    <2>3. num \in OptNat /\ sum \in OptNat
      BY <1>1, <2>1, <2>2
    <2>4. y = Div(num, den)
      BY <1>10 DEF StepY
    <2>5. num \in Nat => num = z * z + c
      <3>1. num \in Nat => Mul(z, z) \in Nat /\ num = Mul(z, z) + c
        BY <2>1, <2>2, AddSubLemma, WidthLemma
      <3>2. Mul(z, z) \in Nat => Mul(z, z) = z * z
        BY <2>1, ExactLemma, WidthLemma
      <3> QED BY <3>1, <3>2
    <2>6. sum \in Nat => sum = 2 * z + b
      <3>1. sum \in Nat => Mul(z, 2) \in Nat /\ sum = Mul(z, 2) + b
        BY <2>1, <2>2, AddSubLemma, WidthLemma
      <3>2. Mul(z, 2) \in Nat => Mul(z, 2) = z * 2
        BY <1>1, <2>1, ExactLemma, WidthLemma
      <3> QED BY <3>1, <3>2
    <2> HIDE DEF sum
    <2>7. den \in OptNat /\ (den \in Nat => sum \in Nat /\ den = sum - d)
      BY <2>3, <1>1, AddSubLemma, WidthLemma, ZenonT(30)
    <2> HIDE DEF num, den
    <2>8. /\ num \in Nat /\ den \in Nat /\ den > 0 /\ y \in Nat
          /\ num < den * y + den
      BY <1>8, <2>3, <2>4, <2>7, ExactLemma
    <2>9. den = 2 * z + (x + t) - d
      BY <1>11, <1>12, <1>13, <2>6, <2>7, <2>8
    <2> QED BY <2>5, <2>8, <2>9
  <1>18. d * (d * d) <= (4 * (x * (y + 2))) * (ann * (x + (y + 2) - d) + d)
    <2> HIDE DEF x, c
    <2> QED BY <1>11, <1>12, <1>13, <1>14, <1>15, <1>16, <1>17, KeptLemma
  <1> QED BY <1>8, <1>12, <1>13, <1>14, <1>16, <1>17, <1>18 DEF UpTo

\* It is symmetric in the coins, and stays so for a smaller d and more coins.
LEMMA UpToLemma ==
    ASSUME NEW amp \in Nat, amp > 0, NEW d \in Nat, NEW x \in Nat, NEW y \in Nat,
           UpTo(amp, d, x, y),
           NEW e \in Nat, e <= d, NEW x2 \in Nat, x <= x2, NEW y2 \in Nat, y <= y2
    PROVE  UpTo(amp, e, x2, y2) /\ UpTo(amp, e, y2, x2)
  <1> DEFINE xy == 4 * (x * y)
             XY == 4 * (x2 * y2)
             k == (2 * amp) * (x + y - d) + d
             K == (2 * amp) * (x2 + y2 - e) + e
  <1>1. xy \in Nat /\ XY \in Nat /\ k \in Int /\ K \in Int
    BY SMT
  <1>2. xy <= XY
    <2>1. x * y <= x2 * y /\ x2 * y <= x2 * y2
      BY ProductLemma
    <2>2. x * y \in Nat /\ x2 * y \in Nat /\ x2 * y2 \in Nat
      BY ProductLemma
    <2> QED BY <2>1, <2>2
  <1>3. d * (d * d) <= xy * k
    BY DEF UpTo
  <1>4. e * (e * e) <= XY * K
    <2>1. CASE e = 0
      <3>1. K = (2 * amp) * (x2 + y2) /\ K \in Nat
        BY <2>1, SMT
      <3> HIDE DEF XY, K
      <3>2. XY * K \in Nat
        BY <1>1, <3>1, SMT
      <3> QED BY <2>1, <3>2
    <2>2. CASE e > 0
      <3>1. e * (e * e) <= d * (d * d)
        <4>1. e * e <= d * d /\ e * e \in Nat /\ d * d \in Nat
          BY SMT
        <4>2. e * (e * e) <= d * (e * e) /\ d * (e * e) <= d * (d * d)
          BY <4>1, SMT
        <4>3. e * (e * e) \in Nat /\ d * (e * e) \in Nat /\ d * (d * d) \in Nat
          BY <4>1, SMT
        <4> QED BY <4>2, <4>3
      <3>2. e * (e * e) \in Nat /\ e * (e * e) > 0 /\ d * (d * d) \in Nat
        <4>1. e * e \in Nat /\ e * e > 0 /\ d * d \in Nat
          BY <2>2, SMT
        <4> QED BY <2>2, <4>1, SMT
      <3>3. k <= K
        <4>1. K - k = (2 * amp) * ((x2 - x) + (y2 - y)) + (2 * amp - 1) * (d - e)
          BY SMT
        <4>2. (2 * amp) * ((x2 - x) + (y2 - y)) \in Nat /\ (2 * amp - 1) * (d - e) \in Nat
          <5>1. 2 * amp \in Nat /\ (x2 - x) + (y2 - y) \in Nat
                /\ 2 * amp - 1 \in Nat /\ d - e \in Nat
            OBVIOUS
          <5> QED BY <5>1, ProductLemma
        <4> HIDE DEF K, k
        <4> QED BY <1>1, <4>1, <4>2
      <3> HIDE DEF xy, XY, k, K
      <3>4. xy * k > 0 /\ xy * k \in Int
        BY <1>1, <1>3, <3>1, <3>2, SMT
      <3>5. k > 0
        BY <1>1, <3>4, SMT
      <3>6. xy * k <= XY * k /\ XY * k <= XY * K
        BY <1>1, <1>2, <3>3, <3>5, SMT
      <3>7. XY * k \in Int /\ XY * K \in Int
        BY <1>1, SMT
      <3> QED BY <1>3, <3>1, <3>2, <3>4, <3>6, <3>7
    <2> QED BY <2>1, <2>2
  <1>5. x2 * y2 = y2 * x2 /\ x2 + y2 = y2 + x2
    BY SMT
  <1> QED BY <1>4, <1>5 DEF UpTo

\* For two coins that is what Below says.
LEMMA BelowTwoLemma ==
    ASSUME NEW self, self.amp \in Nat, NEW b, Pool(b, 2), NEW d \in Nat
    PROVE  Below(self, d, b) <=> UpTo(self.amp, d, b[1], b[2])
  <1>1. Len(b) = 2 /\ b[1] \in Nat /\ b[2] \in Nat
    BY DEF Pool
  <1> DEFINE x == b[1]
             y == b[2]
             P == 4 * (x * y)
             ann == self.amp * 2
  <1>2. Total(b) = x + y
    <2>1. PICK f \in [0..2 -> Nat] : Sums(f, b, 2) /\ Total(b) = f[2]
      BY TotalLemma
    <2>2. f[0] = 0 /\ f[1] = f[0] + b[1] /\ f[2] = f[1] + b[2]
      BY <2>1 DEF Sums
    <2> QED BY <1>1, <2>1, <2>2
  <1>3. Scale(b) = P
    <2>1. PICK f \in [0..2 -> Nat] : Prods(f, b, 2) /\ Scale(b) = f[2]
      BY ScaleLemma
    <2>2. f[0] = 1 /\ f[1] = f[0] * (b[1] * 2) /\ f[2] = f[1] * (b[2] * 2)
      BY <2>1 DEF Prods
    <2>3. f[1] = x * 2 /\ f[2] = (x * 2) * (y * 2)
      BY <1>1, <2>2
    <2>4. (x * 2) * (y * 2) = P
      BY <1>1, SMT
    <2> QED BY <2>1, <2>3, <2>4
  <1>4. Power(d, 3) = d * (d * d)
    <2>1. Power(d, 0) = 1 /\ Power(d, 0 + 1) = d * Power(d, 0)
          /\ Power(d, 1 + 1) = d * Power(d, 1) /\ Power(d, 2 + 1) = d * Power(d, 2)
      BY PowerLemma
    <2> QED BY <2>1
  <1>5. Below(self, d, b) <=> ann * d * P + d * (d * d) <= ann * (x + y) * P + d * P
    <2> HIDE DEF x, y, P
    <2>1. 2 + 1 = 3
      OBVIOUS
    <2> QED BY <1>1, <1>2, <1>3, <1>4, <2>1 DEF Below
  <1>6. P * ((2 * self.amp) * (x + y - d) + d)
            = ann * (x + y) * P + d * P - ann * d * P
    <2> P \in Int /\ x \in Int /\ y \in Int
      BY <1>1, SMT
    <2> HIDE DEF P, x, y
    <2> QED BY SMT
  <1> DEFINE e1 == ann * d * P
             e2 == d * (d * d)
             e3 == ann * (x + y) * P
             e4 == d * P
  <1>7. e1 \in Int /\ e2 \in Int /\ e3 \in Int /\ e4 \in Int
    BY <1>1, SMT
  <1>8. UpTo(self.amp, d, x, y) <=> e2 <= P * ((2 * self.amp) * (x + y - d) + d)
    BY DEF UpTo
  <1> HIDE DEF e1, e2, e3, e4
  <1>9. UpTo(self.amp, d, x, y) <=> e2 <= e3 + e4 - e1
    BY <1>6, <1>8 DEF e1, e3, e4
  <1>10. Below(self, d, b) <=> e1 + e2 <= e3 + e4
    BY <1>5 DEF e1, e2, e3, e4
  <1> QED BY <1>7, <1>9, <1>10

(***************************************************************************)
(* The invariant.                                                          *)
(***************************************************************************)
\* get_d answers a u128 or nothing; a positive answer means that no reserve
\* is empty.
LEMMA GetDLemma ==
    ASSUME NEW self, NEW amounts, NEW d_suggest
    PROVE  LET d == get_d(self, amounts, d_suggest)
           IN  /\ d \in Option(U128)
               /\ d \notin {None, 0} => \A k \in 1..Len(amounts) : amounts[k] # 0
  <1>1. AsU128(NewtonD(self, amounts,
               IF d_suggest = None THEN SumOf(amounts) ELSE d_suggest)) \in Option(U128)
    BY WidthLemma, Zenon
  <1>2. 0 \in U128 /\ 0 # None
    BY WidthAssumption DEF U128, None
  <1> QED BY <1>1, <1>2, Zenon DEF get_d, Option

\* The balance that get_y and get_y_d solve for is a u128 or nothing.
LEMMA GetYLemma ==
    ASSUME NEW self, NEW i, NEW j, NEW x, NEW balances
    PROVE  /\ get_y(self, i, j, x, balances) \in Option(U128)
           /\ get_y_d(self, i, balances, x) \in Option(U128)
  <1>1. None \in Option(U128)
    BY Zenon DEF Option
  <1>2. \A n, xs, d : SolveY(self, n, xs, d) \in Option(U128)
    BY <1>1, WidthLemma, Zenon DEF SolveY
  <1>3. None \in Option(U128)
    BY Zenon DEF Option
  <1> QED BY <1>2, <1>3, Zenon DEF get_y, get_y_d

\* What Curve keeps back is kept: PaidOut leaves at least one unit.
LEMMA PaidOutLemma ==
    ASSUME NEW balance \in OptNat, NEW y \in OptNat
    PROVE  LET dy == PaidOut(balance, y)
           IN  /\ dy \in Option(U128)
               /\ dy # None => balance \in Nat /\ dy < balance
  <1>1. Sub(balance, y) \in OptNat /\ 1 \in OptNat
    BY AddSubLemma, WidthLemma DEF Option, OptNat
  <1>2. /\ Sub(Sub(balance, y), 1) \in Option(U128)
        /\ Sub(Sub(balance, y), 1) # None =>
              /\ Sub(balance, y) \in Nat
              /\ Sub(Sub(balance, y), 1) = Sub(balance, y) - 1
    BY <1>1, AddSubLemma
  <1>3. Sub(balance, y) \in Nat =>
            balance \in Nat /\ y \in Nat /\ Sub(balance, y) = balance - y
    BY AddSubLemma, WidthLemma
  <1> QED BY <1>2, <1>3 DEF PaidOut

(***************************************************************************)
(* D is never below the root.                                              *)
(***************************************************************************)
\* The inequality of the arithmetic and the geometric mean, for n numbers
\* equal to d and one equal to r.
LEMMA MeansLemma ==
    ASSUME NEW r \in Nat, NEW d \in Nat, NEW n \in Nat
    PROVE  (n + 1) * (r * Power(d, n)) <= Power(r, n + 1) + n * Power(d, n + 1)
  <1> DEFINE R(k) == Power(r, k)
             D(k) == Power(d, k)
             Mean(k) == (k + 1) * (r * D(k)) <= R(k + 1) + k * D(k + 1)
             T == {k \in Nat : Mean(k)}
  <1>1. /\ R(0) = 1 /\ \A k \in Nat : R(k) \in Nat /\ R(k + 1) = r * R(k)
        /\ D(0) = 1 /\ \A k \in Nat : D(k) \in Nat /\ D(k + 1) = d * D(k)
    BY PowerLemma
  <1> HIDE DEF R, D
  <1>2. 0 \in T
    <2>1. R(0 + 1) = r /\ D(0 + 1) = d /\ D(0) = 1
      BY <1>1
    <2> QED BY <2>1
  <1>3. ASSUME NEW k \in Nat, k \in T PROVE k + 1 \in T
    <2> DEFINE e == D(k)
               a == R(k + 1)
    <2>1. /\ D(k + 1) = d * e /\ D((k + 1) + 1) = d * (d * e) /\ R((k + 1) + 1) = r * a
          /\ e \in Nat /\ a \in Nat
      BY <1>1
    <2>2. (k + 1) * (r * e) <= a + k * (d * e)
      BY <1>3, <2>1
    <2> HIDE DEF e, a
    <2>3. r * ((k + 1) * (r * e)) <= r * (a + k * (d * e))
      <3>1. (k + 1) * (r * e) \in Int /\ a + k * (d * e) \in Int
        BY <2>1, SMT
      <3> QED BY <2>2, <3>1, SMT
    <2>4. (k + 1) * (e * ((r - d) * (r - d))) >= 0
      <3>1. (r - d) * (r - d) \in Nat
        BY SMT
      <3>2. e * ((r - d) * (r - d)) \in Nat
        BY <2>1, <3>1, ProductLemma
      <3>3. (k + 1) * (e * ((r - d) * (r - d))) \in Nat
        BY <3>2, ProductLemma
      <3> QED BY <3>3
    <2>5. r * a + (k + 1) * (d * (d * e)) - (k + 2) * (r * (d * e))
             = (r * (a + k * (d * e)) - r * ((k + 1) * (r * e)))
                 + (k + 1) * (e * ((r - d) * (r - d)))
      BY <2>1, SMT
    <2> DEFINE x1 == r * a
               x2 == (k + 1) * (d * (d * e))
               x3 == (k + 2) * (r * (d * e))
               x4 == r * (a + k * (d * e))
               x5 == r * ((k + 1) * (r * e))
               x6 == (k + 1) * (e * ((r - d) * (r - d)))
    <2>6. x1 \in Int /\ x2 \in Int /\ x3 \in Int /\ x4 \in Int /\ x5 \in Int /\ x6 \in Int
      BY <2>1, SMT
    <2> HIDE DEF x1, x2, x3, x4, x5, x6
    <2>7. x5 <= x4 /\ x6 >= 0 /\ x1 + x2 - x3 = (x4 - x5) + x6
      BY <2>3, <2>4, <2>5 DEF x1, x2, x3, x4, x5, x6
    <2>8. x3 <= x1 + x2
      BY <2>6, <2>7
    <2>9. (k + 2) * (r * (d * e)) <= r * a + (k + 1) * (d * (d * e))
      BY <2>8 DEF x1, x2, x3
    <2>10. (k + 1) + 1 = k + 2 /\ k + 1 \in Nat
      OBVIOUS
    <2> QED BY <2>1, <2>9, <2>10
  <1>4. n \in T
    BY <1>2, <1>3, InductionLemma
  <1> QED BY <1>4 DEF R, D

\* One round, from any d, is not taken below the root r.
LEMMA RoundLemma ==
    ASSUME NEW n \in Nat, NEW ann \in Nat, NEW S \in Nat, NEW P \in Nat, P > 0,
           NEW d \in Nat, NEW p \in Nat, NEW r \in Nat, NEW e \in Nat, NEW R \in Nat,
           p * P <= d * e,
           (n + 1) * (r * e) <= R + n * (d * e),
           ann * r * P + R <= ann * S * P + r * P
    PROVE  r * ((ann - 1) * d + (n + 1) * p) <= (ann * S + n * p) * d
  <1> DEFINE K == ann * S - (ann - 1) * r
             J == r * (n + 1) - n * d
  <1>1. K \in Int /\ J \in Int
    BY SMT
  <1>2. (ann * S + n * p) * d - r * ((ann - 1) * d + (n + 1) * p) = d * K - p * J
    BY SMT
  <1>3. R <= K * P
    <2>1. K * P = ann * S * P + r * P - ann * r * P
      BY SMT
    <2> DEFINE x1 == ann * S * P
               x2 == r * P
               x3 == ann * r * P
    <2>2. x1 \in Int /\ x2 \in Int /\ x3 \in Int
      BY SMT
    <2> HIDE DEF x1, x2, x3, K
    <2>3. x3 + R <= x1 + x2 /\ K * P = x1 + x2 - x3
      BY <2>1 DEF x1, x2, x3
    <2> QED BY <2>2, <2>3
  <1>4. e * J <= R
    <2>1. e * J = (n + 1) * (r * e) - n * (d * e)
      BY SMT
    <2> DEFINE x1 == (n + 1) * (r * e)
               x2 == n * (d * e)
    <2>2. x1 \in Int /\ x2 \in Int
      BY SMT
    <2> HIDE DEF x1, x2, J
    <2>3. x1 <= R + x2 /\ e * J = x1 - x2
      BY <2>1 DEF x1, x2
    <2> QED BY <2>2, <2>3
  <1> HIDE DEF K, J
  <1>5. K >= 0
    BY <1>1, <1>3, SMT
  <1>6. p * J <= d * K
    <2>1. CASE J <= 0
      <3>1. p * J <= 0 /\ d * K >= 0 /\ p * J \in Int /\ d * K \in Int
        BY <1>1, <1>5, <2>1, SMT
      <3> QED BY <3>1
    <2>2. CASE J > 0
      <3>1. (p * P) * J <= (d * e) * J
        <4>1. p * P \in Nat /\ d * e \in Nat /\ J \in Nat
          BY <1>1, <2>2, SMT
        <4> QED BY <4>1, SMT
      <3>2. d * (e * J) <= d * (K * P)
        <4>1. e * J \in Int /\ K * P \in Int
          BY <1>1, SMT
        <4>2. e * J <= K * P
          BY <1>3, <1>4, <4>1
        <4> QED BY <4>1, <4>2, SMT
      <3>3. (p * P) * J = P * (p * J) /\ (d * e) * J = d * (e * J) /\ d * (K * P) = P * (d * K)
        BY <1>1, SMT
      <3>4. p * J \in Int /\ d * K \in Int /\ P * (p * J) \in Int /\ P * (d * K) \in Int
            /\ d * (e * J) \in Int
        BY <1>1, SMT
      <3>5. P * (p * J) <= P * (d * K)
        BY <3>1, <3>2, <3>3, <3>4
      <3> QED BY <3>4, <3>5, SMT
    <2> QED BY <1>1, <2>1, <2>2
  <1> DEFINE x1 == (ann * S + n * p) * d
             x2 == r * ((ann - 1) * d + (n + 1) * p)
             x3 == d * K
             x4 == p * J
  <1>7. x1 \in Int /\ x2 \in Int /\ x3 \in Int /\ x4 \in Int
    BY <1>1, SMT
  <1> HIDE DEF x1, x2, x3, x4
  <1>8. x1 - x2 = x3 - x4 /\ x4 <= x3
    BY <1>2, <1>6 DEF x1, x2, x3, x4
  <1>9. x2 <= x1
    BY <1>7, <1>8
  <1> QED BY <1>9 DEF x1, x2

\* A product of positive balances is positive, and a power of a positive number.
LEMMA PositiveLemma ==
    ASSUME NEW b, NEW n, Pool(b, n)
    PROVE  /\ Scale(b) \in Nat /\ Total(b) \in Nat
           /\ n > 0 /\ (\A k \in 1..n : b[k] > 0) => Scale(b) > 0
           /\ n > 0 /\ Total(b) = 0 => Scale(b) = 0
           /\ \A d \in Nat : d > 0 => Power(d, n) > 0
  <1>1. n \in Nat /\ \A k \in 1..n : b[k] \in Nat
    BY DEF Pool
  <1>2. PICK f \in [0..n -> Nat] : Sums(f, b, n) /\ Total(b) = f[n]
    BY TotalLemma
  <1>3. PICK g \in [0..n -> Nat] : Prods(g, b, n) /\ Scale(b) = g[n]
    BY ScaleLemma
  <1>4. n \in 0..n
    BY <1>1
  <1>5. ASSUME n > 0, \A k \in 1..n : b[k] > 0 PROVE g[n] > 0
    <2> DEFINE T == {k \in Nat : k <= n => g[k] > 0}
    <2>1. 0 \in T
      BY <1>3 DEF Prods
    <2>2. ASSUME NEW k \in Nat, k \in T PROVE k + 1 \in T
      <3>1. SUFFICES ASSUME k + 1 <= n PROVE g[k + 1] > 0
        OBVIOUS
      <3>2. k + 1 \in 1..n /\ k \in 0..n /\ (k + 1) - 1 = k /\ k <= n
        BY <1>1, <3>1
      <3> DEFINE x == b[k + 1]
                 v == g[k]
      <3>3. g[k + 1] = v * (x * n) /\ v \in Nat /\ v > 0 /\ x \in Nat /\ x > 0
        BY <1>1, <1>3, <1>5, <2>2, <3>2 DEF Prods
      <3> HIDE DEF x, v
      <3>4. x * 0 < x * n /\ x * n \in Nat /\ x * 0 = 0
        BY <1>1, <1>5, <3>3, ProductLemma
      <3>5. v * 0 < v * (x * n) /\ v * 0 = 0
        BY <3>3, <3>4, ProductLemma
      <3> QED BY <3>3, <3>5
    <2>3. Nat \subseteq T
      BY <2>1, <2>2, InductionLemma
    <2> QED BY <1>1, <2>3
  <1>6. ASSUME n > 0, f[n] = 0 PROVE g[n] = 0
    <2>1. n \in 1..n /\ n - 1 \in 0..n
      BY <1>1, <1>6
    <2>2. f[n] = f[n - 1] + b[n] /\ g[n] = g[n - 1] * (b[n] * n)
      BY <1>2, <1>3, <2>1 DEF Sums, Prods
    <2>3. b[n] = 0 /\ g[n - 1] \in Nat
      BY <1>1, <1>6, <2>1, <2>2
    <2> QED BY <1>1, <2>2, <2>3, SMT
  <1>7. ASSUME NEW d \in Nat, d > 0 PROVE Power(d, n) > 0
    <2> DEFINE T == {k \in Nat : Power(d, k) > 0}
    <2>1. 0 \in T
      BY PowerLemma
    <2>2. ASSUME NEW k \in Nat, k \in T PROVE k + 1 \in T
      <3> DEFINE v == Power(d, k)
      <3>1. Power(d, k + 1) = d * v /\ v \in Nat /\ v > 0
        BY <2>2, PowerLemma
      <3> HIDE DEF v
      <3>2. d * 0 < d * v /\ d * 0 = 0
        BY <1>7, <3>1, ProductLemma
      <3> QED BY <3>1, <3>2
    <2> QED BY <1>1, <2>1, <2>2, InductionLemma
  <1> QED BY <1>2, <1>3, <1>4, <1>5, <1>6, <1>7

\* What a round of the iteration for D computes, when nothing overflows.
LEMMA StepDExactLemma ==
    ASSUME NEW self, self.amp \in Nat, NEW b, NEW n, Pool(b, n), n > 0,
           \A k \in 1..n : b[k] > 0, NEW d \in Nat, StepD(self, b, d) # None
    PROVE  LET ann == self.amp * n
               p == Product(d, b, n)
               den == (ann - 1) * d + (n + 1) * p
               num == (ann * Total(b) + n * p) * d
               next == StepD(self, b, d)
           IN  /\ ann \in Nat /\ ann > 0 /\ p \in Nat /\ next \in Nat
               /\ p * Scale(b) <= Power(d, n + 1)
               /\ den \in Nat /\ num \in Nat /\ den > 0
               /\ den * next <= num /\ num < den * next + den
  <1> DEFINE ann == Ann(self, n)
             p == Product(d, b, n)
             s == SumOf(b)
             as == Mul(ann, s)
             pn == Mul(p, n)
             top == Mul(Add(as, pn), d)
             less == Mul(d, Sub(ann, 1))
             bottom == Add(less, Add(p, pn))
             next == StepD(self, b, d)
  <1>1. n \in Nat /\ n \in OptNat /\ d \in OptNat /\ self.amp \in OptNat /\ 1 \in OptNat
    BY DEF Pool, OptNat, Option
  <1>2. /\ ann \in OptNat /\ p \in OptNat /\ s \in OptNat
        /\ as \in OptNat /\ pn \in OptNat /\ Add(as, pn) \in OptNat /\ top \in OptNat
        /\ Sub(ann, 1) \in OptNat /\ less \in OptNat /\ Add(p, pn) \in OptNat
        /\ bottom \in OptNat /\ next = Div(top, bottom)
    <2> HIDE DEF ann, p, s, next
    <2>1. /\ Ann(self, n) \in OptNat /\ Product(d, b, n) \in OptNat /\ SumOf(b) \in OptNat
          /\ Mul(Ann(self, n), SumOf(b)) \in OptNat /\ Mul(Product(d, b, n), n) \in OptNat
          /\ Add(Mul(Ann(self, n), SumOf(b)), Mul(Product(d, b, n), n)) \in OptNat
          /\ Mul(Add(Mul(Ann(self, n), SumOf(b)), Mul(Product(d, b, n), n)), d) \in OptNat
          /\ Sub(Ann(self, n), 1) \in OptNat /\ Mul(d, Sub(Ann(self, n), 1)) \in OptNat
          /\ Add(Product(d, b, n), Mul(Product(d, b, n), n)) \in OptNat
          /\ Add(Mul(d, Sub(Ann(self, n), 1)),
                 Add(Product(d, b, n), Mul(Product(d, b, n), n))) \in OptNat
          /\ StepD(self, b, d) =
                Div(Mul(Add(Mul(Ann(self, n), SumOf(b)), Mul(Product(d, b, n), n)), d),
                    Add(Mul(d, Sub(Ann(self, n), 1)),
                        Add(Product(d, b, n), Mul(Product(d, b, n), n))))
      BY <1>1, StepDLemma
    <2> QED BY <2>1 DEF ann, p, s, next
  <1>3. p # None => p * Scale(b) <= Power(d, n + 1)
    BY <1>1, QuotientsLemma
  <1>4. s # None => s = Total(b)
    BY SumOfLemma
  <1>5. ann \in Nat => ann = self.amp * n
    <2>1. ann = Mul64(self.amp, n)
      BY DEF Ann
    <2>2. ann \in Nat => ann = Mul(self.amp, n)
      BY <2>1, WidthLemma, Zenon DEF Mul64, TryU64
    <2> HIDE DEF ann
    <2>3. Mul(self.amp, n) # None => Mul(self.amp, n) = self.amp * n
      BY <1>1, ExactLemma
    <2> QED BY <2>2, <2>3, WidthLemma
  <1> HIDE DEF ann, p, s, next
  <1> HIDE DEF as, pn, top, less, bottom
  <1>6. /\ top \in Nat /\ bottom \in Nat /\ bottom > 0 /\ next \in Nat
        /\ bottom * next <= top /\ top < bottom * next + bottom
    BY <1>2, ExactLemma DEF next
  <1>7. top = Add(as, pn) * d /\ Add(as, pn) \in Nat
    BY <1>1, <1>2, <1>6, ExactLemma, WidthLemma, ZenonT(30) DEF top
  <1>8. as \in Nat /\ pn \in Nat /\ Add(as, pn) = as + pn
    BY <1>2, <1>7, AddSubLemma, WidthLemma
  <1>9. as = ann * s /\ ann \in Nat /\ s \in Nat
    BY <1>2, <1>8, ExactLemma, WidthLemma DEF as
  <1>10. pn = p * n /\ p \in Nat
    BY <1>1, <1>2, <1>8, ExactLemma, WidthLemma DEF pn
  <1>11. less \in Nat /\ Add(p, pn) \in Nat /\ bottom = less + Add(p, pn)
    BY <1>2, <1>6, AddSubLemma, WidthLemma DEF bottom
  <1>12. Add(p, pn) = p + pn
    BY <1>2, <1>11, AddSubLemma, WidthLemma
  <1>13. less = d * Sub(ann, 1) /\ Sub(ann, 1) \in Nat
    BY <1>1, <1>2, <1>11, ExactLemma, WidthLemma DEF less
  <1>14. Sub(ann, 1) = ann - 1 /\ ann > 0
    <2>1. 1 <= ann /\ Sub(ann, 1) = ann - 1
      BY <1>1, <1>2, <1>13, AddSubLemma, WidthLemma
    <2> QED BY <1>9, <2>1
  <1> DEFINE den == (ann - 1) * d + (n + 1) * p
             num == (ann * s + n * p) * d
  <1>15. bottom = den
    <2>1. bottom = d * (ann - 1) + (p + p * n)
      BY <1>10, <1>11, <1>12, <1>13, <1>14
    <2> QED BY <1>1, <1>9, <1>10, <2>1, SMT
  <1>16. top = num
    <2>1. top = (ann * s + p * n) * d
      BY <1>7, <1>8, <1>9, <1>10
    <2> QED BY <1>1, <1>9, <1>10, <2>1, SMT
  <1>17. s = Total(b) /\ ann = self.amp * n /\ p * Scale(b) <= Power(d, n + 1)
    BY <1>3, <1>4, <1>5, <1>9, <1>10, WidthLemma
  <1> HIDE DEF num, den
  <1>18. /\ ann \in Nat /\ ann > 0 /\ p \in Nat /\ next \in Nat
         /\ den \in Nat /\ num \in Nat /\ den > 0
         /\ den * next <= num /\ num < den * next + den
    BY <1>6, <1>9, <1>10, <1>14, <1>15, <1>16
  <1> QED BY <1>17, <1>18 DEF num, den, p, next

\* The curves a contract can have: both fields are u64.
Curves == [amp : U64, fee_numerator : U64]

\* D is not below the root, however get_d came to it and from whatever guess.
LEMMA AboveRootLemma ==
    ASSUME NEW self \in Curves, NEW b, NEW n, Pool(b, n), n > 0, NEW d_suggest \in OptNat,
           get_d(self, b, d_suggest) # None, NEW r \in Nat, Below(self, r, b)
    PROVE  r <= get_d(self, b, d_suggest)
  <1> DEFINE start == IF d_suggest = None THEN SumOf(b) ELSE d_suggest
             d == get_d(self, b, d_suggest)
             last == NewtonD(self, b, start)
  <1>1. n \in Nat /\ Len(b) = n /\ self.amp \in Nat
    BY WidthLemma DEF Pool, Curves
  <1>2. /\ SumOf(b) # None
        /\ SumOf(b) = 0 => d = 0
        /\ SumOf(b) # 0 => /\ \A k \in 1..n : b[k] # 0
                           /\ d = last /\ last # None
    BY <1>1, Zenon DEF get_d, AsU128
  <1>3. SumOf(b) = Total(b)
    BY <1>2, SumOfLemma
  <1>4. Scale(b) \in Nat /\ Total(b) \in Nat
    BY PositiveLemma
  <1> DEFINE ann == self.amp * n
             S == Total(b)
             P == Scale(b)
             R == Power(r, n + 1)
  <1>5. ann * r * P + R <= ann * S * P + r * P
    BY <1>1 DEF Below
  <1>6. R \in Nat /\ ann \in Nat
    <2>1. n + 1 \in Nat
      BY <1>1
    <2>2. R \in Nat
      BY <2>1, PowerLemma
    <2>3. ann \in Nat
      BY <1>1, ProductLemma
    <2> QED BY <2>2, <2>3
  <1>7. CASE SumOf(b) = 0
    <2>1. P = 0 /\ S = 0
      BY <1>3, <1>7, PositiveLemma
    <2>2. R <= 0
      <3> HIDE DEF ann, P, R
      <3> QED BY <1>1, <1>5, <1>6, <2>1 DEF S
    <2>3. r = 0
      <3>1. SUFFICES ASSUME r > 0 PROVE FALSE
        OBVIOUS
      <3>2. Power(r, n) > 0 /\ R = r * Power(r, n) /\ Power(r, n) \in Nat
        BY <1>1, <3>1, PositiveLemma, PowerLemma
      <3>3. r * 0 < r * Power(r, n) /\ r * 0 = 0
        BY <3>1, <3>2, ProductLemma
      <3> HIDE DEF R
      <3> QED BY <2>2, <3>2, <3>3
    <2> QED BY <1>2, <1>7, <2>3
  <1>8. CASE SumOf(b) # 0
    <2>1. \A k \in 1..n : b[k] > 0
      BY <1>2, <1>8 DEF Pool
    <2>2. P > 0
      BY <2>1, PositiveLemma
    <2>3. start \in OptNat /\ OptNat \in SUBSET OptNat
      BY SumOfLemma
    <2>4. \A v \in OptNat \ {None} : StepD(self, b, v) \in OptNat
      BY <1>1, <2>1, StepDLemma
    <2>5. \E z \in OptNat \ {None} : last = StepD(self, b, z)
      BY <1>1, <1>2, <1>8, <2>1, <2>3, <2>4, NewtonDLemma
    <2>6. PICK z \in Nat : last = StepD(self, b, z)
      BY <2>5 DEF OptNat, Option
    <2> DEFINE p == Product(z, b, n)
               den == (ann - 1) * z + (n + 1) * p
               num == (ann * S + n * p) * z
    <2> HIDE DEF last
    <2>7. /\ ann > 0 /\ p \in Nat /\ last \in Nat /\ p * P <= Power(z, n + 1)
          /\ den \in Nat /\ num \in Nat /\ den > 0 /\ num < den * last + den
      BY <1>1, <1>2, <1>8, <2>1, <2>6, StepDExactLemma
    <2> DEFINE e == Power(z, n)
    <2>8. e \in Nat /\ Power(z, n + 1) = z * e
          /\ (n + 1) * (r * e) <= R + n * (z * e)
      BY <1>1, PowerLemma, MeansLemma, ZenonT(30)
    <2>9. r * den <= num
      <3>1. p * P <= z * e
        BY <2>7, <2>8
      <3> HIDE DEF p, P, S, R, e, ann
      <3>2. P \in Nat /\ S \in Nat
        BY <1>4 DEF P, S
      <3> QED BY <1>1, <1>5, <1>6, <2>2, <2>7, <2>8, <3>1, <3>2, RoundLemma
    <2> HIDE DEF den, num
    <2>10. r <= last
      <3>1. SUFFICES ASSUME last + 1 <= r PROVE FALSE
        BY <2>7
      <3>2. den * (last + 1) <= den * r /\ den * (last + 1) = den * last + den
            /\ den * r = r * den
        BY <2>7, <3>1, ProductLemma, SMT
      <3>3. den * last \in Nat /\ r * den \in Nat
        BY <2>7, ProductLemma
      <3> QED BY <2>7, <2>9, <3>2, <3>3
    <2> QED BY <1>2, <1>8, <2>10
  <1> QED BY <1>7, <1>8

(***************************************************************************)
(* D exists, where no product on the way to it is too large.               *)
(***************************************************************************)
\* The product is at least the sum, in a pool of several coins.
LEMMA ScaleSumLemma ==
    ASSUME NEW b, NEW n, Pool(b, n), n >= 2, \A k \in 1..n : b[k] > 0
    PROVE  Scale(b) >= n * Total(b) /\ Total(b) > 0 /\ \A k \in 1..n : b[k] <= Total(b)
  <1>1. n \in Nat /\ \A k \in 1..n : b[k] \in Nat /\ b[k] > 0
    BY DEF Pool
  <1>2. PICK f \in [0..n -> Nat] : Sums(f, b, n) /\ Total(b) = f[n]
    BY TotalLemma
  <1>3. PICK g \in [0..n -> Nat] : Prods(g, b, n) /\ Scale(b) = g[n]
    BY ScaleLemma
  <1> DEFINE Large(k) == /\ f[k] > 0 /\ g[k] >= n * f[k]
                         /\ \A l \in 1..k : b[l] <= f[k]
             T == {k \in Nat : k + 1 <= n => Large(k + 1)}
  <1>4. 0 \in T
    <2>1. 1 \in 1..n /\ 1 - 1 = 0 /\ 1 \in 0..n /\ 1..1 = {1}
      BY <1>1
    <2>2. f[1] = b[1] /\ g[1] = 1 * (b[1] * n)
      BY <1>1, <1>2, <1>3, <2>1 DEF Sums, Prods
    <2> DEFINE x == b[1]
    <2>3. x \in Nat /\ x > 0 /\ 1 * (x * n) = n * x
      BY <1>1, <2>1, SMT
    <2>4. Large(1)
      BY <1>1, <2>1, <2>2, <2>3
    <2> QED BY <2>4
  <1>5. ASSUME NEW k \in Nat, k \in T PROVE k + 1 \in T
    <2>1. SUFFICES ASSUME (k + 1) + 1 <= n PROVE Large((k + 1) + 1)
      OBVIOUS
    <2> DEFINE j == k + 1
               m == j + 1
    <2>2. /\ m \in 1..n /\ m - 1 = j /\ j \in 0..n /\ j \in 1..n /\ m \in 0..n
          /\ 1..m = (1..j) \cup {m}
      BY <1>1, <2>1
    <2>3. Large(j)
      BY <1>1, <1>5, <2>1
    <2> HIDE DEF m, j
    <2> DEFINE s == f[j]
               p == g[j]
               x == b[m]
    <2>4. f[m] = s + x /\ g[m] = p * (x * n) /\ s \in Nat /\ p \in Nat /\ x \in Nat /\ x > 0
      BY <1>1, <1>2, <1>3, <2>2 DEF Sums, Prods
    <2>5. s > 0 /\ p >= n * s
      BY <2>3
    <2> HIDE DEF s, p, x
    <2>6. p * (x * n) >= n * (s + x)
      <3> DEFINE u == n * s
                 v == x * n
      <3>1. u \in Nat /\ v \in Nat /\ n * (s + x) = u + v
        BY <1>1, <2>4, SMT
      <3>2. u >= 2 /\ v >= 2
        <4>1. 1 <= s /\ 1 <= x
          BY <2>4, <2>5
        <4>2. n * 1 <= n * s /\ n * 1 <= n * x /\ n * 1 = n /\ n * x = x * n
          BY <1>1, <2>4, <4>1, ProductLemma
        <4> QED BY <1>1, <3>1, <4>2
      <3>3. v * u <= v * p /\ v * p = p * v
        BY <2>4, <2>5, <3>1, ProductLemma
      <3> HIDE DEF u, v
      <3>4. v * u >= u + v
        BY <3>1, <3>2, SMT
      <3>5. v * u \in Nat /\ v * p \in Nat
        BY <2>4, <3>1, ProductLemma
      <3>6. p * v >= u + v
        BY <3>1, <3>3, <3>4, <3>5
      <3> QED BY <3>1, <3>6 DEF v
    <2>7. \A l \in 1..j : b[l] <= s
      BY <2>3 DEF s
    <2>8. \A l \in 1..m : b[l] <= s + x
      <3> SUFFICES ASSUME NEW l \in 1..m PROVE b[l] <= s + x
        OBVIOUS
      <3>1. CASE l \in 1..j
        <4>1. b[l] \in Nat /\ b[l] <= s
          BY <1>1, <2>2, <2>7, <3>1
        <4> QED BY <2>4, <4>1
      <3>2. CASE l = m
        BY <2>4, <3>2 DEF x
      <3> QED BY <2>2, <3>1, <3>2
    <2>9. f[m] > 0 /\ g[m] >= n * f[m] /\ \A l \in 1..m : b[l] <= f[m]
      BY <2>4, <2>5, <2>6, <2>8
    <2> QED BY <2>9 DEF j, m
  <1>6. Nat \subseteq T
    BY <1>4, <1>5, InductionLemma
  <1>7. n - 1 \in Nat /\ (n - 1) + 1 = n
    BY <1>1
  <1>8. Large(n)
    <2>1. n - 1 \in T
      BY <1>6, <1>7
    <2>2. (n - 1) + 1 <= n => Large((n - 1) + 1)
      BY <2>1
    <2> HIDE DEF Large
    <2> QED BY <1>1, <1>7, <2>2
  <1> QED BY <1>2, <1>3, <1>8

\* A power is larger of a larger number.
LEMMA PowerGrowsLemma ==
    ASSUME NEW x \in Nat, NEW y \in Nat, x <= y, NEW n \in Nat
    PROVE  Power(x, n) <= Power(y, n)
  <1> DEFINE T == {k \in Nat : Power(x, k) <= Power(y, k)}
  <1>1. 0 \in T
    BY PowerLemma
  <1>2. ASSUME NEW k \in Nat, k \in T PROVE k + 1 \in T
    <2> DEFINE u == Power(x, k)
               v == Power(y, k)
    <2>1. /\ Power(x, k + 1) = x * u /\ Power(y, k + 1) = y * v
          /\ u \in Nat /\ v \in Nat /\ u <= v
      BY <1>2, PowerLemma
    <2> HIDE DEF u, v
    <2>2. x * u <= x * v /\ v * x <= v * y /\ v * x = x * v /\ v * y = y * v
          /\ x * u \in Nat /\ x * v \in Nat /\ y * v \in Nat
      BY <2>1, ProductLemma
    <2> QED BY <2>1, <2>2
  <1>3. Nat \subseteq T
    BY <1>1, <1>2, InductionLemma
  <1> QED BY <1>3

\* One round keeps d between 1 and twice the sum s.
LEMMA RoundStaysLemma ==
    ASSUME NEW n \in Nat, n >= 2, NEW ann \in Nat, ann >= 2, NEW s \in Nat, s > 0,
           NEW P \in Nat, P >= n * s, NEW d \in Nat, d > 0, d <= 2 * s,
           NEW p \in Nat, d = 1 => p * P <= 1
    PROVE  LET den == (ann - 1) * d + (n + 1) * p
               num == (ann * s + n * p) * d
           IN  /\ den \in Nat /\ num \in Nat /\ den > 0
               /\ den <= num /\ num <= den * (2 * s)
  <1> DEFINE a == (ann - 1) * d
             q == (n + 1) * p
             A == (ann * s) * d
             Q == (n * p) * d
  <1>1. a \in Nat /\ q \in Nat /\ A \in Nat /\ Q \in Nat
    <2>1. ann - 1 \in Nat /\ n + 1 \in Nat
      OBVIOUS
    <2>2. ann * s \in Nat /\ n * p \in Nat
      BY ProductLemma
    <2> QED BY <2>1, <2>2, ProductLemma
  <1>2. (ann * s + n * p) * d = A + Q
    BY SMT
  <1>3. a > 0 /\ a <= A
    <2>1. 1 <= ann - 1 /\ 1 <= s /\ 1 <= d /\ ann - 1 \in Nat
      OBVIOUS
    <2>2. d * 1 <= d * (ann - 1) /\ d * (ann - 1) = a /\ d * 1 = d
      BY <2>1, ProductLemma
    <2>3. ann * 1 <= ann * s /\ ann * 1 = ann /\ ann * s \in Nat
      BY <2>1, ProductLemma
    <2>4. d * (ann - 1) <= d * (ann * s) /\ d * (ann * s) = A
      <3>1. ann - 1 <= ann * s
        BY <2>3
      <3> QED BY <2>1, <2>3, <3>1, ProductLemma
    <2> HIDE DEF a, A
    <2> QED BY <1>1, <2>1, <2>2, <2>4
  <1>4. q <= Q
    <2>1. CASE d = 1
      <3>1. p = 0
        <4>1. SUFFICES ASSUME p >= 1 PROVE FALSE
          OBVIOUS
        <4>2. n * 1 <= n * s /\ n * 1 = n /\ n * s \in Nat
          BY ProductLemma
        <4>3. P * 1 <= P * p /\ P * p = p * P /\ P * 1 = P /\ P * p \in Nat
          BY <4>1, ProductLemma
        <4> QED BY <2>1, <4>2, <4>3
      <3> QED BY <1>1, <3>1, SMT
    <2>2. CASE d >= 2
      <3>1. n + 1 <= n * d
        <4>1. n * 2 <= n * d /\ n * d \in Nat
          BY <2>2, ProductLemma
        <4> QED BY <4>1
      <3>2. p * (n + 1) <= p * (n * d) /\ p * (n + 1) = q /\ p * (n * d) = Q
        <4>1. n * d \in Nat /\ n + 1 \in Nat
          BY ProductLemma
        <4>2. p * (n + 1) <= p * (n * d)
          BY <3>1, <4>1, ProductLemma
        <4>3. p * (n + 1) = q /\ p * (n * d) = Q
          BY SMT
        <4> QED BY <4>2, <4>3
      <3> HIDE DEF q, Q
      <3> QED BY <3>2
    <2> QED BY <2>1, <2>2
  <1>5. A <= a * (2 * s)
    <2>1. ann <= 2 * (ann - 1) /\ 2 * (ann - 1) \in Nat
      OBVIOUS
    <2>2. (s * d) * ann <= (s * d) * (2 * (ann - 1)) /\ s * d \in Nat
      BY <2>1, ProductLemma
    <2>3. (s * d) * ann = A /\ (s * d) * (2 * (ann - 1)) = a * (2 * s)
      BY SMT
    <2> HIDE DEF a, A
    <2> QED BY <2>2, <2>3
  <1>6. Q <= q * (2 * s)
    <2>1. (n * p) * d <= (n * p) * (2 * s) /\ n * p \in Nat
      BY ProductLemma
    <2>2. n * p <= q
      BY SMT
    <2>3. (2 * s) * (n * p) <= (2 * s) * q /\ (2 * s) * (n * p) = (n * p) * (2 * s)
          /\ (2 * s) * q = q * (2 * s)
      BY <1>1, <2>1, <2>2, ProductLemma
    <2>4. (n * p) * (2 * s) \in Nat /\ q * (2 * s) \in Nat
      BY <1>1, <2>1, ProductLemma
    <2> HIDE DEF q
    <2> QED BY <1>1, <2>1, <2>3, <2>4
  <1>7. (a + q) * (2 * s) = a * (2 * s) + q * (2 * s)
    <2> HIDE DEF a, q
    <2> QED BY <1>1, SMT
  <1> HIDE DEF A, Q, a, q
  <1>8. a * (2 * s) \in Nat /\ q * (2 * s) \in Nat
    BY <1>1, ProductLemma
  <1>9. /\ a + q \in Nat /\ A + Q \in Nat /\ a + q > 0
        /\ a + q <= A + Q /\ A + Q <= (a + q) * (2 * s)
    BY <1>1, <1>3, <1>4, <1>5, <1>6, <1>7, <1>8
  <1> QED BY <1>2, <1>9 DEF a, q

\* The sum is at least each balance, and at most n times what bounds them all.
LEMMA TotalBoundsLemma ==
    ASSUME NEW b, NEW n, Pool(b, n), NEW c \in Nat
    PROVE  /\ \A k \in 1..n : b[k] <= Total(b)
           /\ (\A k \in 1..n : b[k] <= c) => Total(b) <= n * c
  <1>1. n \in Nat /\ \A k \in 1..n : b[k] \in Nat
    BY DEF Pool
  <1>2. PICK f \in [0..n -> Nat] : Sums(f, b, n) /\ Total(b) = f[n]
    BY TotalLemma
  <1>3. /\ f[0] = 0
        /\ \A k \in Nat : k + 1 <= n => /\ k + 1 \in 1..n /\ f[k] \in Nat
                                        /\ f[k + 1] = f[k] + b[k + 1]
    <2>1. \A k \in Nat : k + 1 <= n => k + 1 \in 1..n /\ (k + 1) - 1 = k /\ k \in 0..n
      BY <1>1
    <2> QED BY <1>2, <2>1 DEF Sums
  <1> DEFINE T == {k \in Nat : k <= n => \A l \in 1..k : b[l] <= f[k]}
             U == {k \in Nat : k <= n => f[k] <= k * c}
  <1>4. 0 \in T /\ (\A k \in Nat : k \in T => k + 1 \in T)
    <2>1. 0 \in T
      OBVIOUS
    <2>2. ASSUME NEW k \in Nat, k \in T, k + 1 <= n, NEW l \in 1..(k + 1)
          PROVE  b[l] <= f[k + 1]
      <3>1. f[k] \in Nat /\ b[k + 1] \in Nat /\ f[k + 1] = f[k] + b[k + 1]
        BY <1>1, <1>3, <2>2
      <3>2. CASE l = k + 1
        BY <3>1, <3>2
      <3>3. CASE l # k + 1
        <4>1. l \in 1..k /\ k <= n /\ l \in 1..n
          BY <1>1, <2>2, <3>3
        <4>2. b[l] <= f[k] /\ b[l] \in Nat
          BY <1>1, <2>2, <4>1
        <4> QED BY <3>1, <4>2
      <3> QED BY <3>2, <3>3
    <2> QED BY <2>1, <2>2
  <1>5. ASSUME \A k \in 1..n : b[k] <= c
        PROVE  0 \in U /\ (\A k \in Nat : k \in U => k + 1 \in U)
    <2>1. 0 \in U
      BY <1>3
    <2>2. ASSUME NEW k \in Nat, k \in U, k + 1 <= n
          PROVE  f[k + 1] <= (k + 1) * c
      <3>1. f[k] \in Nat /\ f[k + 1] = f[k] + b[k + 1] /\ b[k + 1] \in Nat /\ b[k + 1] <= c
        BY <1>1, <1>3, <1>5, <2>2
      <3>2. f[k] <= k * c
        BY <1>1, <2>2
      <3>3. (k + 1) * c = k * c + c /\ k * c \in Nat
        BY SMT
      <3> QED BY <3>1, <3>2, <3>3
    <2> QED BY <2>1, <2>2
  <1>6. \A k \in 1..n : b[k] <= Total(b)
    <2>1. n \in T
      <3> HIDE DEF T
      <3> QED BY <1>1, <1>4, InductionLemma
    <2> QED BY <1>1, <1>2, <2>1
  <1>7. (\A k \in 1..n : b[k] <= c) => Total(b) <= n * c
    <2>1. (\A k \in 1..n : b[k] <= c) => n \in U
      <3> HIDE DEF U
      <3> QED BY <1>1, <1>5, InductionLemma
    <2> QED BY <1>1, <1>2, <2>1
  <1> QED BY <1>6, <1>7

\* What is asked of a pool for D to be found: no product on the way exceeds u128
\* when no number is larger than most, which twice the sum is not.
Fits(self, b, n, most) ==
    /\ most \in Nat /\ 2 * Total(b) <= most /\ \A k \in 1..n : b[k] * n <= most
    /\ self.amp * n >= 2 /\ self.amp * n < Two64
    /\ (self.amp * n) * (most * most) + 2 * Power(most, n + 1) <= U128Max

\* A round from a d between 1 and twice the sum succeeds, and stays there.
LEMMA StepDStaysLemma ==
    ASSUME NEW self, self.amp \in Nat, NEW b, NEW n, Pool(b, n), n >= 2,
           \A k \in 1..n : b[k] > 0, NEW most, Fits(self, b, n, most),
           NEW d \in 1..(2 * Total(b))
    PROVE  StepD(self, b, d) \in 1..(2 * Total(b))
  <1> DEFINE ann == self.amp * n
             s == Total(b)
             P == Scale(b)
             p == Product(d, b, n)
             d1 == Power(d, n + 1)
             m1 == Power(most, n + 1)
             den == (ann - 1) * d + (n + 1) * p
             num == (ann * s + n * p) * d
  <1>1. /\ n \in Nat /\ n + 1 \in Nat /\ n > 0 /\ most \in Nat
        /\ \A k \in 1..n : b[k] \in Nat /\ b[k] > 0
    BY DEF Pool, Fits
  <1>2. /\ s \in Nat /\ s > 0 /\ P \in Nat /\ P >= n * s
    BY <1>1, ScaleSumLemma, PositiveLemma
  <1>3. /\ ann \in Nat /\ ann >= 2 /\ ann < Two64 /\ 2 * s <= most
        /\ ann * (most * most) + 2 * m1 <= U128Max
        /\ \A k \in 1..n : b[k] * n <= most
    BY <1>1, ProductLemma DEF Fits
  <1>4. d \in Nat /\ d > 0 /\ d <= 2 * s /\ d <= most
    BY <1>1, <1>2, <1>3
  <1>5. d1 \in Nat /\ m1 \in Nat /\ d1 <= m1
    BY <1>1, <1>4, PowerLemma, PowerGrowsLemma
  <1>6. d = 1 => d1 = 1
    <2> DEFINE T == {k \in Nat : Power(1, k) = 1}
    <2>1. 0 \in T
      BY PowerLemma
    <2>2. ASSUME NEW k \in Nat, k \in T PROVE k + 1 \in T
      BY <2>2, PowerLemma
    <2>3. Nat \subseteq T
      BY <2>1, <2>2, InductionLemma
    <2> QED BY <1>1, <2>3
  <1> HIDE DEF s, P, p, d1, m1, ann
  <1>7. /\ ann * (most * most) \in Nat /\ most <= ann * (most * most)
        /\ m1 <= U128Max /\ most <= U128Max /\ s <= U128Max
    <2>1. most * most \in Nat /\ most <= most * most
      <3>1. most * 1 <= most * most /\ most * 1 = most /\ most * most \in Nat
        <4>1. 1 <= most
          BY <1>1, <1>2, <1>3
        <4> QED BY <1>1, <4>1, ProductLemma
      <3> QED BY <3>1
    <2> DEFINE mm == most * most
    <2> HIDE DEF mm
    <2>2. mm \in Nat /\ mm * 1 <= mm * ann /\ mm * ann = ann * mm /\ ann * mm \in Nat
          /\ mm * 1 = mm
      <3>1. mm \in Nat /\ 1 <= ann
        BY <1>3, <2>1 DEF mm
      <3> QED BY <1>3, <3>1, ProductLemma
    <2>3. most <= mm /\ ann * mm + 2 * m1 <= U128Max
      BY <1>3, <2>1 DEF mm
    <2>4. ann * mm \in Nat /\ most <= ann * mm /\ m1 <= U128Max /\ most <= U128Max
          /\ s <= U128Max
      BY <1>1, <1>2, <1>3, <1>5, <2>2, <2>3, WidthAssumption
    <2> QED BY <2>4 DEF mm
  <1>8. p \in Nat /\ p * P <= d1
    <2>1. d \in OptNat
      BY <1>4 DEF OptNat, Option
    <2>2. d1 <= U128Max /\ \A k \in 1..n : b[k] * n <= U128Max
      <3>1. \A k \in 1..n : b[k] * n \in Nat
        BY <1>1, ProductLemma
      <3> QED BY <1>1, <1>3, <1>5, <1>7, <3>1, WidthAssumption
    <2>3. p \in OptNat /\ p # None /\ p * P <= d1
      BY <1>1, <1>4, <2>1, <2>2, QuotientsLemma DEF p, P, d1
    <2> QED BY <2>3 DEF OptNat, Option
  <1>9. /\ den \in Nat /\ num \in Nat /\ den > 0
        /\ den <= num /\ num <= den * (2 * s)
    <2>1. d = 1 => p * P <= 1
      BY <1>6, <1>8
    <2> QED BY <1>1, <1>2, <1>3, <1>4, <1>8, <2>1, RoundStaysLemma
  <1>10. num <= U128Max
    <2> DEFINE A == ann * (s * d)
               Q == (n * p) * d
               np == n * s
    <2>1. num = A + Q
      BY <1>1, <1>2, <1>3, <1>4, <1>8, SMT
    <2>2. A \in Nat /\ A <= ann * (most * most)
      <3>1. s * d \in Nat /\ most * most \in Nat
        BY <1>1, <1>2, <1>4, ProductLemma
      <3>2. s * d <= s * most /\ s * most = most * s /\ most * s <= most * most
            /\ s * most \in Nat
        <4>1. s <= most
          BY <1>1, <1>2, <1>3
        <4> QED BY <1>1, <1>2, <1>4, <4>1, ProductLemma
      <3>3. s * d <= most * most
        BY <3>1, <3>2
      <3> QED BY <1>3, <3>1, <3>3, ProductLemma
    <2>3. Q \in Nat /\ Q <= 2 * m1
      <3>1. n * p \in Nat /\ np \in Nat /\ p * P \in Nat
        BY <1>1, <1>2, <1>8, ProductLemma
      <3>2. (n * p) * d <= (n * p) * (2 * s) /\ Q \in Nat
        BY <1>2, <1>4, <3>1, ProductLemma
      <3>3. (n * p) * (2 * s) = 2 * (p * np)
        BY <1>1, <1>2, <1>8, SMT
      <3>4. p * np <= p * P /\ p * np \in Nat
        BY <1>2, <1>8, <3>1, ProductLemma
      <3> HIDE DEF Q, np
      <3>5. (n * p) * d = Q
        BY DEF Q
      <3> QED BY <1>5, <1>8, <3>1, <3>2, <3>3, <3>4, <3>5
    <2> HIDE DEF A, Q, num
    <2> QED BY <1>3, <1>5, <1>7, <2>1, <2>2, <2>3, WidthAssumption
  <1>11. StepD(self, b, d) = num \div den
    <2>1. Ann(self, n) = ann
      <3>1. self.amp \in OptNat /\ n \in OptNat /\ self.amp * n <= U128Max
        BY <1>1, <1>3, WidthAssumption DEF OptNat, Option, ann
      <3>2. Mul(self.amp, n) = ann
        BY <1>1, <3>1, ExactLemma DEF ann
      <3>3. ann \in U64
        BY <1>3, WidthAssumption DEF U64
      <3> QED BY <3>2, <3>3 DEF Ann, Mul64, TryU64
    <2>2. SumOf(b) = s
      BY <1>7, SumOfLemma DEF s
    <2>3. \A u, v \in Nat : /\ u * v <= U128Max => Mul(u, v) = u * v
                            /\ u + v <= U128Max => Add(u, v) = u + v
                            /\ v > 0 => Div(u, v) = u \div v
      <3> SUFFICES ASSUME NEW u \in Nat, NEW v \in Nat
                   PROVE  /\ u * v <= U128Max => Mul(u, v) = u * v
                          /\ u + v <= U128Max => Add(u, v) = u + v
                          /\ v > 0 => Div(u, v) = u \div v
        OBVIOUS
      <3>1. u \in OptNat /\ v \in OptNat
        BY DEF OptNat, Option
      <3>2. u + v <= U128Max => Add(u, v) = u + v
        BY WidthAssumption DEF Add, AsU128, U128, None
      <3> QED BY <3>1, <3>2, ExactLemma
    <2>4. Sub(ann, 1) = ann - 1
      BY <1>3, WidthAssumption DEF Sub, AsU128, U128, None
    <2> DEFINE annS == ann * s
               pn == p * n
               top == annS + pn
               less == d * (ann - 1)
               more == p + pn
    <2>5. /\ annS \in Nat /\ pn \in Nat /\ top \in Nat /\ less \in Nat /\ more \in Nat
          /\ top * d = num /\ less + more = den
      <3>1. annS \in Nat /\ pn \in Nat /\ ann - 1 \in Nat
        BY <1>1, <1>2, <1>3, <1>8, ProductLemma
      <3>2. less \in Nat
        BY <1>4, <3>1, ProductLemma
      <3>3. top * d = num /\ less + more = den
        BY <1>1, <1>2, <1>3, <1>4, <1>8, SMT
      <3> QED BY <1>8, <3>1, <3>2, <3>3
    <2> HIDE DEF num, den
    <2>6. top <= U128Max /\ top * d <= U128Max /\ less + more <= U128Max
      <3>1. top * 1 <= top * d /\ top * 1 = top
        <4>1. 1 <= d
          BY <1>4
        <4> HIDE DEF top
        <4> QED BY <1>4, <2>5, <4>1, ProductLemma
      <3> HIDE DEF top, less, more
      <3> QED BY <1>9, <1>10, <2>5, <3>1, WidthAssumption
    <2>7. annS <= U128Max /\ pn <= U128Max /\ less <= U128Max /\ more <= U128Max
      <3> HIDE DEF annS, pn, less, more
      <3>1. annS \in Nat /\ pn \in Nat /\ less \in Nat /\ more \in Nat
        BY <2>5
      <3>2. annS + pn <= U128Max /\ less + more <= U128Max
        BY <2>6
      <3>3. \A u, v, w \in Nat : u + v <= w => u <= w /\ v <= w
        OBVIOUS
      <3>4. U128Max \in Nat
        BY WidthAssumption
      <3>5. annS <= U128Max /\ pn <= U128Max
        BY <3>1, <3>2, <3>3, <3>4
      <3>6. less <= U128Max /\ more <= U128Max
        BY <3>1, <3>2, <3>3, <3>4
      <3> QED BY <3>5, <3>6
    <2>8. Mul(ann, s) = annS /\ Mul(p, n) = pn /\ Mul(d, ann - 1) = less
      <3>1. ann - 1 \in Nat
        BY <1>3
      <3> QED BY <1>1, <1>2, <1>3, <1>4, <1>8, <2>3, <2>7, <3>1
    <2> HIDE DEF annS, pn, less
    <2>9. Add(annS, pn) = top /\ Add(p, pn) = more
      BY <1>8, <2>3, <2>5, <2>6, <2>7
    <2> HIDE DEF top, more
    <2>10. Mul(top, d) = num /\ Add(less, more) = den /\ Div(num, den) = num \div den
      BY <1>4, <1>9, <2>3, <2>5, <2>6
    <2>11. Len(b) = n
      BY DEF Pool
    <2>12. StepD(self, b, d) =
              Div(Mul(Add(Mul(ann, s), Mul(p, n)), d),
                  Add(Mul(d, Sub(ann, 1)), Add(p, Mul(p, n))))
      BY <2>1, <2>2, <2>11 DEF StepD, p
    <2> QED BY <2>4, <2>8, <2>9, <2>10, <2>12
  <1> DEFINE q == num \div den
  <1> HIDE DEF num, den
  <1>12. q \in Nat /\ den * q <= num /\ num < den * q + den
    BY <1>9, DivLemma
  <1>13. q <= 2 * s
    <2>1. den * q <= den * (2 * s) /\ 2 * s \in Nat
      <3>1. 2 * s \in Nat
        BY <1>2
      <3>2. den * q \in Nat /\ den * (2 * s) \in Nat
        BY <1>9, <1>12, <3>1, ProductLemma
      <3> QED BY <1>9, <1>12, <3>1, <3>2
    <2> QED BY <1>9, <1>12, <2>1, ProductLemma
  <1>14. q >= 1
    <2>1. SUFFICES ASSUME q = 0 PROVE FALSE
      BY <1>12
    <2> QED BY <1>9, <1>12, <2>1, SMT
  <1>15. q \in 1..(2 * s)
    <2> HIDE DEF q
    <2> QED BY <1>2, <1>12, <1>13, <1>14
  <1> QED BY <1>11, <1>15 DEF q, s

\* Of such a pool there is a D, and of an empty one it is 0.
LEMMA FoundDLemma ==
    ASSUME NEW self, self.amp \in Nat, NEW b, NEW n, Pool(b, n), n >= 2,
           NEW most, Fits(self, b, n, most),
           (\A k \in 1..n : b[k] > 0) \/ (\A k \in 1..n : b[k] = 0)
    PROVE  get_d(self, b, None) # None
  <1> DEFINE s == Total(b)
             last == NewtonD(self, b, SumOf(b))
  <1>1. n \in Nat /\ n > 0 /\ Len(b) = n /\ \A k \in 1..n : b[k] \in Nat
    BY DEF Pool
  <1>2. s \in Nat /\ 2 * s <= U128Max
    <2>1. s \in Nat
      BY <1>1, PositiveLemma
    <2>2. /\ most \in Nat /\ 2 * s <= most /\ self.amp * n >= 2 /\ self.amp * n \in Nat
          /\ (self.amp * n) * (most * most) + 2 * Power(most, n + 1) <= U128Max
          /\ Power(most, n + 1) \in Nat /\ n + 1 \in Nat
      <3>1. most \in Nat /\ n + 1 \in Nat
        BY <1>1 DEF Fits
      <3>2. Power(most, n + 1) \in Nat
        BY <3>1, PowerLemma
      <3>3. self.amp * n \in Nat
        BY <1>1, ProductLemma
      <3> QED BY <3>1, <3>2, <3>3 DEF Fits
    <2> DEFINE ann == self.amp * n
               mm == most * most
               m1 == Power(most, n + 1)
    <2> HIDE DEF ann, mm, m1, s
    <2>3. mm \in Nat /\ most <= mm
      <3>1. CASE most = 0
        BY <3>1 DEF mm
      <3>2. CASE most >= 1
        <4>1. most * 1 <= most * most /\ most * 1 = most /\ most * most \in Nat
          BY <2>2, <3>2, ProductLemma
        <4> QED BY <4>1 DEF mm
      <3> QED BY <2>2, <3>1, <3>2
    <2>4. mm * 1 <= mm * ann /\ mm * ann = ann * mm /\ mm * 1 = mm /\ ann * mm \in Nat
      <3>1. ann \in Nat /\ 1 <= ann
        BY <2>2 DEF ann
      <3> QED BY <2>3, <3>1, ProductLemma
    <2>5. ann * mm + 2 * m1 <= U128Max /\ m1 \in Nat
      BY <2>2 DEF ann, mm, m1
    <2> QED BY <2>1, <2>2, <2>3, <2>4, <2>5, WidthAssumption
  <1>3. SumOf(b) = s
    BY <1>2, SumOfLemma, WidthAssumption
  <1> HIDE DEF s
  <1>4. CASE s = 0
    BY <1>3, <1>4 DEF get_d, None
  <1>5. CASE s # 0
    <2>1. \A k \in 1..n : b[k] > 0
      <3>1. ASSUME \A k \in 1..n : b[k] = 0 PROVE s = 0
        <4>1. PICK f \in [0..n -> Nat] : Sums(f, b, n) /\ Total(b) = f[n]
          BY TotalLemma
        <4> DEFINE T == {k \in Nat : k <= n => f[k] = 0}
        <4>2. 0 \in T
          BY <4>1 DEF Sums
        <4>3. ASSUME NEW k \in Nat, k \in T PROVE k + 1 \in T
          <5>1. SUFFICES ASSUME k + 1 <= n PROVE f[k + 1] = 0
            OBVIOUS
          <5>2. k + 1 \in 1..n /\ (k + 1) - 1 = k /\ k <= n
            BY <1>1, <5>1
          <5> QED BY <3>1, <4>1, <4>3, <5>2 DEF Sums
        <4>4. Nat \subseteq T
          BY <4>2, <4>3, InductionLemma
        <4> QED BY <1>1, <4>1, <4>4 DEF s
      <3> QED BY <1>5, <3>1
    <2> DEFINE I == 1..(2 * s)
    <2>2. s \in I /\ I \in SUBSET OptNat /\ s \in OptNat /\ None \notin I
      BY <1>2, <1>5 DEF OptNat, Option, None
    <2>3. \A v \in I : StepD(self, b, v) \in I
      BY <2>1, StepDStaysLemma DEF s
    <2>4. last \in I
      <3> HIDE DEF I
      <3>1. \A v \in I \ {None} : StepD(self, b, v) \in I
        BY <2>3
      <3> QED BY <1>1, <1>3, <2>1, <2>2, <3>1, NewtonDLemma
    <2>5. last \in U128
      <3> HIDE DEF last
      <3> QED BY <1>2, <2>4, WidthAssumption DEF U128
    <2>6. /\ SumOf(b) # None /\ SumOf(b) # 0
          /\ ~ \E k \in 1..Len(b) : b[k] = 0
      <3>1. s # None
        BY <1>2 DEF None
      <3>2. \A k \in 1..n : b[k] # 0
        BY <1>1, <2>1
      <3> QED BY <1>1, <1>3, <1>5, <3>1, <3>2
    <2>7. get_d(self, b, None) = AsU128(last)
      BY <2>6, Zenon DEF get_d
    <2> HIDE DEF last
    <2>8. AsU128(last) = last /\ last # None
      BY <2>5, WidthLemma DEF AsU128
    <2> QED BY <2>7, <2>8
  <1> QED BY <1>4, <1>5

(***************************************************************************)
(* The operations.                                                         *)
(***************************************************************************)
\* A swap pays out less than the reserve it pays from.
LEMMA ExchangeLemma ==
    ASSUME NEW self \in Curves, NEW i, NEW j, NEW in_amount, NEW balances,
           balances[j] \in OptNat
    PROVE  LET out == exchange(self, i, j, in_amount, balances)
           IN  /\ out \in Option(U128)
               /\ out # None => balances[j] \in Nat /\ out < balances[j]
  <1> DEFINE y == get_y(self, i, j, Add(balances[i], in_amount), balances)
             dy == PaidOut(balances[j], y)
             dy_fee == Div(Mul(dy, self.fee_numerator), FEE_DENOMINATOR)
  <1>1. y \in OptNat
    BY GetYLemma, WidthLemma DEF Option, OptNat
  <1>2. dy \in Option(U128) /\ (dy # None => balances[j] \in Nat /\ dy < balances[j])
    BY <1>1, PaidOutLemma
  <1> HIDE DEF y, dy
  <1>3. dy \in OptNat /\ self.fee_numerator \in OptNat /\ FEE_DENOMINATOR \in OptNat
    BY <1>2, WidthLemma, CurveAssumption DEF Option, OptNat, Curves
  <1>4. dy_fee \in OptNat
    BY <1>3, MulDivLemma
  <1> HIDE DEF dy_fee
  <1>5. /\ Sub(dy, dy_fee) \in Option(U128)
        /\ Sub(dy, dy_fee) # None =>
              dy \in Nat /\ dy_fee \in Nat /\ Sub(dy, dy_fee) = dy - dy_fee
    BY <1>3, <1>4, AddSubLemma
  <1>6. exchange(self, i, j, in_amount, balances) = Sub(dy, dy_fee)
    BY Zenon DEF exchange, y, dy, dy_fee
  <1> QED BY <1>2, <1>5, <1>6, WidthLemma

\* A pool that something is swapped in has some of every coin.
LEMMA ExchangedLemma ==
    ASSUME NEW self \in Curves, NEW b, NEW n, Pool(b, n), NEW i, NEW j \in 1..n,
           NEW in_amount, exchange(self, i, j, in_amount, b) # None
    PROVE  \A k \in 1..n : b[k] > 0
  <1> DEFINE d == get_d(self, b, None)
             y == get_y(self, i, j, Add(b[i], in_amount), b)
             dy == PaidOut(b[j], y)
             dy_fee == Div(Mul(dy, self.fee_numerator), FEE_DENOMINATOR)
             out == exchange(self, i, j, in_amount, b)
  <1>1. Len(b) = n /\ \A k \in 1..n : b[k] \in Nat /\ b[k] \in OptNat
    BY DEF Pool, OptNat, Option
  <1>2. b[j] > 0
    <2>1. out \in Option(U128) /\ out < b[j] /\ out # None
      BY <1>1, ExchangeLemma
    <2> HIDE DEF out
    <2>2. out \in Nat
      BY <2>1, WidthLemma DEF Option
    <2> QED BY <1>1, <2>1, <2>2
  <1>3. d # None
    <2>1. d = None => y = None
      BY Zenon DEF get_y
    <2>2. \A u, v : u = None \/ v = None => Sub(u, v) = None
      BY Zenon DEF Sub
    <2>3. y = None => dy = None
      BY <2>2, Zenon DEF PaidOut
    <2>4. out = Sub(dy, dy_fee)
      BY Zenon DEF exchange
    <2> QED BY <2>1, <2>2, <2>3, <2>4
  <1>4. SumOf(b) # 0
    <2>1. SumOf(b) # None => SumOf(b) = Total(b)
      BY SumOfLemma
    <2>2. Total(b) \in Nat /\ b[j] <= Total(b)
      BY PositiveLemma, TotalBoundsLemma
    <2> QED BY <1>1, <1>2, <2>1, <2>2 DEF None
  <1>5. ~ \E k \in 1..Len(b) : b[k] = 0
    BY <1>3, <1>4, Zenon DEF get_d
  <1> QED BY <1>1, <1>5

\* A deposit mints a u64, and none unless every reserve ends up non-empty.
LEMMA DepositLemma ==
    ASSUME NEW self, NEW old_balances, NEW new_balances, NEW lp_token_total
    PROVE  LET minted == deposit(self, old_balances, new_balances, lp_token_total)
           IN  /\ minted \in Option(U64)
               /\ minted # None =>
                     \A k \in 1..Len(new_balances) : new_balances[k] # 0
  <1> DEFINE d_0 == get_d(self, old_balances, None)
             d_1 == get_d(self, new_balances, None)
             minted == deposit(self, old_balances, new_balances, lp_token_total)
  <1>1. d_0 \in Option(U128) /\ d_1 \in Option(U128)
    BY GetDLemma
  <1>2. d_1 \notin {None, 0} => \A k \in 1..Len(new_balances) : new_balances[k] # 0
    BY GetDLemma
  <1>3. minted \in Option(U64)
    BY WidthLemma, Zenon DEF deposit, Minted, Option
  <1>4. minted # None => ~(None \in {d_0, d_1} \/ d_1 <= d_0)
    BY Zenon DEF deposit, Minted
  <1> HIDE DEF d_0, d_1
  <1>5. minted # None => d_1 \notin {None, 0}
    BY <1>1, <1>4, WidthLemma DEF Option, None
  <1> QED BY <1>2, <1>3, <1>5

\* A withdrawal in one coin pays out less than the reserve of that coin.
LEMMA RemoveSingleLemma ==
    ASSUME NEW self \in Curves, NEW old_balances, NEW unmint_amount, NEW i,
           NEW lp_total_supply,
           Len(old_balances) \in Nat \ {0}, i \in 1..Len(old_balances),
           old_balances[i] \in Nat
    PROVE  LET out == remove_liquidity_single_token(self, old_balances,
                          unmint_amount, i, lp_total_supply)
           IN  /\ out \in Option(U64)
               /\ out # None => out < old_balances[i]
  <1> DEFINE n_coins == Len(old_balances)
             d0 == get_d(self, old_balances, None)
             d1 == Sub(d0, Div(Mul(unmint_amount, d0), lp_total_supply))
             new_y == get_y_d(self, i, old_balances, d1)
             fee == ImbalanceFee(self, n_coins)
             scaled(k) == Div(Mul(old_balances[k], d1), d0)
             dx_expected(k) == IF k = i THEN Sub(scaled(k), new_y)
                                        ELSE Sub(old_balances[k], scaled(k))
             reduced(k) == Sub(old_balances[k],
                               Div(Mul(fee, dx_expected(k)), FEE_DENOMINATOR))
             xp_reduced == [k \in 1..n_coins |-> reduced(k)]
             y == get_y_d(self, i, xp_reduced, d1)
             out == remove_liquidity_single_token(self, old_balances,
                        unmint_amount, i, lp_total_supply)
  <1>1. new_y \in OptNat /\ y \in OptNat
    BY GetYLemma, WidthLemma DEF Option, OptNat
  <1>2. fee \in OptNat
    <2>1. self.fee_numerator \in U64
      BY Zenon DEF Curves
    <2>2. self.fee_numerator \in OptNat /\ n_coins \in OptNat /\ 4 \in OptNat
          /\ n_coins - 1 \in OptNat
      <3> HIDE DEF n_coins
      <3>1. n_coins \in Nat \ {0}
        BY DEF n_coins
      <3>2. n_coins \in Nat /\ n_coins - 1 \in Nat /\ 4 \in Nat
        BY <3>1
      <3>3. self.fee_numerator \in Nat
        BY <2>1, WidthLemma, Zenon
      <3> QED BY <3>2, <3>3, Zenon DEF OptNat, Option
    <2>3. Div(Mul64(self.fee_numerator, n_coins), 4) \in OptNat
      BY <2>2, MulDivLemma
    <2> QED BY <2>2, <2>3, MulDivLemma DEF ImbalanceFee
  <1>3. dx_expected(i) \in OptNat
    <2>1. \A a, b : Sub(a, b) \in OptNat
      BY WidthLemma, Zenon DEF Sub, Option, OptNat
    <2> QED BY <2>1, Zenon
  <1> HIDE DEF fee, dx_expected
  <1>4. Div(Mul(fee, dx_expected(i)), FEE_DENOMINATOR) \in OptNat
    <2>1. FEE_DENOMINATOR \in OptNat
      BY CurveAssumption DEF Option, OptNat
    <2> QED BY <1>2, <1>3, <2>1, MulDivLemma
  <1> DEFINE cut == Div(Mul(fee, dx_expected(i)), FEE_DENOMINATOR)
  <1> HIDE DEF cut
  <1>5. /\ reduced(i) \in OptNat
        /\ reduced(i) # None => reduced(i) \in Nat /\ reduced(i) <= old_balances[i]
    <2>1. reduced(i) = Sub(old_balances[i], cut) /\ cut \in OptNat
      BY <1>4 DEF cut
    <2>2. old_balances[i] \in OptNat
      BY DEF Option, OptNat
    <2> HIDE DEF reduced
    <2>3. /\ Sub(old_balances[i], cut) \in Option(U128)
          /\ Sub(old_balances[i], cut) # None =>
                cut \in Nat /\ Sub(old_balances[i], cut) = old_balances[i] - cut
                /\ cut <= old_balances[i]
      BY <2>1, <2>2, AddSubLemma
    <2> QED BY <2>1, <2>3, WidthLemma DEF Option, OptNat
  <1> HIDE DEF reduced
  <1>6. xp_reduced[i] = reduced(i)
    OBVIOUS
  <1> HIDE DEF y, xp_reduced
  <1>7. /\ PaidOut(xp_reduced[i], y) \in Option(U128)
        /\ PaidOut(xp_reduced[i], y) # None =>
              xp_reduced[i] \in Nat /\ PaidOut(xp_reduced[i], y) < xp_reduced[i]
    BY <1>1, <1>5, <1>6, PaidOutLemma
  <1>8. out = TryU64(PaidOut(xp_reduced[i], y))
    BY Zenon DEF remove_liquidity_single_token, y, xp_reduced, reduced, fee, dx_expected
  <1> HIDE DEF out
  <1>9. out \in Option(U64) /\ (out # None => out = PaidOut(xp_reduced[i], y))
    BY <1>8, WidthLemma, Zenon DEF TryU64
  <1>10. out # None => out < old_balances[i]
    <2>1. SUFFICES ASSUME out # None PROVE out < old_balances[i]
      OBVIOUS
    <2>2. out \in Nat
      BY <1>9, <2>1, WidthLemma DEF Option
    <2>3. xp_reduced[i] \in Nat /\ out < xp_reduced[i]
      BY <1>7, <1>9, <2>1
    <2>4. xp_reduced[i] <= old_balances[i]
      BY <1>5, <1>6, <2>3, WidthLemma
    <2> QED BY <2>2, <2>3, <2>4
  <1> QED BY <1>9, <1>10 DEF out

(***************************************************************************)
(* What is taken from a pool of two coins.                                 *)
(***************************************************************************)
\* Leaving out one of two coins leaves the other.
LEMMA RemoveOneLemma ==
    ASSUME NEW b, NEW V, b \in Seq(V), Len(b) = 2, NEW j \in 1..2
    PROVE  Len(RemoveAt(b, j)) = 1 /\ RemoveAt(b, j)[1] = b[3 - j]
  <1>1. 0 \in Nat /\ 1 \in 1..Len(b) /\ 2 \in 1..Len(b)
    OBVIOUS
  <1>2. CASE j = 1
    <2>1. RemoveAt(b, j) = SubSeq(b, 1, 0) \o SubSeq(b, 2, 2)
      BY <1>2 DEF RemoveAt
    <2>2. /\ SubSeq(b, 1, 0) \in Seq(V) /\ Len(SubSeq(b, 1, 0)) = 0
          /\ SubSeq(b, 2, 2) \in Seq(V) /\ Len(SubSeq(b, 2, 2)) = 1
          /\ SubSeq(b, 2, 2)[1] = b[2]
      BY <1>1, SubSeqProperties
    <2> QED BY <1>2, <2>1, <2>2, ConcatProperties
  <1>3. CASE j = 2
    <2>1. RemoveAt(b, j) = SubSeq(b, 1, 1) \o SubSeq(b, 3, 2)
      BY <1>3 DEF RemoveAt
    <2>2. /\ SubSeq(b, 1, 1) \in Seq(V) /\ Len(SubSeq(b, 1, 1)) = 1
          /\ SubSeq(b, 3, 2) \in Seq(V) /\ Len(SubSeq(b, 3, 2)) = 0
          /\ SubSeq(b, 1, 1)[1] = b[1]
      BY <1>1, SubSeqProperties
    <2> QED BY <1>3, <2>1, <2>2, ConcatProperties
  <1> QED BY <1>2, <1>3

\* A swap pays out at most one unit more than keeps every d up to the pool's D
\* at most the root.
LEMMA SwapOnCurveLemma ==
    ASSUME NEW self \in Curves, NEW balances, Pool(balances, 2), balances \in Seq(Nat),
           NEW i \in 1..2, NEW j \in 1..2, i # j, NEW in_amount \in Nat,
           exchange(self, i, j, in_amount, balances) # None
    PROVE  LET d == get_d(self, balances, None)
               dy == exchange(self, i, j, in_amount, balances)
           IN  /\ d \in Nat /\ dy \in Nat /\ self.amp > 0
               /\ \A e \in 0..d : \A x, y \in Nat :
                     x >= balances[i] + in_amount /\ y >= balances[j] - dy + 1 =>
                        UpTo(self.amp, e, x, y)
  <1> DEFINE x == Add(balances[i], in_amount)
             d == get_d(self, balances, None)
             xs == [k \in 1..2 |-> IF k = i THEN x ELSE balances[k]]
             rest == RemoveAt(xs, j)
             y == get_y(self, i, j, x, balances)
             dy == PaidOut(balances[j], y)
             dy_fee == Div(Mul(dy, self.fee_numerator), FEE_DENOMINATOR)
             out == exchange(self, i, j, in_amount, balances)
  <1>1. Len(balances) = 2 /\ balances[i] \in Nat /\ balances[j] \in Nat
        /\ balances[i] \in OptNat /\ balances[j] \in OptNat /\ in_amount \in OptNat
        /\ self.amp \in Nat /\ self.fee_numerator \in OptNat
    BY WidthLemma DEF Pool, OptNat, Option, Curves
  <1>2. x \in OptNat /\ (x \in Nat => x = balances[i] + in_amount)
    BY <1>1, AddSubLemma, WidthLemma DEF OptNat, Option
  <1>3. d \in OptNat
    BY GetDLemma, WidthLemma DEF OptNat, Option
  <1>4. y \in OptNat
    BY GetYLemma, WidthLemma DEF OptNat, Option
  <1>5. out = Sub(dy, dy_fee)
    BY Zenon DEF exchange
  <1>6. y = IF d = None THEN None ELSE SolveY(self, 2, rest, d)
    BY <1>1, Zenon DEF get_y
  <1>7. Len(rest) = 1 /\ rest[1] = x
    <2>1. xs \in Seq(Nat \cup {x}) /\ Len(xs) = 2 /\ 3 - j = i /\ xs[i] = x
      <3> HIDE DEF x
      <3> QED BY <1>1
    <2> HIDE DEF xs
    <2> QED BY <2>1, RemoveOneLemma
  <1> HIDE DEF x, y, d, rest
  <1>8. dy \in Option(U128) /\ (dy # None => dy \in Nat /\ y \in Nat /\ dy = balances[j] - y - 1)
    <2>1. Sub(balances[j], y) \in OptNat /\ 1 \in OptNat
      BY <1>1, <1>4, AddSubLemma, WidthLemma DEF Option, OptNat
    <2>2. Sub(balances[j], y) \in Nat => y \in Nat /\ Sub(balances[j], y) = balances[j] - y
      BY <1>1, <1>4, AddSubLemma, WidthLemma
    <2>3. /\ dy \in Option(U128)
          /\ dy # None => Sub(balances[j], y) \in Nat /\ dy = Sub(balances[j], y) - 1
      BY <2>1, AddSubLemma DEF PaidOut
    <2> HIDE DEF dy
    <2> QED BY <2>2, <2>3, WidthLemma DEF Option
  <1> HIDE DEF dy
  <1>9. dy_fee \in OptNat /\ dy \in OptNat
    <2>1. dy \in OptNat /\ FEE_DENOMINATOR \in OptNat
      BY <1>8, CurveAssumption, WidthLemma DEF OptNat, Option
    <2>2. Mul(dy, self.fee_numerator) \in OptNat
      BY <1>1, <2>1, MulDivLemma
    <2> QED BY <2>1, <2>2, MulDivLemma
  <1> HIDE DEF dy_fee
  <1>10. dy \in Nat /\ dy_fee \in Nat /\ out = dy - dy_fee /\ out \in Nat
    <2>1. dy \in Nat /\ dy_fee \in Nat /\ out = dy - dy_fee /\ out \in Option(U128)
      BY <1>5, <1>9, AddSubLemma
    <2> HIDE DEF out
    <2> QED BY <2>1, WidthLemma DEF Option, out
  <1>11. y \in Nat /\ dy = balances[j] - y - 1
    BY <1>8, <1>10, WidthLemma
  <1>12. d # None /\ y = SolveY(self, 2, rest, d) /\ SolveY(self, 2, rest, d) # None
    BY <1>6, <1>11, WidthLemma
  <1>13. x \in Nat /\ d \in Nat /\ self.amp > 0 /\ UpTo(self.amp, d, x, y + 2)
    <2>1. rest[1] \in OptNat
      BY <1>2, <1>7
    <2> QED BY <1>1, <1>3, <1>7, <1>12, <2>1, SolveLemma
  <1>14. ASSUME NEW e \in 0..d, NEW x2 \in Nat, NEW y2 \in Nat,
                x2 >= balances[i] + in_amount, y2 >= balances[j] - out + 1
         PROVE  UpTo(self.amp, e, x2, y2)
    <2>1. e \in Nat /\ e <= d /\ x <= x2 /\ y + 2 <= y2 /\ y + 2 \in Nat
      <3> HIDE DEF out
      <3>1. e \in Nat /\ e <= d
        BY <1>13
      <3>2. x <= x2
        BY <1>2, <1>13, <1>14
      <3>3. out <= dy
        BY <1>10
      <3>4. y + 2 <= y2 /\ y + 2 \in Nat
        <4> DEFINE w == balances[j]
        <4>1. w \in Nat /\ y \in Nat /\ out \in Nat /\ out <= w - y - 1
          BY <1>1, <1>10, <1>11, <3>3
        <4>2. y2 >= w - out + 1
          BY <1>14
        <4> HIDE DEF w
        <4> QED BY <4>1, <4>2
      <3> QED BY <3>1, <3>2, <3>4
    <2> QED BY <1>1, <1>13, <2>1, UpToLemma
  <1> HIDE DEF out
  <1> QED BY <1>10, <1>13, <1>14 DEF d, out

\* So does a withdrawal in one coin, for what is left of D.
LEMMA SingleOnCurveLemma ==
    ASSUME NEW self \in Curves, NEW balances, Pool(balances, 2), balances \in Seq(Nat),
           NEW i \in 1..2, NEW amount \in Nat, NEW supply \in Nat,
           remove_liquidity_single_token(self, balances, amount, i, supply) # None
    PROVE  LET d == get_d(self, balances, None)
               dy == remove_liquidity_single_token(self, balances, amount, i, supply)
           IN  /\ d \in Nat /\ dy \in Nat /\ self.amp > 0
               /\ \A e \in Nat : \A x, y \in Nat :
                     /\ e * supply <= d * (supply - amount)
                     /\ x >= balances[3 - i] /\ y >= balances[i] - dy + 1
                     => UpTo(self.amp, e, x, y)
  <1> DEFINE d0 == get_d(self, balances, None)
             burnt == Div(Mul(amount, d0), supply)
             d1 == Sub(d0, burnt)
             new_y == get_y_d(self, i, balances, d1)
             fee == ImbalanceFee(self, 2)
             scaled(k) == Div(Mul(balances[k], d1), d0)
             dx_expected(k) == IF k = i THEN Sub(scaled(k), new_y)
                                        ELSE Sub(balances[k], scaled(k))
             cut(k) == Div(Mul(fee, dx_expected(k)), FEE_DENOMINATOR)
             reduced == [k \in 1..2 |-> Sub(balances[k], cut(k))]
             rest == RemoveAt(reduced, i)
             y == get_y_d(self, i, reduced, d1)
             out == remove_liquidity_single_token(self, balances, amount, i, supply)
             j == 3 - i
  <1>1. /\ Len(balances) = 2 /\ \A k \in 1..2 : balances[k] \in Nat /\ balances[k] \in OptNat
        /\ amount \in OptNat /\ supply \in OptNat /\ FEE_DENOMINATOR \in OptNat
        /\ self.amp \in Nat /\ self.fee_numerator \in OptNat
        /\ 1 \in OptNat /\ 2 \in OptNat /\ 4 \in OptNat /\ 2 - 1 \in OptNat
        /\ j \in 1..2 /\ i # j
    <2>1. Len(balances) = 2 /\ \A k \in 1..2 : balances[k] \in Nat /\ balances[k] \in OptNat
      BY DEF Pool, OptNat, Option
    <2>2. self.amp \in Nat /\ self.fee_numerator \in OptNat
      BY WidthLemma DEF Curves, OptNat, Option
    <2>3. amount \in OptNat /\ supply \in OptNat /\ FEE_DENOMINATOR \in OptNat
      BY CurveAssumption DEF OptNat, Option
    <2>4. 1 \in OptNat /\ 2 \in OptNat /\ 4 \in OptNat /\ 2 - 1 \in OptNat
      BY DEF OptNat, Option
    <2>5. j \in 1..2 /\ i # j
      OBVIOUS
    <2> QED BY <2>1, <2>2, <2>3, <2>4, <2>5
  <1>2. \A v, w \in OptNat : /\ Add(v, w) \in OptNat /\ Sub(v, w) \in OptNat
                             /\ Mul(v, w) \in OptNat /\ Div(v, w) \in OptNat
                             /\ Mul64(v, w) \in OptNat
    BY AddSubLemma, MulDivLemma, WidthLemma DEF Option, OptNat
  <1>3. d0 \in OptNat
    BY GetDLemma, WidthLemma DEF OptNat, Option
  <1> HIDE DEF d0
  <1>4. Mul(amount, d0) \in OptNat
    BY <1>1, <1>3, <1>2
  <1>5. burnt \in OptNat
    BY <1>1, <1>4, <1>2
  <1> HIDE DEF burnt
  <1>6. d1 \in OptNat
    BY <1>3, <1>5, <1>2
  <1> HIDE DEF d1
  <1>7. new_y \in OptNat /\ y \in OptNat
    BY GetYLemma, WidthLemma DEF OptNat, Option
  <1> HIDE DEF new_y
  <1>8. fee \in OptNat
    <2>1. Mul64(self.fee_numerator, 2) \in OptNat
      BY <1>1, <1>2
    <2>2. Div(Mul64(self.fee_numerator, 2), 4) \in OptNat
      BY <1>1, <1>2, <2>1
    <2> QED BY <1>1, <1>2, <2>2 DEF ImbalanceFee
  <1> HIDE DEF fee
  <1>9. \A k \in 1..2 : cut(k) \in OptNat
    <2> SUFFICES ASSUME NEW k \in 1..2 PROVE cut(k) \in OptNat
      OBVIOUS
    <2>1. Mul(balances[k], d1) \in OptNat
      BY <1>1, <1>6, <1>2
    <2>2. scaled(k) \in OptNat
      BY <1>3, <1>2, <2>1
    <2> HIDE DEF scaled
    <2>3. dx_expected(k) \in OptNat
      BY <1>1, <1>7, <1>2, <2>2
    <2> HIDE DEF dx_expected
    <2>4. Mul(fee, dx_expected(k)) \in OptNat
      BY <1>8, <1>2, <2>3
    <2> QED BY <1>1, <1>2, <2>4
  <1>10. out = TryU64(PaidOut(reduced[i], y))
    BY <1>1, Zenon DEF remove_liquidity_single_token, d0, burnt, d1, new_y, fee
  <1> HIDE DEF dx_expected, cut
  <1>11. \A k \in 1..2 : /\ reduced[k] \in OptNat
                         /\ reduced[k] \in Nat => reduced[k] <= balances[k]
    <2> SUFFICES ASSUME NEW k \in 1..2
                 PROVE  /\ reduced[k] \in OptNat
                        /\ reduced[k] \in Nat => reduced[k] <= balances[k]
      OBVIOUS
    <2>1. reduced[k] = Sub(balances[k], cut(k)) /\ cut(k) \in OptNat /\ balances[k] \in OptNat
      BY <1>1, <1>9
    <2> HIDE DEF reduced
    <2>2. /\ Sub(balances[k], cut(k)) \in OptNat
          /\ Sub(balances[k], cut(k)) # None =>
                cut(k) \in Nat /\ Sub(balances[k], cut(k)) = balances[k] - cut(k)
      BY <1>2, <2>1, AddSubLemma
    <2>3. balances[k] \in Nat
      BY <1>1
    <2> QED BY <2>1, <2>2, <2>3, WidthLemma
  <1>12. reduced \in Seq(OptNat) /\ Len(reduced) = 2
    <2> HIDE DEF reduced
    <2>1. reduced = [k \in 1..2 |-> reduced[k]]
      BY DEF reduced
    <2> QED BY <1>11, <2>1
  <1> HIDE DEF reduced
  <1>13. Len(rest) = 1 /\ rest[1] = reduced[j]
    BY <1>12, RemoveOneLemma
  <1>14. y = SolveY(self, 2, rest, d1)
    BY <1>12, Zenon DEF get_y_d
  <1> HIDE DEF rest, y
  <1>15. out \in Nat /\ PaidOut(reduced[i], y) = out
    BY <1>10, WidthLemma, Zenon DEF TryU64
  <1>16. y \in Nat /\ reduced[i] \in Nat /\ out = reduced[i] - y - 1
    <2>1. Sub(reduced[i], y) \in OptNat
      BY <1>7, <1>11, <1>2 DEF y
    <2>2. Sub(reduced[i], y) \in Nat =>
             reduced[i] \in Nat /\ y \in Nat /\ Sub(reduced[i], y) = reduced[i] - y
      BY <1>7, <1>11, AddSubLemma, WidthLemma DEF y
    <2>3. PaidOut(reduced[i], y) # None =>
             Sub(reduced[i], y) \in Nat /\ PaidOut(reduced[i], y) = Sub(reduced[i], y) - 1
      BY <1>1, <2>1, AddSubLemma DEF PaidOut
    <2> HIDE DEF out
    <2> QED BY <1>15, <2>2, <2>3, WidthLemma
  <1> HIDE DEF out
  <1>17. /\ reduced[j] \in Nat /\ d1 \in Nat /\ self.amp > 0
         /\ UpTo(self.amp, d1, reduced[j], y + 2)
    <2>1. rest[1] \in OptNat
      BY <1>1, <1>11, <1>13
    <2>2. SolveY(self, 2, rest, d1) # None
      BY <1>14, <1>16, WidthLemma
    <2> QED BY <1>1, <1>6, <1>13, <1>14, <2>1, <2>2, SolveLemma
  <1>18. d0 \in Nat /\ burnt \in Nat /\ d1 = d0 - burnt
    BY <1>3, <1>5, <1>17, AddSubLemma, WidthLemma DEF d1
  <1>19. supply > 0 /\ supply * burnt <= amount * d0
    <2>1. /\ Mul(amount, d0) \in Nat /\ supply > 0 /\ supply * burnt <= Mul(amount, d0)
      BY <1>1, <1>4, <1>18, ExactLemma, WidthLemma, ZenonT(30) DEF burnt
    <2>2. Mul(amount, d0) = amount * d0
      BY <1>1, <1>3, <2>1, ExactLemma, WidthLemma
    <2> QED BY <2>1, <2>2
  <1>20. ASSUME NEW e \in Nat, NEW x2 \in Nat, NEW y2 \in Nat,
                e * supply <= d0 * (supply - amount),
                x2 >= balances[j], y2 >= balances[i] - out + 1
         PROVE  UpTo(self.amp, e, x2, y2)
    <2>1. e <= d1
      <3>1. d0 * (supply - amount) = d0 * supply - amount * d0
            /\ d0 * supply - supply * burnt = supply * d1 /\ e * supply = supply * e
        BY <1>18, SMT
      <3> DEFINE e1 == amount * d0
                 e2 == d0 * supply
                 e3 == supply * burnt
      <3>2. e1 \in Nat /\ e2 \in Nat /\ e3 \in Nat /\ supply * e \in Nat /\ supply * d1 \in Nat
        BY <1>17, <1>18, ProductLemma
      <3> HIDE DEF e1, e2, e3
      <3>3. e3 <= e1 /\ supply * e <= e2 - e1 /\ supply * d1 = e2 - e3
        BY <1>19, <1>20, <3>1 DEF e1, e2, e3
      <3>4. supply * e <= supply * d1
        BY <3>2, <3>3
      <3> QED BY <1>17, <1>19, <3>4, ProductLemma
    <2>2. reduced[j] <= x2 /\ y + 2 <= y2 /\ y + 2 \in Nat
      <3>1. reduced[i] <= balances[i] /\ reduced[j] <= balances[j]
            /\ balances[i] \in Nat /\ balances[j] \in Nat
        BY <1>1, <1>11, <1>16, <1>17
      <3> HIDE DEF j
      <3>2. reduced[j] <= x2
        BY <1>17, <1>20, <3>1, SMTT(30)
      <3>3. y + 2 <= y2 /\ y + 2 \in Nat
        <4> DEFINE w == balances[i]
                   r == reduced[i]
        <4>1. /\ w \in Nat /\ r \in Nat /\ y \in Nat /\ out \in Nat
              /\ r <= w /\ out = r - y - 1
          BY <1>15, <1>16, <3>1, Zenon
        <4> HIDE DEF r, w
        <4>2. out <= w - y - 1
          BY <4>1
        <4>3. y2 >= w - out + 1
          BY <1>20 DEF w
        <4> QED BY <4>1, <4>2, <4>3
      <3> QED BY <3>2, <3>3
    <2> HIDE DEF j
    <2> QED BY <1>1, <1>16, <1>17, <2>1, <2>2, UpToLemma
  <1> QED BY <1>15, <1>17, <1>18, <1>20 DEF d0, out

=============================================================================
