----------------------------- MODULE Arith_proofs -----------------------------
(***************************************************************************)
(* The arithmetic the contracts share: natural numbers, with the smallest  *)
(* element of a set, from which proofs argue by induction; the checked     *)
(* operations of CheckedArith; and the tax of Asset.                       *)
(***************************************************************************)
EXTENDS WellFoundedInduction, TLAPS, CheckedArith, Asset

(***************************************************************************)
(* Natural numbers.                                                        *)
(***************************************************************************)
\* Floor division of naturals by a positive number.
LEMMA DivLemma ==
    ASSUME NEW a \in Nat, NEW b \in Nat, b > 0
    PROVE  /\ a \div b \in Nat
           /\ b * (a \div b) <= a
           /\ a < b * (a \div b) + b
           /\ a \div b <= a
  <1>1. /\ a \div b \in Nat
        /\ b * (a \div b) <= a
        /\ a < b * (a \div b) + b
    BY SMT
  <1>2. a \div b <= b * (a \div b)
    BY <1>1, SMT
  <1> QED BY <1>1, <1>2

\* Products are monotone in each factor, strictly by a positive one.
LEMMA ProductLemma ==
    ASSUME NEW a \in Nat, NEW b \in Nat, NEW c \in Nat
    PROVE  /\ a <= b => c * a <= c * b
           /\ a < b /\ c > 0 => c * a < c * b
           /\ c * a < c * b => a < b
           /\ c > 0 /\ c * a <= c * b => a <= b
           /\ c * a \in Nat
           /\ c * (a + b) = c * a + c * b
           /\ c * a = a * c
  BY SMT

\* The factors of a product of three in another order.
LEMMA ThreeLemma ==
    ASSUME NEW a \in Int, NEW b \in Int, NEW c \in Int
    PROVE  /\ a * (b * c) = b * (a * c)
           /\ a * (b * c) = b * (c * a)
           /\ a * (b * c) = c * (a * b)
  BY SMT

\* The pairs of natural numbers in increasing order.
NatLess == {p \in Nat \X Nat : p[1] < p[2]}

\* A set of natural numbers that is not empty has a smallest element.
LEMMA SmallestLemma ==
    ASSUME NEW T, T \subseteq Nat, T # {}
    PROVE  \E x \in T : \A y \in T : x <= y
  <1>1. IsWellFoundedOn(NatLess, Nat)
    BY NatLessThanWellFounded DEF NatLess, OpToRel
  <1>2. \E x \in T : \A y \in T : ~ (<<y, x>> \in NatLess)
    BY <1>1, WFMin, Zenon
  <1>3. PICK x \in T : \A y \in T : ~ (<<y, x>> \in NatLess)
    BY <1>2
  <1>4. ASSUME NEW y \in T PROVE x <= y
    <2>1. x \in Nat /\ y \in Nat /\ <<y, x>> \in Nat \X Nat
      OBVIOUS
    <2>2. ~ (<<y, x>>[1] < <<y, x>>[2])
      BY <1>3, <2>1 DEF NatLess
    <2> QED BY <2>1, <2>2
  <1> QED BY <1>4

(***************************************************************************)
(* Recursive functions.  What one is equal to follows from the existence   *)
(* of a function that satisfies its equation.                              *)
(***************************************************************************)
\* Induction over the natural numbers.
LEMMA InductionLemma ==
    ASSUME NEW T, 0 \in T, \A k \in Nat : k \in T => k + 1 \in T
    PROVE  Nat \subseteq T
  <1> DEFINE Rest == {k \in Nat : k \notin T}
  <1>1. SUFFICES ASSUME Rest # {} PROVE FALSE
    OBVIOUS
  <1>2. PICK x \in Rest : \A y \in Rest : x <= y
    BY <1>1, SmallestLemma
  <1>3. x \in Nat /\ x # 0 /\ x - 1 \in Nat /\ ~(x <= x - 1)
    BY <1>2
  <1>4. x - 1 \in T
    BY <1>2, <1>3
  <1>5. (x - 1) + 1 \in T /\ (x - 1) + 1 = x
    BY <1>3, <1>4
  <1> QED BY <1>2, <1>5

\* f is base at 0, and F[k] leads from each value to that at k, for k in S.
Unfolds(f, base, F, S) == f[0] = base /\ \A k \in S : f[k] = F[k][f[k - 1]]

\* There is a function with a given value at 0 and a given step.
LEMMA RecursionLemma ==
    ASSUME NEW V, NEW base \in V, NEW F \in [Nat -> [V -> V]]
    PROVE  \E f \in [Nat -> V] : Unfolds(f, base, F, Nat \ {0})
  <1> DEFINE G(n, g) == /\ g \in [0..n -> V] /\ g[0] = base
                        /\ \A k \in 0..(n - 1) : g[k + 1] = F[k + 1][g[k]]
             T == {n \in Nat : \E g : G(n, g)}
  <1>1. 0 \in T
    <2>1. G(0, [k \in 0..0 |-> base])
      OBVIOUS
    <2> QED BY <2>1
  <1>2. ASSUME NEW n \in Nat, n \in T PROVE n + 1 \in T
    <2>1. PICK g : G(n, g)
      BY <1>2
    <2> DEFINE h == [k \in 0..(n + 1) |-> IF k = n + 1 THEN F[n + 1][g[n]] ELSE g[k]]
    <2>2. g[n] \in V /\ F[n + 1] \in [V -> V]
      BY <2>1
    <2>3. h \in [0..(n + 1) -> V]
      BY <2>1, <2>2
    <2>4. h[0] = base
      BY <2>1
    <2>5. ASSUME NEW k \in 0..n PROVE h[k + 1] = F[k + 1][h[k]]
      <3>1. CASE k = n
        BY <3>1
      <3>2. CASE k # n
        <4>1. k \in 0..(n - 1) /\ k + 1 \in 0..n /\ k + 1 # n + 1
          BY <3>2
        <4>2. h[k + 1] = g[k + 1] /\ h[k] = g[k]
          BY <4>1
        <4> QED BY <2>1, <4>1, <4>2
      <3> QED BY <3>1, <3>2
    <2>6. (n + 1) - 1 = n
      OBVIOUS
    <2> HIDE DEF h
    <2>7. G(n + 1, h)
      BY <2>3, <2>4, <2>5, <2>6
    <2> QED BY <2>7
  <1>3. \A n \in Nat : \E g : G(n, g)
    BY <1>1, <1>2, InductionLemma
  <1> DEFINE h(n) == CHOOSE g : G(n, g)
             f == [n \in Nat |-> h(n)[n]]
  <1>4. \A n \in Nat : G(n, h(n))
    BY <1>3
  <1> HIDE DEF h
  <1>5. ASSUME NEW n \in Nat PROVE h(n + 1)[n] = h(n)[n]
    <2> DEFINE a == h(n)
               c == h(n + 1)
               U == {k \in Nat : k <= n => c[k] = a[k]}
    <2>1. G(n, a) /\ G(n + 1, c) /\ (n + 1) - 1 = n
      BY <1>4
    <2> HIDE DEF a, c
    <2>2. 0 \in U
      BY <2>1
    <2>3. ASSUME NEW k \in Nat, k \in U PROVE k + 1 \in U
      <3>1. SUFFICES ASSUME k + 1 <= n PROVE c[k + 1] = a[k + 1]
        OBVIOUS
      <3>2. k \in 0..(n - 1) /\ k \in 0..n /\ k <= n
        BY <3>1
      <3>3. c[k] = a[k]
        BY <2>3, <3>2
      <3>4. a[k + 1] = F[k + 1][a[k]] /\ c[k + 1] = F[k + 1][c[k]]
        BY <2>1, <3>2
      <3> QED BY <3>3, <3>4
    <2>4. n \in U
      BY <2>2, <2>3, InductionLemma
    <2> QED BY <2>4 DEF a, c
  <1>6. \A n \in Nat : n \in 0..n /\ n \in 0..((n + 1) - 1) /\ n + 1 \in 0..(n + 1) /\ 0 \in 0..0
    OBVIOUS
  <1>7. f \in [Nat -> V]
    BY <1>4, <1>6
  <1>8. f[0] = base
    BY <1>4, <1>6
  <1>9. ASSUME NEW k \in Nat PROVE f[k + 1] = F[k + 1][f[k]]
    <2>1. h(k + 1)[k + 1] = F[k + 1][h(k + 1)[k]]
      BY <1>4, <1>6
    <2>2. f[k] = h(k)[k] /\ f[k + 1] = h(k + 1)[k + 1]
      OBVIOUS
    <2> QED BY <1>5, <2>1, <2>2
  <1> HIDE DEF f
  <1>10. ASSUME NEW k \in Nat \ {0} PROVE f[k] = F[k][f[k - 1]]
    <2>1. k - 1 \in Nat /\ (k - 1) + 1 = k
      OBVIOUS
    <2>2. f[(k - 1) + 1] = F[(k - 1) + 1][f[k - 1]]
      BY <1>9, <2>1
    <2> QED BY <2>1, <2>2
  <1> QED BY <1>7, <1>8, <1>10 DEF Unfolds

\* The same for a function on the numbers up to n.
LEMMA UnfoldLemma ==
    ASSUME NEW V, NEW base \in V, NEW n \in Nat, NEW F \in [1..n -> [V -> V]]
    PROVE  \E f \in [0..n -> V] : Unfolds(f, base, F, 1..n)
  <1>1. PICK H \in [Nat -> [V -> V]] : \A k \in 1..n : H[k] = F[k]
    <2> DEFINE h == [k \in Nat |-> IF k \in 1..n THEN F[k] ELSE [v \in V |-> v]]
    <2>1. h \in [Nat -> [V -> V]] /\ \A k \in 1..n : h[k] = F[k]
      OBVIOUS
    <2> QED BY <2>1
  <1>2. PICK g \in [Nat -> V] : Unfolds(g, base, H, Nat \ {0})
    BY RecursionLemma
  <1> DEFINE f == [k \in 0..n |-> g[k]]
  <1>3. f \in [0..n -> V] /\ f[0] = base
    BY <1>2 DEF Unfolds
  <1>4. ASSUME NEW k \in 1..n PROVE f[k] = F[k][f[k - 1]]
    <2>1. k \in Nat \ {0} /\ k - 1 \in 0..n /\ k \in 0..n
      OBVIOUS
    <2>2. g[k] = H[k][g[k - 1]]
      BY <1>2, <2>1 DEF Unfolds
    <2>3. f[k] = g[k] /\ f[k - 1] = g[k - 1]
      BY <2>1
    <2> QED BY <1>1, <2>2, <2>3
  <1> HIDE DEF f
  <1> QED BY <1>3, <1>4 DEF Unfolds

(***************************************************************************)
(* What is in range, and what a sum or a difference that exists is.        *)
(***************************************************************************)
OptNat == Option(Nat)

\* The casts and conversions answer a value of their width, or None.
LEMMA WidthLemma ==
    /\ U128 \subseteq Nat /\ U64 \subseteq U128 /\ None \notin Nat
    /\ \A v : AsU128(v) \in Option(U128) /\ TryU64(v) \in Option(U64)
    /\ \A v \in Int : AsU64(v) \in U64
  <1>1. \A v : AsU128(v) \in Option(U128) /\ TryU64(v) \in Option(U64)
    BY Zenon DEF AsU128, TryU64, Option
  <1>2. U128 \subseteq Nat /\ U64 \subseteq U128 /\ None \notin Nat
    BY WidthAssumption DEF U128, U64, None
  <1>3. \A v \in Int : AsU64(v) \in U64
    BY WidthAssumption DEF AsU64, U64
  <1> QED BY <1>1, <1>2, <1>3

\* A checked sum or difference that exists is the sum or the difference.
LEMMA AddSubLemma ==
    ASSUME NEW a \in OptNat, NEW b \in OptNat
    PROVE  /\ Add(a, b) \in Option(U128)
           /\ Sub(a, b) \in Option(U128)
           /\ Add(a, b) # None => a \in Nat /\ b \in Nat /\ Add(a, b) = a + b
           /\ Sub(a, b) # None => a \in Nat /\ b \in Nat /\ b <= a /\ Sub(a, b) = a - b
  BY WidthAssumption DEF Add, Sub, AsU128, Option, OptNat, U128, None

(***************************************************************************)
(* The tax.                                                                *)
(***************************************************************************)
\* What compute_tax takes off covers what the chain charges for the rest.
LEMMA TaxLemma ==
    ASSUME NEW info, NEW amount \in Nat
    PROVE  /\ deduct_tax(info, amount) \in 0..amount
           /\ TaxDue(info, deduct_tax(info, amount)) \in Nat
           /\ is_native_token(info) =>
                 deduct_tax(info, amount) + TaxDue(info, deduct_tax(info, amount))
                     <= amount
  <1> USE AssetAssumption
  <1> DEFINE D == DECIMAL_FRACTION
             R == TaxRate
             q == (amount * D) \div (R + D)
  <1>1. amount * D \in Nat /\ R + D \in Nat /\ R + D > 0 /\ D \in Nat /\ D > 0
        /\ R \in Nat
    BY ProductLemma
  <1>2. q \in Nat /\ (R + D) * q <= amount * D
    BY <1>1, DivLemma
  <1>3. q <= amount
    <2>1. D * q <= (R + D) * q
      BY <1>1, <1>2, ProductLemma
    <2>2. D * q \in Nat /\ D * amount = amount * D /\ (R + D) * q \in Nat
      BY <1>1, <1>2, ProductLemma
    <2>3. D * q <= D * amount
      BY <1>1, <1>2, <2>1, <2>2
    <2> QED BY <1>1, <1>2, <2>3, ProductLemma
  <1> HIDE DEF q, D, R
  <1>4. /\ compute_tax(info, amount) \in Nat
        /\ compute_tax(info, amount) <= amount
        /\ is_native_token(info) /\ info # Uluna =>
              \/ compute_tax(info, amount) = amount - q
              \/ compute_tax(info, amount) = TaxCap
    BY <1>2, <1>3 DEF compute_tax, Lesser, q, D, R
  <1> DEFINE n == deduct_tax(info, amount)
  <1>5. n \in Nat /\ n <= amount /\ n = amount - compute_tax(info, amount)
    BY <1>4 DEF deduct_tax
  <1> HIDE DEF n
  <1>6. n * R \in Nat /\ (n * R) \div D \in Nat /\ D * ((n * R) \div D) <= n * R
    BY <1>1, <1>5, ProductLemma, DivLemma
  <1> DEFINE f == (n * R) \div D
  <1> HIDE DEF f
  <1>7. /\ TaxDue(info, n) \in Nat
        /\ info = Uluna => TaxDue(info, n) = 0
        /\ TaxDue(info, n) <= TaxCap
        /\ TaxDue(info, n) <= f
    BY <1>6 DEF TaxDue, Lesser, D, R, f
  <1>8. is_native_token(info) => n + TaxDue(info, n) <= amount
    <2>1. CASE info = Uluna
      BY <2>1, <1>5, <1>7
    <2>2. CASE is_native_token(info) /\ info # Uluna
               /\ compute_tax(info, amount) = TaxCap
      BY <2>2, <1>4, <1>5, <1>7
    <2>3. CASE is_native_token(info) /\ info # Uluna
               /\ compute_tax(info, amount) = amount - q
      <3>1. n = q
        BY <2>3, <1>2, <1>3, <1>5
      <3>2. D * f <= q * R /\ f \in Nat
        BY <1>6, <3>1 DEF f
      <3>3. (R + D) * q = q * R + D * q
        BY <1>1, <1>2, SMT
      <3>4. D * (q + f) = D * q + D * f /\ D * q \in Nat /\ D * f \in Nat
            /\ q * R \in Nat /\ D * amount = amount * D /\ q + f \in Nat
        BY <1>1, <1>2, <3>2, ProductLemma
      <3>5. D * (q + f) <= D * amount
        BY <1>1, <1>2, <3>2, <3>3, <3>4
      <3>6. q + f <= amount
        BY <1>1, <3>4, <3>5, ProductLemma
      <3> QED BY <3>1, <3>2, <3>6, <1>2, <1>7
    <2> QED BY <1>4, <2>1, <2>2, <2>3
  <1> QED BY <1>5, <1>7, <1>8 DEF n

=============================================================================
