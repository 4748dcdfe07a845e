-------------------------------- MODULE Curve --------------------------------
(***************************************************************************)
(* The StableSwap invariant of contracts/terraswap_stable/src/curve.rs, in *)
(* Rust's integer arithmetic.  self is the struct Curve, a record of amp   *)
(* and fee_numerator; a vector of balances is a sequence, so the indices i *)
(* and j are one higher than in the code.                                  *)
(***************************************************************************)
EXTENDS CheckedArith

LOCAL INSTANCE SequencesExt

CONSTANTS
    FEE_DENOMINATOR,    \* 10_000 in the code
    ITERATIONS          \* 32 in the code

ASSUME CurveAssumption == /\ FEE_DENOMINATOR \in Nat \ {0}
                          /\ ITERATIONS \in Nat \ {0}

(***************************************************************************)
(* The Newton iteration shared by get_d, get_y and get_y_d: repeat step at *)
(* most ITERATIONS times, stop when two values differ by at most 1, fail   *)
(* as soon as a step fails.                                                *)
(***************************************************************************)
\* Mutant: a looser tolerance.
SettledLoosely(prev, v) == v = None \/ (v - prev) \in -4..4

Settled(prev, v) == v = None \/ (v - prev) \in {-1, 0, 1}

Newton(step(_), start) ==
    LET it[k \in 0..ITERATIONS] ==
            IF k = 0
            THEN [v |-> start, settled |-> start = None]
            ELSE LET prev == it[k - 1]
                     next == step(prev.v)
                 IN  IF prev.settled THEN prev
                     ELSE [v |-> next, settled |-> Settled(prev.v, next)]
    IN  it[ITERATIONS].v

\* Mutant: the number of coins is forgotten.
AnnForgotten(self, n_coins) == self.amp

Ann(self, n_coins) == Mul64(self.amp, n_coins)

\* d, times d and divided by n_coins * x for each x of xs in turn.
Product(d, xs, n_coins) ==
    LET d_prod[k \in 0..Len(xs)] ==
            IF k = 0 THEN d ELSE Div(Mul(d_prod[k - 1], d), Mul(xs[k], n_coins))
    IN  d_prod[Len(xs)]

\* One round of the iteration for D.
StepD(self, amounts, d) ==
    LET n_coins == Len(amounts)
        ann == Ann(self, n_coins)
        d_prod == Product(d, amounts, n_coins)
        d_prod_mul_n_coins == Mul(d_prod, n_coins)
        numerator == Mul(Add(Mul(ann, SumOf(amounts)), d_prod_mul_n_coins), d)
        denominator == Add(Mul(d, Sub(ann, 1)), Add(d_prod, d_prod_mul_n_coins))
    IN  Div(numerator, denominator)

\* The iteration, from start.
NewtonD(self, amounts, start) ==
    LET step(d) == StepD(self, amounts, d)
    IN  Newton(step, start)

(***************************************************************************)
(* get_d: the invariant D of the balances.  An empty pool has D = 0; with  *)
(* one balance zero and another not, the first product divides by zero, so *)
(* D does not exist.  d_suggest = None starts from the sum of balances.    *)
(***************************************************************************)
get_d(self, amounts, d_suggest) ==
    LET sum_x == SumOf(amounts)
        start == IF d_suggest = None THEN sum_x ELSE d_suggest
    IN  IF sum_x = None THEN None
        ELSE IF sum_x = 0 THEN 0
        ELSE IF \E k \in 1..Len(amounts) : amounts[k] = 0 THEN None
        ELSE AsU128(NewtonD(self, amounts, start))

(***************************************************************************)
(* The loop at the end of get_y and get_y_d: solve y*y + (b-d)*y = c for   *)
(* the balance of one coin, when the others are xs and the invariant is d. *)
(***************************************************************************)
StepY(y, b, c, d) == Div(Add(Mul(y, y), c), Sub(Add(Mul(y, 2), b), d))

NewtonY(b, c, d) ==
    LET step(y) == StepY(y, b, c, d)
    IN  Newton(step, d)

SolveY(self, n_coins, xs, d) ==
    LET ann == Ann(self, n_coins)
        c == Div(Mul(Product(d, xs, n_coins), d), Mul64(ann, n_coins))
        b == Add(SumOf(xs), Div(d, ann))
    IN  IF None \in {c, b} THEN None ELSE AsU128(NewtonY(b, c, d))

\* The balance of coin i at which the pool's invariant is d.
get_y_d(self, i, amounts, d) ==
    SolveY(self, Len(amounts), RemoveAt(amounts, i), d)

\* The balance of coin j that keeps the invariant when coin i becomes x.
\* With i = j no coin is left out: the code only skips j when it is not i.
get_y(self, i, j, x, balances) ==
    LET d == get_d(self, balances, None)
        xs == [k \in 1..Len(balances) |-> IF k = i THEN x ELSE balances[k]]
    IN  IF d = None THEN None
        ELSE SolveY(self, Len(balances), IF i = j THEN xs ELSE RemoveAt(xs, j), d)

(***************************************************************************)
(* The operations of the pool.                                             *)
(***************************************************************************)
\* Mutants: nothing is kept back; the unit is added.
PaidOutWhole(balance, y) == Sub(balance, y)
PaidOutPlus(balance, y) == Add(Sub(balance, y), 1)

\* The balance given up, less the unit that Curve keeps back.
PaidOut(balance, y) == Sub(Sub(balance, y), 1)

\* What a swap of in_amount of coin i pays out of coin j.
exchange(self, i, j, in_amount, balances) ==
    LET y == get_y(self, i, j, Add(balances[i], in_amount), balances)
        dy == PaidOut(balances[j], y)
        dy_fee == Div(Mul(dy, self.fee_numerator), FEE_DENOMINATOR)
    IN  Sub(dy, dy_fee)

\* Mutant: the fee is forgotten.
BeforeFeeForgotten(self, out_amount) == out_amount

\* The amount of which out_amount is left when the fee is taken off.
BeforeFee(self, out_amount) ==
    Div(Mul(out_amount, FEE_DENOMINATOR), Sub(FEE_DENOMINATOR, self.fee_numerator))

\* What must be paid of coin j to be paid out_amount of coin i.
reverse_exchange(self, i, j, out_amount, balances) ==
    LET x == Sub(balances[i], BeforeFee(self, out_amount))
    IN  Add(Sub(get_y(self, i, j, x, balances), balances[j]), 1)

\* The fee on an imbalanced deposit or withdrawal, per coin.
ImbalanceFee(self, n_coins) ==
    Div(Div(Mul64(self.fee_numerator, n_coins), 4), n_coins - 1)

\* Mutant: the share of the whole invariant instead of its growth.
MintWhole(lp_token_total, d_0, d_2) == Div(Mul(lp_token_total, d_2), d_0)

\* LP tokens in proportion to the growth of the invariant from d_0 to d_2.
MintAmount(lp_token_total, d_0, d_2) == Div(Mul(lp_token_total, Sub(d_2, d_0)), d_0)

\* What a balance is charged for being away from the ideal one.
FeeOn(self, n_coins, ideal, balance) ==
    LET difference == IF ideal < balance THEN Sub(balance, ideal) ELSE Sub(ideal, balance)
    IN  Div(Mul(ImbalanceFee(self, n_coins), difference), FEE_DENOMINATOR)

AfterFee(self, old_balances, new_balances, d_0, d_1) ==
    [k \in 1..Len(old_balances) |->
        Sub(new_balances[k], FeeOn(self, Len(old_balances),
                                   Div(Mul(d_1, old_balances[k]), d_0),
                                   new_balances[k]))]

\* The invariant of the balances the fee has left, found from a first guess.
LeftD(self, after_fee, new_balances, d_1) ==
    LET d_suggest == Div(Mul(SumOf(after_fee), d_1), SumOf(new_balances))
    IN  IF d_suggest = None THEN None ELSE get_d(self, after_fee, d_suggest)

\* The LP tokens minted when the balances grow from old to new, and the
\* invariant from d_0 to d_1.
Minted(self, old_balances, new_balances, lp_token_total, d_0, d_1) ==
    IF None \in {d_0, d_1} \/ d_1 <= d_0 THEN None
    ELSE IF lp_token_total = 0 THEN TryU64(d_1)
    ELSE TryU64(MintAmount(lp_token_total, d_0,
                    LeftD(self, AfterFee(self, old_balances, new_balances, d_0, d_1),
                          new_balances, d_1)))

deposit(self, old_balances, new_balances, lp_token_total) ==
    Minted(self, old_balances, new_balances, lp_token_total,
           get_d(self, old_balances, None), get_d(self, new_balances, None))

\* What burning unmint_amount pays out in every coin.
remove_balanced_liquidity(old_balances, unmint_amount, lp_total_supply) ==
    [k \in 1..Len(old_balances) |->
        Div(Mul(old_balances[k], unmint_amount), lp_total_supply)]

\* What burning unmint_amount pays out in coin i alone.
remove_liquidity_single_token(self, old_balances, unmint_amount, i, lp_total_supply) ==
    LET n_coins == Len(old_balances)
        d0 == get_d(self, old_balances, None)
        d1 == Sub(d0, Div(Mul(unmint_amount, d0), lp_total_supply))
        new_y == get_y_d(self, i, old_balances, d1)
        fee == ImbalanceFee(self, n_coins)
        scaled(k) == Div(Mul(old_balances[k], d1), d0)
        dx_expected(k) == IF k = i THEN Sub(scaled(k), new_y)
                                   ELSE Sub(old_balances[k], scaled(k))
        xp_reduced == [k \in 1..n_coins |->
                          Sub(old_balances[k],
                              Div(Mul(fee, dx_expected(k)), FEE_DENOMINATOR))]
    IN  TryU64(PaidOut(xp_reduced[i], get_y_d(self, i, xp_reduced, d1)))

\* 10^precision_factor is given as its value, one.
get_virtual_price(self, balances, lp_token_total, one) ==
    TryU64(Div(Mul(get_d(self, balances, None), one), lp_token_total))

=============================================================================
