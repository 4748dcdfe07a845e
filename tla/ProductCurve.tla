---------------------------- MODULE ProductCurve ----------------------------
(***************************************************************************)
(* The arithmetic of the constant-product pair                             *)
(* (contracts/terraswap_pair_deprecated/src/contract.rs).  It is done in   *)
(* Uint256 and Decimal256 and the results are converted to Uint128; an     *)
(* overflow, a negative difference and a division by zero panic.           *)
(***************************************************************************)
EXTENDS CheckedArith, Asset

CONSTANTS
    COMMISSION_RATE,    \* 0.003 in the code, in units of DECIMAL_FRACTION
    U256Max,            \* 2^256 - 1
    Unset               \* Option::None in a message

ASSUME ProductAssumption ==
    /\ COMMISSION_RATE \in 0..(DECIMAL_FRACTION - 1)
    /\ U256Max \in Nat

(***************************************************************************)
(* compute_swap.                                                           *)
(***************************************************************************)
\* Mutant: the pool's part is rounded to an integer before it is kept.
ReturnRoundedUp(offer_pool, ask_pool, offer_amount) ==
    ask_pool - (offer_pool * ask_pool) \div (offer_pool + offer_amount)

\* What is returned before the commission.
GrossReturn(offer_pool, ask_pool, offer_amount) ==
    Scaled(1, ask_pool * DECIMAL_FRACTION
                - FromRatio(offer_pool * ask_pool, offer_pool + offer_amount))

Commission(gross) == Scaled(gross, COMMISSION_RATE)

Spread(offer_pool, ask_pool, offer_amount) ==
    Scaled(offer_amount, FromRatio(ask_pool, offer_pool))
        - GrossReturn(offer_pool, ask_pool, offer_amount)

\* It does not panic.
CanSwap(offer_pool, ask_pool, offer_amount) ==
    /\ offer_pool > 0
    /\ offer_pool * ask_pool * DECIMAL_FRACTION <= U256Max
    /\ offer_amount * FromRatio(ask_pool, offer_pool) <= U256Max
    /\ Spread(offer_pool, ask_pool, offer_amount) \in U128

\* The answer to a simulation that panics.
NoSwap == [return_amount |-> None, spread_amount |-> None, commission_amount |-> None]

compute_swap(offer_pool, ask_pool, offer_amount) ==
    LET gross == GrossReturn(offer_pool, ask_pool, offer_amount)
    IN  [return_amount |-> gross - Commission(gross),
         spread_amount |-> Spread(offer_pool, ask_pool, offer_amount),
         commission_amount |-> Commission(gross)]

(***************************************************************************)
(* compute_offer_amount: what must be offered for ask_amount, and NoOffer  *)
(* where it panics or refuses a small amount.                              *)
(***************************************************************************)
NoOffer == [offer_amount |-> None, spread_amount |-> None, commission_amount |-> None]

\* Mutant: the commission is not added.
BeforeCommissionForgotten(ask_amount) == ask_amount

BeforeCommission(ask_amount) ==
    Scaled(ask_amount, (DECIMAL_FRACTION * DECIMAL_FRACTION)
                           \div (DECIMAL_FRACTION - COMMISSION_RATE))

OfferFor(offer_pool, ask_pool, gross) ==
    (offer_pool * ask_pool) \div (ask_pool - gross) - offer_pool

compute_offer_amount(offer_pool, ask_pool, ask_amount) ==
    LET gross == BeforeCommission(ask_amount)
        offer == OfferFor(offer_pool, ask_pool, gross)
        at_price == Scaled(offer, FromRatio(ask_pool, offer_pool))
    IN  IF /\ offer_pool > 0
           /\ ask_pool > gross
           /\ offer \in U128
           /\ at_price > gross
           /\ Commission(gross) > 0
        THEN [offer_amount |-> offer, spread_amount |-> at_price - gross,
              commission_amount |-> Commission(gross)]
        ELSE NoOffer

(***************************************************************************)
(* The limits a user may set.                                              *)
(***************************************************************************)
\* gross is what is returned with the commission.
assert_max_spread(belief_price, max_spread, offer_amount, gross, spread_amount) ==
    \/ max_spread = Unset
    \/ /\ max_spread # Unset /\ belief_price # Unset
       /\ belief_price > 0
       /\ LET expected == (offer_amount * DECIMAL_FRACTION) \div belief_price
          IN  gross < expected => FromRatio(expected - gross, expected) <= max_spread
    \/ /\ max_spread # Unset /\ belief_price = Unset
       /\ gross + spread_amount > 0
       /\ FromRatio(spread_amount, gross + spread_amount) <= max_spread

\* The price of the deposit is not too far from the pool's, either way.
assert_slippage_tolerance(slippage_tolerance, deposits, pools) ==
    \/ slippage_tolerance = Unset
    \/ /\ slippage_tolerance # Unset
       /\ slippage_tolerance <= DECIMAL_FRACTION
       /\ \A k \in 1..2 : deposits[k] > 0 /\ pools[k] > 0
       /\ \A k \in 1..2 :
             Scaled(FromRatio(deposits[k], deposits[3 - k]),
                    DECIMAL_FRACTION - slippage_tolerance)
                 <= FromRatio(pools[k], pools[3 - k])

\* External: the square root of the integer_sqrt crate.
integer_sqrt(n) == CHOOSE r \in 0..n : r * r <= n /\ n < (r + 1) * (r + 1)

=============================================================================
