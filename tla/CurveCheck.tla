----------------------------- MODULE CurveCheck -----------------------------
(***************************************************************************)
(* The operations of Curve against what they are meant to compute, on      *)
(* every pool up to a bound.  The state is a pool; a step makes one of its *)
(* balances larger by one, so that TLC visits them all.                    *)
(***************************************************************************)
EXTENDS CurveRoot

CONSTANTS
    Amps, Fees,         \* the curves to look at
    Coins,              \* the sizes of pool to look at
    MaxBalance(_),      \* the largest balance of a pool of n coins
    Offers              \* the amounts swapped, deposited or withdrawn

VARIABLES self, balances

Init == /\ self \in [amp : Amps, fee_numerator : Fees]
        /\ \E n \in Coins : balances = [k \in 1..n |-> 1]

Grow(k) == /\ balances[k] < MaxBalance(Len(balances))
           /\ balances' = [balances EXCEPT ![k] = @ + 1]
           /\ UNCHANGED self

Next == \E k \in DOMAIN balances : Grow(k)

Spec == Init /\ [][Next]_<<self, balances>>

D(b) == get_d(self, b, None)
TwoCoins == {p \in (DOMAIN balances) \X (DOMAIN balances) : p[1] # p[2]}
After(i, dx, j, dy) == [balances EXCEPT ![i] = @ + dx, ![j] = @ - dy]
Half == D(balances) \div 2 + 1

RootOf(b) == CHOOSE d \in 0..Total(b) : Below(self, d, b) /\ ~Below(self, d + 1, b)

\* The Newton iteration of get_d always finds an answer, and its rounding puts
\* it at most two above the root of the invariant and never below it.
DIsRoot == D(balances) - RootOf(balances) \in 0..2

\* A swap in a pool of two coins pays out at most one unit more than leaves the
\* invariant where get_d found it to be.
SwapKeepsD ==
    Len(balances) = 2 =>
        \A p \in TwoCoins, dx \in Offers :
            LET dy == exchange(self, p[1], p[2], dx, balances)
            IN  dy # None => Below(self, D(balances), After(p[1], dx, p[2], dy - 1))

\* A larger offer is never paid less.
OfferMonotone ==
    \A p \in TwoCoins, dx \in Offers :
        exchange(self, p[1], p[2], dx, balances)
            <= exchange(self, p[1], p[2], dx + 1, balances)

\* Paying what reverse_exchange asks for an amount gets that amount, to within
\* the unit that exchange keeps back.
ReverseCovers ==
    \A p \in TwoCoins, dy \in Offers :
        LET dx == reverse_exchange(self, p[1], p[2], dy, balances)
        IN  dx # None => exchange(self, p[2], p[1], dx, balances) >= dy - 1

\* The virtual price of an LP token (here per thousand) falls through a deposit
\* by the rounding of one unit of D only.
DepositKeepsPrice ==
    \A i \in DOMAIN balances, dx \in Offers :
        LET grown == [balances EXCEPT ![i] = @ + dx]
            minted == deposit(self, balances, grown, Half)
        IN  minted # None =>
                get_virtual_price(self, grown, Half + minted, 1000)
                    >= get_virtual_price(self, balances, Half, 1000)
                         - 1000 \div (Half + minted) - 1

=============================================================================
