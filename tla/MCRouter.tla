------------------------------ MODULE MCRouter ------------------------------
(***************************************************************************)
(* A small instance of Router for TLC: two pairs and the market make a     *)
(* cycle of three assets.                                                  *)
(***************************************************************************)
EXTENDS RouterTests, TLC

CONSTANTS uusd, uluna, token, p1, p2, alice, bob

TwoPairs == (p1 :> {uusd, token}) @@ (p2 :> {token, uluna})
Op(native, offer, ask) == [native |-> native, offer |-> offer, ask |-> ask]
Ops == {Op(TRUE, uusd, uluna), Op(TRUE, uluna, uusd), Op(FALSE, uusd, token),
        Op(FALSE, token, uusd), Op(FALSE, token, uluna), Op(FALSE, uluna, token)}
NoSuchPair == Op(FALSE, uusd, uluna)

\* Every route of one or two operations, once around the cycle, and a route
\* that fails at its second operation.
Around == {route \in [1..3 -> Ops] :
              \A k \in 1..3 : route[k].ask = route[1 + (k % 3)].offer}
ShortRoutes == [1..1 -> Ops] \cup [1..2 -> Ops] \cup Around
                   \cup {<<Op(FALSE, token, uusd), NoSuchPair>>}

\* One denomination, or some of both.
SomeCoins == {(uusd :> 4) @@ (uluna :> 0), (uusd :> 2) @@ (uluna :> 2)}
OnlyAlice == (alice :> 4) @@ (bob :> 0)

=============================================================================
