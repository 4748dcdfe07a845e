--------------------------- MODULE StablePairDocs ---------------------------
(***************************************************************************)
(* What the README and the comments of the stable pair say of it, where    *)
(* the code does something else.  Each formula is violated by StablePair.  *)
(***************************************************************************)
EXTENDS StablePair

\* README.md:26, "To receive the underlying liquidity back ... LPs must burn
\* their liquidity tokens": a user whose LP tokens are burnt is paid for them.
BurnPaysHolder ==
    [][committed'.total_supply < committed.total_supply =>
          \E user \in Users :
              /\ committed'.bal[LpToken][user] < committed.bal[LpToken][user]
              /\ \E a \in Assets : committed'.bal[a][user] > committed.bal[a][user]
      ]_committed

\* README.md:34, "the contract restricts the operation when the exchange rate
\* is dropped more than the tolerance": a deposit that is accepted mints at
\* least the minimum its sender asked for.
DepositHonoursMinOut ==
    [][\A user \in Users, min_out \in MinOuts, receiver \in Receivers, funds \in Funds :
          \A amounts \in [1..NCoins -> Amounts] :
              provide_liquidity(user, amounts, min_out, receiver, funds) =>
                  msgs'[LpPosition].amount >= min_out]_vars

=============================================================================
