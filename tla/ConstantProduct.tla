--------------------------- MODULE ConstantProduct ---------------------------
(***************************************************************************)
(* The constant-product pair (contracts/terraswap_pair_deprecated), which  *)
(* holds two assets and trades them at x * y = k, on its Chain.            *)
(***************************************************************************)
EXTENDS ProductCurve, Chain

CONSTANTS
    Pools,          \* the pools that may be created, as pairs of assets
    Tolerances,     \* the slippage tolerances users name, or Unset
    Limits          \* the (belief_price, max_spread) users name, or Unset

ASSUME PoolAssumption ==
    /\ Pools \subseteq {infos \in Assets \X Assets : infos[1] # infos[2]}
    /\ Tolerances \subseteq Nat \cup {Unset}
    /\ Limits \subseteq (Nat \cup {Unset}) \X (Nat \cup {Unset})

NoPair == [asset_infos |-> << >>, liquidity_token |-> NoToken]

instantiate(asset_infos) ==
    /\ pair_info = NoPair
    /\ Become([asset_infos |-> asset_infos, liquidity_token |-> NoToken],
              bal, total_supply,
              [x \in {1} |-> Msg("Instantiate", LpToken, Pair, Pair, 0)])

(***************************************************************************)
(* provide_liquidity: native deposits have come with the call and are      *)
(* taken off the reserves; cw20 deposits are left to be pulled.            *)
(***************************************************************************)
InitialShare(deposits) ==
    IF Mul(deposits[1], deposits[2]) = None THEN None
    ELSE integer_sqrt(deposits[1] * deposits[2])

\* Mutant: the larger of the two shares.
LargerShare(deposits, pools) ==
    LET share(k) == (deposits[k] * total_supply) \div pools[k]
    IN  IF pools[1] = 0 \/ pools[2] = 0 THEN None
        ELSE IF share(1) >= share(2) THEN share(1) ELSE share(2)

\* The smaller of the two shares.
ProRata(deposits, pools) ==
    LET share(k) == (deposits[k] * total_supply) \div pools[k]
    IN  IF pools[1] = 0 \/ pools[2] = 0 \/ share(1) \notin U128 \/ share(2) \notin U128
        THEN None
        ELSE Lesser(share(1), share(2))

\* The deposit is pulled and share minted, unless it is nothing.
TakeDeposit(b, user, deposits, share, receiver) ==
    LET pulled == {k \in 1..NCoins : ~is_native_token(Infos[k])}
    IN  /\ share \notin {None, 0}
        /\ Become(pair_info, b, total_supply,
                  [x \in pulled \cup {LpPosition} |->
                      IF x = LpPosition
                      THEN Msg("Mint", pair_info.liquidity_token, Pair, receiver, share)
                      ELSE Msg("TransferFrom", Infos[x], user, Pair, deposits[x])])

provide_liquidity(user, deposits, slippage_tolerance, receiver, funds) ==
    LET b == WithFunds(user, funds)
        pools == [k \in 1..NCoins |->
                     Sub(query_pools(b)[k],
                         IF is_native_token(Infos[k]) THEN deposits[k] ELSE 0)]
    IN  /\ Ready
        /\ CanFund(user, funds)
        /\ \A k \in 1..NCoins :
              /\ assert_sent_native_token_balance(Infos[k], deposits[k], funds)
              /\ pools[k] # None
        /\ assert_slippage_tolerance(slippage_tolerance, deposits, pools)
        /\ TakeDeposit(b, user, deposits,
                       IF total_supply = 0 THEN InitialShare(deposits)
                                           ELSE ProRata(deposits, pools),
                       receiver)

withdraw_liquidity(token, user, amount) ==
    LET b == Moved(bal, token, user, Pair, amount)
        share_ratio == FromRatio(amount, total_supply)
    IN  /\ Send(token, user, amount)
        /\ token = pair_info.liquidity_token
        /\ total_supply # 0
        /\ share_ratio \in U128
        /\ Become(pair_info, b, total_supply,
                  [x \in 1..LpPosition |->
                      IF x = LpPosition
                      THEN Msg("Burn", pair_info.liquidity_token, Pair, Pair, amount)
                      ELSE into_msg(Infos[x], Scaled(query_pools(b)[x], share_ratio),
                                    Pair, user)])

(***************************************************************************)
(* swap, on the ledger b that the offer has already been added to.         *)
(***************************************************************************)
\* return_amount of pool asset j is paid, unless it is nothing.
PayReturn(b, j, return_amount, to) ==
    Become(pair_info, b, total_supply,
           IF return_amount = 0 THEN NoMsgs
           ELSE [x \in {j} |-> into_msg(Infos[j], return_amount, Pair, to)])

\* The swap of offer_amount against the reserves before it, within the limits.
Trade(b, j, offer_pool, ask_pool, offer_amount, limit, to) ==
    LET result == compute_swap(offer_pool, ask_pool, offer_amount)
    IN  /\ offer_pool # None
        /\ CanSwap(offer_pool, ask_pool, offer_amount)
        /\ assert_max_spread(limit[1], limit[2], offer_amount,
                             result.return_amount + result.commission_amount,
                             result.spread_amount)
        /\ PayReturn(b, j, result.return_amount, to)

\* Mutant: the offer is counted as part of the pool it is sold to.
OfferPoolAfter(b, i, offer_amount) == query_pools(b)[i]

\* The balance holds the offer already.
OfferPool(b, i, offer_amount) == Sub(query_pools(b)[i], offer_amount)

swap(b, offer, offer_amount, limit, to) ==
    LET i == IndexOf(offer)
    IN  /\ InPool(offer)
        /\ Trade(b, 3 - i, OfferPool(b, i, offer_amount), query_pools(b)[3 - i],
                 offer_amount, limit, to)

\* ExecuteMsg::Swap, for native offers.
execute_swap(user, offer, offer_amount, limit, to, funds) ==
    /\ Ready
    /\ is_native_token(offer)
    /\ CanFund(user, funds)
    /\ assert_sent_native_token_balance(offer, offer_amount, funds)
    /\ swap(WithFunds(user, funds), offer, offer_amount, limit, to)

\* receive_cw20, of a token of the pool.
receive_swap(token, user, amount, limit, to) ==
    /\ Send(token, user, amount)
    /\ InPool(token)
    /\ swap(Moved(bal, token, user, Pair, amount), token, amount, limit, to)

(***************************************************************************)
(* The queries, answered from the last committed state; NoSwap and NoOffer *)
(* are errors and panics.                                                  *)
(***************************************************************************)
query_pool == [assets |-> Reserves(committed), total_share |-> query_supply(committed)]

query_simulation(offer, offer_amount) ==
    LET i == IndexOf(offer)
        pools == query_pool.assets
    IN  IF ~InPool(offer) \/ ~CanSwap(pools[i], pools[3 - i], offer_amount) THEN NoSwap
        ELSE compute_swap(pools[i], pools[3 - i], offer_amount)

query_reverse_simulation(ask, ask_amount) ==
    LET j == IndexOf(ask)
        pools == query_pool.assets
    IN  IF ~InPool(ask) THEN NoOffer
        ELSE compute_offer_amount(pools[3 - j], pools[j], ask_amount)

(***************************************************************************)
(* The specification.                                                      *)
(***************************************************************************)
Init ==
    /\ pair_info = NoPair
    /\ bal = [a \in Tokens |-> [c \in Accounts |->
                 IF a \in Assets /\ c \in Users THEN Endowment[c] ELSE 0]]
    /\ total_supply = 0
    /\ msgs = NoMsgs
    /\ committed = [pair_info |-> pair_info, bal |-> bal, total_supply |-> total_supply]

Funds == [NativeTokens -> Amounts]

Call(user) ==
    \/ \E deposits \in [1..2 -> Amounts], tolerance \in Tolerances,
          receiver \in Receivers, funds \in Funds :
          provide_liquidity(user, deposits, tolerance, receiver, funds)
    \/ \E offer \in Assets, amount \in Amounts, limit \in Limits, to \in Receivers,
          funds \in Funds :
          execute_swap(user, offer, amount, limit, to, funds)
    \/ \E token \in Assets, amount \in Amounts, limit \in Limits, to \in Receivers :
          receive_swap(token, user, amount, limit, to)
    \/ \E token \in Tokens, amount \in Amounts \cup {bal[LpToken][user]} :
          withdraw_liquidity(token, user, amount)

Next ==
    \/ \E infos \in Pools : instantiate(infos)
    \/ pair_info # NoPair /\ \E user \in Users : Call(user)
    \/ \E token \in Tokens, user \in Users, to \in Receivers, amount \in Gifts :
          transfer(token, user, to, amount)
    \/ \E x \in DOMAIN msgs : Execute(x) \/ Abort(x)

Spec == Init /\ [][Next]_vars

(***************************************************************************)
(* Properties.                                                             *)
(***************************************************************************)
\* Whoever deposits or withdraws, each remaining LP token is entitled to at
\* least as much of each asset as before: a deposit is credited at the pool's
\* ratio (README), and the rounding is in the pool's favour.
NobodyDiluted ==
    [][/\ 0 < committed.total_supply /\ 0 < committed'.total_supply
       /\ committed.total_supply # committed'.total_supply
       => \A k \in 1..2 :
              Reserves(committed')[k] * committed.total_supply
                  >= Reserves(committed)[k] * committed'.total_supply]_committed

\* No swap lowers the product of the reserves, whatever the rounding of the
\* return, of the commission and of the tax on the payout.
ProductKept ==
    [][committed.total_supply = committed'.total_supply
          /\ committed.pair_info.asset_infos # << >>
       => Reserves(committed')[1] * Reserves(committed')[2]
              >= Reserves(committed)[1] * Reserves(committed)[2]]_committed

\* What query_reverse_simulation quotes for an amount is at most one unit
\* short of what buys it, commission and all roundings included.
QuoteSuffices ==
    query_pair_info.asset_infos # << >> =>
        \A ask_amount \in Amounts, k \in 1..2 :
            LET quote == query_reverse_simulation(Infos[3 - k], ask_amount)
            IN  quote # NoOffer =>
                    query_simulation(Infos[k], quote.offer_amount + 1).return_amount
                        >= ask_amount

\* Swaps are priced at the reserves before the offer, as query_simulation is:
\* a trade that takes effect takes from the ask reserve what the query said of
\* its offer just before, and for a native one what deduct_tax makes of that.
Taken(ask, return_amount) == Cost(into_msg(ask, return_amount, Pair, Alice))
SimulationHonoured ==
    [][committed.total_supply = committed'.total_supply /\ query_pair_info.asset_infos # << >>
       => LET change(k) == Reserves(committed')[k] - Reserves(committed)[k]
          IN  \A k \in 1..2 :
                  change(k) > 0 /\ change(3 - k) < 0 =>
                      -change(3 - k) = Taken(Infos[3 - k],
                          query_simulation(Infos[k], change(k)).return_amount)]_committed

\* Seen from outside, each transaction is one step of a Vault, valued by the
\* product of its reserves: the same curve for every pool.
ProductPerShareKept(curve, reserves, shares, new_reserves, new_shares) ==
    new_reserves[1] * new_reserves[2] * shares * shares
        >= reserves[1] * reserves[2] * new_shares * new_shares
V == INSTANCE Vault WITH reserves <- Reserves(committed),
                         shares <- committed.total_supply,
                         curve <- "x * y = k",
                         Fair <- ProductPerShareKept
ImplementsVault == V!Spec

=============================================================================
