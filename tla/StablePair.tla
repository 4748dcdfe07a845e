----------------------------- MODULE StablePair -----------------------------
(***************************************************************************)
(* The stable pair contract (contracts/terraswap_stable/src/contract.rs)   *)
(* on its Chain.                                                           *)
(***************************************************************************)
EXTENDS CurveRoot, Chain

CONSTANTS
    InstantiateMsgs,    \* the pools that may be created
    MinOuts,            \* the minimal outputs users ask for
    SwapPairs,          \* the (offer, ask) pairs users try to swap
    SupplyBound         \* users stop depositing at this LP supply

NoPair == [asset_infos |-> << >>, amplification |-> 0, fee |-> 0,
           liquidity_token |-> NoToken]          \* nothing stored yet

ASSUME PairAssumption ==
    /\ MinOuts \subseteq Nat
    /\ SwapPairs \subseteq Assets \X Assets
    /\ SupplyBound \in Nat

\* instantiate checks nothing of its message; a pool is taken to have at
\* least one asset and no asset twice.
ASSUME InstantiateAssumption ==
    \A msg \in InstantiateMsgs :
        /\ msg \in [asset_infos : Seq(Assets), amplification : Nat, fee : Nat]
        /\ Len(msg.asset_infos) > 0
        /\ \A k, l \in 1..Len(msg.asset_infos) :
              msg.asset_infos[k] = msg.asset_infos[l] => k = l

PairCurve == [amp |-> AsU64(pair_info.amplification),
              fee_numerator |-> AsU64(pair_info.fee)]

(***************************************************************************)
(* instantiate, and reply to the message it leaves.                        *)
(***************************************************************************)
instantiate(msg) ==
    /\ pair_info = NoPair
    /\ Become([asset_infos |-> msg.asset_infos,
               amplification |-> msg.amplification,
               fee |-> msg.fee,
               liquidity_token |-> NoToken],
              bal, total_supply,
              [x \in {1} |-> Msg("Instantiate", LpToken, Pair, Pair, 0)])

(***************************************************************************)
(* provide_liquidity: the assets named are the pool's, in its order, with  *)
(* these amounts (any other list panics).  Native deposits have come with  *)
(* the call, cw20 deposits are left to be pulled.                          *)
(***************************************************************************)
\* The deposit is pulled and mint_amount minted, if that is enough.
TakeDeposit(b, user, amounts, mint_amount, min_out_amount, receiver) ==
    LET pulled == {k \in 1..NCoins : ~is_native_token(Infos[k])}
    IN  /\ mint_amount # None
        /\ mint_amount >= AsU64(min_out_amount)
        /\ mint_amount # 0
        /\ Become(pair_info, b, total_supply,
                  [x \in pulled \cup {LpPosition} |->
                      IF x = LpPosition
                      THEN Msg("Mint", pair_info.liquidity_token, Pair, receiver,
                               mint_amount)
                      ELSE Msg("TransferFrom", Infos[x], user, Pair, amounts[x])])

provide_liquidity(user, amounts, min_out_amount, receiver, funds) ==
    LET b == WithFunds(user, funds)
        pools == query_pools(b)
        old_balances ==
            [k \in 1..NCoins |->
                Sub(pools[k], IF is_native_token(Infos[k]) THEN amounts[k] ELSE 0)]
        new_balances == [k \in 1..NCoins |-> Add(old_balances[k], amounts[k])]
    IN  /\ Ready
        /\ CanFund(user, funds)
        /\ \A k \in 1..NCoins :
              /\ assert_sent_native_token_balance(Infos[k], amounts[k], funds)
              /\ new_balances[k] # None
        /\ TakeDeposit(b, user, amounts,
                       deposit(PairCurve, old_balances, new_balances,
                               AsU64(total_supply)),
                       min_out_amount, receiver)

\* return_amount of pool asset j is paid, if it is more than the minimum.
PayReturn(b, j, return_amount, min_out_amount, to) ==
    /\ return_amount # None
    /\ return_amount > min_out_amount
    /\ Become(pair_info, b, total_supply,
              [x \in {j} |-> into_msg(Infos[j], return_amount, Pair, to)])

(***************************************************************************)
(* swap, on the ledger b that the offer has already been added to.  An     *)
(* offer or an ask that is not found leaves i or j at the first pool.      *)
(***************************************************************************)
swap(b, offer, offer_amount, ask, min_out_amount, to) ==
    LET i == IF InPool(offer) THEN IndexOf(offer) ELSE 1
        j == IF InPool(ask) /\ ask # offer THEN IndexOf(ask) ELSE 1
        balances == [k \in 1..NCoins |->
                        Sub(query_pools(b)[k],
                            IF Infos[k] = offer THEN offer_amount ELSE 0)]
    IN  /\ \A k \in 1..NCoins : balances[k] # None
        /\ PayReturn(b, j, exchange(PairCurve, i, j, AsU64(offer_amount), balances),
                     min_out_amount, to)

\* ExecuteMsg::Swap, for native offers.
execute_swap(user, offer, offer_amount, ask, min_out_amount, to, funds) ==
    /\ Ready
    /\ is_native_token(offer)
    /\ CanFund(user, funds)
    /\ assert_sent_native_token_balance(offer, offer_amount, funds)
    /\ swap(WithFunds(user, funds), offer, offer_amount, ask, min_out_amount, to)

(***************************************************************************)
(* receive_cw20: a token contract has moved amount from user to the pair   *)
(* and calls it with the hook the user chose.                              *)
(***************************************************************************)
receive_swap(token, user, amount, ask, min_out_amount, to) ==
    /\ Send(token, user, amount)
    /\ InPool(token)
    /\ swap(Moved(bal, token, user, Pair, amount), token, amount, ask,
            min_out_amount, to)

withdraw_liquidity(token, user, amount) ==
    LET b == Moved(bal, token, user, Pair, amount)
        share_ratio == FromRatio(amount, total_supply)
        refund(k) == Scaled(query_pools(b)[k], share_ratio)
    IN  /\ Send(token, user, amount)
        /\ token = pair_info.liquidity_token
        /\ total_supply # 0
        /\ share_ratio \in U128
        /\ Become(pair_info, b, total_supply,
                  [x \in 1..LpPosition |->
                      IF x = LpPosition
                      THEN Msg("Burn", pair_info.liquidity_token, Pair, Pair, amount)
                      ELSE into_msg(Infos[x], refund(x), Pair, user)])

\* out_amount of pool asset i is paid for amount LP tokens.  The refund goes to
\* info.sender, which is the LP token, not the user.
PaySingle(b, i, amount, out_amount, min_out_amount) ==
    /\ out_amount # None
    /\ out_amount > AsU64(min_out_amount)
    /\ Become(pair_info, b, total_supply,
              [x \in {i, LpPosition} |->
                  IF x = LpPosition
                  THEN Msg("Burn", pair_info.liquidity_token, Pair, Pair, amount)
                  ELSE into_msg(Infos[i], out_amount, Pair, pair_info.liquidity_token)])

withdraw_single_liquidity(token, user, amount, asset, min_out_amount) ==
    LET b == Moved(bal, token, user, Pair, amount)
    IN  /\ Send(token, user, amount)
        /\ token = pair_info.liquidity_token
        /\ InPool(asset)
        /\ PaySingle(b, IndexOf(asset), amount,
                     remove_liquidity_single_token(
                         PairCurve, query_pools(b), AsU64(amount), IndexOf(asset),
                         AsU64(total_supply)),
                     min_out_amount)

\* The query, answered from the last committed state.
query_pool == [assets |-> Reserves(committed), total_share |-> query_supply(committed)]

(***************************************************************************)
(* The specification.                                                      *)
(***************************************************************************)
Init ==
    /\ pair_info = NoPair
    /\ bal = [a \in Tokens |-> [c \in Accounts |->
                 IF a \in Assets /\ c \in Users THEN Endowment[c] ELSE 0]]
    /\ total_supply = 0
    /\ msgs = NoMsgs
    /\ committed = [pair_info |-> pair_info, bal |-> bal, total_supply |-> total_supply]

Funds == [NativeTokens -> Amounts]

\* The messages a user may send to the pair,
ExecuteMsg(user) ==
    \/ /\ total_supply <= SupplyBound
       /\ \E amounts \in [1..NCoins -> Amounts], min_out \in MinOuts,
             receiver \in Receivers, funds \in Funds :
             provide_liquidity(user, amounts, min_out, receiver, funds)
    \/ \E pair \in SwapPairs, amount \in Amounts, min_out \in MinOuts,
          to \in Receivers, funds \in Funds :
          execute_swap(user, pair[1], amount, pair[2], min_out, to, funds)

\* and along with a cw20 token.
Cw20HookMsg(user) ==
    \/ \E pair \in SwapPairs, amount \in Amounts, min_out \in MinOuts,
          to \in Receivers :
          receive_swap(pair[1], user, amount, pair[2], min_out, to)
    \/ \E token \in Tokens, amount \in Amounts \cup {bal[LpToken][user]} :
          withdraw_liquidity(token, user, amount)
    \/ \E token \in Tokens, amount \in Amounts \cup {bal[LpToken][user]},
          asset \in Assets, min_out \in MinOuts :
          withdraw_single_liquidity(token, user, amount, asset, min_out)

Call(user) == ExecuteMsg(user) \/ Cw20HookMsg(user)

Next ==
    \/ \E msg \in InstantiateMsgs : instantiate(msg)
    \/ pair_info # NoPair /\ \E user \in Users : Call(user)
    \/ \E token \in Tokens, user \in Users, to \in Receivers, amount \in Gifts :
          transfer(token, user, to, amount)
    \/ \E x \in DOMAIN msgs : Execute(x) \/ Abort(x)

Spec == Init /\ [][Next]_vars

(***************************************************************************)
(* Properties.                                                             *)
(***************************************************************************)
PairInfos == [asset_infos : Seq(Assets), amplification : Nat, fee : Nat,
              liquidity_token : {NoToken, LpToken}]
\* Every variable has its type: no balance and no supply is ever negative.
TypeOK ==
    /\ pair_info \in PairInfos
    /\ bal \in Ledgers
    /\ total_supply \in Nat
    /\ DOMAIN msgs \subseteq Nat
    /\ msgs \in [DOMAIN msgs -> Messages]
    /\ committed \in [pair_info : PairInfos, bal : Ledgers, total_supply : Nat]

\* The value D of reserves on a curve, and of a committed state.
Worth(curve, reserves) == get_d(curve, reserves, None)
CurveOf(info) == [amp |-> AsU64(info.amplification), fee_numerator |-> AsU64(info.fee)]
Invariant(st) == Worth(CurveOf(st.pair_info), Reserves(st))

\* A pool can always take a deposit: get_d exists for its reserves, so that
\* provide_liquidity does not panic on them whatever is deposited.
AcceptsDeposits ==
    committed.pair_info # NoPair => Invariant(committed) # None

\* A pool is never taken to be worth less than it is: get_d, which deposits and
\* withdrawals are priced by, is not below the root of the invariant, whichever
\* reserves the pool has come to and wherever the iteration stops.
NeverUndervalued ==
    committed.pair_info.asset_infos # << >> /\ Invariant(committed) # None =>
        ~Below(CurveOf(committed.pair_info), Invariant(committed) + 1, Reserves(committed))

\* A swap or a withdrawal in one asset, which takes from one of two reserves,
\* takes at most a unit more than leaves on the curve what belongs to the LP
\* tokens that remain: their share of D as get_d found it before.
TakenOnCurve ==
    [][LET info == committed.pair_info
           d_0 == Invariant(committed)
           before == Reserves(committed)
           after == Reserves(committed')
       IN  /\ Len(info.asset_infos) = 2
           /\ committed.total_supply \in U64
           /\ committed'.total_supply <= committed.total_supply
           => \A k \in 1..2 :
                 after[k] < before[k] /\ after[3 - k] >= before[3 - k] =>
                     \A d \in 0..d_0 :
                         d * committed.total_supply <= d_0 * committed'.total_supply =>
                             Below(CurveOf(info), d, [after EXCEPT ![k] = @ + 1])]_committed

\* The LP supply stays below 2^64, so that the casts `as u64` of the supply and
\* of the amounts burnt lose nothing (at 2^64 a deposit would be the first).
SupplyFitsU64 == total_supply \in U64

\* No transaction, whoever sends it, lowers the value D behind an LP token,
\* except by the one unit that get_d's integer result may be off by (as long
\* as the reserves have not grown past what get_d can compute; in reserves far
\* larger and further apart than these, get_d may be off by more).
SharePriceKept ==
    [][/\ committed.total_supply > 0
       /\ committed'.total_supply > 0
       /\ Invariant(committed') # None
       =>
          (Invariant(committed') + 1) * committed.total_supply
              >= Invariant(committed) * committed'.total_supply]_committed

\* A transaction that neither mints nor burns takes from a reserve only what
\* it pays for in another asset of the pool.
TradePaidIn ==
    [][committed.total_supply = committed'.total_supply =>
          \A k \in 1..Len(committed.pair_info.asset_infos) :
              Reserves(committed')[k] < Reserves(committed)[k] =>
                  \E l \in 1..Len(committed.pair_info.asset_infos) :
                      Reserves(committed')[l] > Reserves(committed)[l]]_committed

\* A withdrawal of every asset takes from each reserve what the curve's
\* remove_balanced_liquidity makes of the pool as it was queried before, or a
\* unit less: the share is rounded through a Decimal and then once more.
WithdrawsBalanced ==
    [][LET burnt == committed.total_supply - committed'.total_supply
           taken(k) == Reserves(committed)[k] - Reserves(committed')[k]
           coins == 1..Len(query_pair_info.asset_infos)
           due == remove_balanced_liquidity(query_pool.assets, burnt, query_pool.total_share)
       IN  burnt > 0 /\ (\A k \in coins : taken(k) > 0) =>
               \A k \in coins : taken(k) \in {due[k] - 1, due[k]}]_committed

\* A balanced withdrawal leaves at least as much of every asset behind each
\* remaining LP token as was there before it, rounding included.
WithdrawFair ==
    [][/\ committed'.total_supply < committed.total_supply
       /\ \A k \in 1..Len(committed.pair_info.asset_infos) :
              Reserves(committed')[k] < Reserves(committed)[k]
       => \A k \in 1..Len(committed.pair_info.asset_infos) :
              Reserves(committed')[k] * committed.total_supply
                  >= Reserves(committed)[k] * committed'.total_supply]_committed

\* Seen from outside, each transaction is one step of a Vault, valued by the
\* invariant D, up to the unit that get_d may be off by.
InvariantPerShareKept(curve, reserves, shares, new_reserves, new_shares) ==
    (Worth(curve, new_reserves) + 1) * shares >= Worth(curve, reserves) * new_shares
V == INSTANCE Vault WITH reserves <- Reserves(committed),
                         shares <- committed.total_supply,
                         curve <- CurveOf(committed.pair_info),
                         Fair <- InvariantPerShareKept
ImplementsVault == V!Spec

=============================================================================
