# Terraswap in TLA+

A TLA+ development of the contracts in this repository: modules that model
them, TLC runs that check small instances, and TLAPS proofs that hold for every
instance. Paths below are relative to `src/`, the repository.

## 1. The system

Terraswap is an automated market maker for the Terra chain, written as CosmWasm
contracts. A contract has no threads. It is called by a transaction, reads its
storage and the chain through queries, writes its storage and answers with a
list of messages (payments, calls of other contracts). The chain executes the
list in order, each message with all that follows from it before the next, and
if one fails the whole transaction is undone. So the hard behaviours are not
races in the usual sense. They are:

* what is true *between* a handler's answer and the execution of its last
  message (balances read by the handler are stale when the messages run);
* long sequences of individually legal transactions, sent by people who choose
  their inputs freely, that drift or drain the pool;
* integer arithmetic: rounding, overflow, truncating casts, an iteration that
  is cut off, zero;
* other people's rules: the chain's tax on native coins, the cw20 contract's
  refusal of zero amounts, unannounced transfers to the contract.

### Components

| Component | Source | State | Operations | Interacts with |
|---|---|---|---|---|
| stable pair | `contracts/terraswap_stable/src/contract.rs`, `state.rs`, `error.rs` | `PAIR_INFO`: assets, amplification, fee, LP token address; its reserves are its balances elsewhere | `instantiate`, `reply`, `ProvideLiquidity`, `Swap`, cw20 hooks `Swap`, `WithdrawLiquidity`, `WithdrawSingleLiquidity`, queries | bank, cw20 tokens, LP token, curve, asset package |
| StableSwap curve | `contracts/terraswap_stable/src/curve.rs` | none (pure) | `get_d`, `get_y`, `get_y_d`, `exchange`, `reverse_exchange`, `deposit`, `remove_liquidity_single_token`, `get_virtual_price` | called by the stable pair |
| asset and querier package | `packages/terraswap/src/asset.rs`, `querier.rs` and the message types | none | tax, payout messages, check of sent funds, reading of balances | all contracts; the chain |
| factory | `contracts/terraswap_factory` | `CONFIG`, `PAIRS` by `pair_key`, `TMP_PAIR_INFO` | `instantiate`, `update_config`, `create_pair`, `reply`, paginated queries | instantiates pairs (and they their LP tokens), is queried by the router and by clients |
| router | `contracts/terraswap_router` | `CONFIG` | `execute_swap_operations`, `execute_swap_operation`, `assert_minium_receive`, simulation | factory, pairs, Terra market, itself |
| constant-product pair | `contracts/terraswap_pair_deprecated` | `PAIR_INFO` | as the stable pair, on x*y=k | as the stable pair |
| LP token | `contracts/terraswap_token`, `packages/terraswap/src/token.rs` | `TOKEN_INFO` and the ledger of cw20-base | `instantiate` with its checks; the rest is cw20-base | instantiated, minted and burnt by a pair |
| protobuf responses, schemas, examples, scripts, mocks | `response.rs`, `schema/`, `examples/`, `integration/`, `mock_querier.rs` | none | | |

Only `packages/*` and `contracts/terraswap_stable` are members of the Cargo
workspace. The factory, the router and the deprecated pair still use two-asset
messages that the shared package no longer has, so they are an older
generation of the system. The stable pair is therefore the core: it was modelled
first. The router is modelled over the
constant-product pairs it was written for.

### What makes each component correct

* Stable pair: it can always make the payments it announces, tax included; no
  sequence of calls empties a reserve while LP tokens exist; no transaction
  lowers the value behind an LP token by more than rounding; a reserve shrinks
  only against payment in another; a withdrawal takes no more than its share; a
  pool can always take a new deposit; it is never priced below its worth, and
  whoever takes from one reserve only takes at most a unit off the curve,
  however far apart the reserves have drifted; casts lose nothing.
* Curve: D is the root of the invariant up to rounding; swaps and deposits do
  not lower it; a larger offer is never paid less; the reverse quote suffices.
* Asset: what is held back for tax covers the tax.
* Factory: one pair for a set of assets, however their addresses are spelled;
  what it lists is what the pair itself stores, with an LP token that exists and
  that the pair can mint; a listed pair is never replaced; paging through the
  list misses nothing, repeats nothing and comes to an end.
* Constant-product pair: as the stable pair, with x*y=k for the curve: no trade
  lowers the product, no deposit or withdrawal lowers what an LP token is
  entitled to, a trade pays what the simulation said, the reverse quote buys what
  was asked for.
* Both pairs, seen from outside: a vault that issues shares of its reserves, one
  atomic step per transaction (`Vault`).
* Router: the caller gets at least the minimum or nothing happened; a chain of
  swaps delivers what its simulation promised and the router keeps nothing; of
  everybody else, nobody's balance moves and no pair is poorer (`Settlement`).

## 2. Modules

| Module | Models | Extends |
|---|---|---|
| `CheckedArith` | Rust's `checked_*` arithmetic and casts; the widths are the constants `Two64`, `U128Max` | |
| `Curve` | `curve.rs`, every function | `CheckedArith` |
| `CurveRoot` | what D stands for: the polynomial of the invariant, and being at most its root | `Curve` |
| `Asset` | `asset.rs`: tax, payout messages, check of sent funds; `Decimal`'s rounding | |
| `Chain` | what every pair shares: its storage, the bank and cw20 ledgers, the LP token, the execution of messages; properties of any pair | `CheckedArith`, `Asset` |
| `StablePair` | the handlers of the stable pair's `contract.rs`, and its properties | `CurveRoot`, `Chain` |
| `Vault` | abstract: what any pair promises; a parameter `Fair` says what its curve keeps | |
| `StablePairDocs` | what the documentation says where the code differs | `StablePair` |
| `ProductCurve` | `compute_swap`, `compute_offer_amount` and the limits of the deprecated pair | `CheckedArith`, `Asset` |
| `ConstantProduct` | the handlers of the deprecated pair, and its properties | `ProductCurve`, `Chain` |
| `Router` | the router, with pairs, market and ledgers | `ProductCurve` |
| `Settlement` | abstract: what a route promises to the rest of the world | |
| `RouterTests` | the unit test of `assert_operations`, put to the model as an `ASSUME` | `Router` |
| `Token` | the LP token's `instantiate` and the checks of its message | |
| `Factory` | the factory, the instantiation of pairs and LP tokens, a client that pages | `Token` |
| `Directory` | abstract: what the factory promises, to users and to a reader | |
| `CurveCheck` | the curve against its mathematical definition | `CurveRoot` |
| `MCStablePair`, `MCCurve`, `MCConstantProduct`, `MCRouter`, `MCFactory` | instances for TLC | the module named |
| `Arith_proofs` | lemmas: quotients, products, `Decimal`, tax, sums, least elements | `CheckedArith`, `Asset` |
| `Curve_proofs` | lemmas: what the curve's functions answer, and on which side of the root | `CurveRoot`, `Arith_proofs` |
| `ProductCurve_proofs` | lemmas: what a swap and a quote of the deprecated pair answer | `ProductCurve`, `Arith_proofs` |
| `Chain_proofs` | lemmas: what the messages of a transaction still do to the pool | `Chain`, `Arith_proofs` |
| `StablePair_proofs`, `ConstantProduct_proofs`, `Router_proofs`, `Factory_proofs` | theorems | the module named and the lemmas it needs |

### Chain and the two pairs

* `pair_info` is `PAIR_INFO`; `NoPair` before `instantiate`. The contract's own
  address is the constant `Pair` and is not repeated in the record.
* `bal[asset][account]` is the bank and every cw20 ledger. The reserves are
  `bal[info][Pair]`, read by `query_pools`, as in the code.
* `total_supply` is the LP token's.
* `msgs` holds the messages of the transaction in progress, by position.
  Message `k` concerns pool asset `k`; the LP token's comes last. That is the
  order of the code, where the message about the LP token is pushed last.
* `committed` is the state at the end of the last transaction, to which a
  failure returns. Properties about whole transactions are stated on it.

A handler that returns `Err` or panics leaves nothing behind, so its conditions
are guards of its action (`None` is the `Option` and the panic alike). The
action ends with the messages in `msgs`. Then `Execute` takes them in order;
`Abort` undoes the transaction when a message cannot be executed, and may do so
at any `TransferFrom`, whose allowance is not modelled. No call comes between
two messages of a transaction: the pool's tokens are plain cw20 tokens and do
not call back.

| Action | Code |
|---|---|
| `instantiate`, `execute_instantiate` with `reply` | `instantiate`, `reply` |
| `provide_liquidity` | `provide_liquidity` |
| `execute_swap`, `receive_swap`, both through `swap` | `execute`, `receive_cw20`, `swap` |
| `withdraw_liquidity` | `withdraw_liquidity` |
| `withdraw_single_liquidity` (stable pair only) | `withdraw_single_liquidity` |
| `transfer` | external: tokens sent with no call |
| `query_pool`, `query_pair_info`, `query_simulation`, `query_reverse_simulation` (operators) | the queries, answered from `committed` |
| `execute_transfer`, `execute_bank_send`, `execute_mint`, `execute_burn`, `Abort` | external: bank, cw20, wasm |

External behaviour, modelled from how the code uses it: cw20 `Send`, `Transfer`,
`Mint` and `Burn` and the bank's `Send` refuse a zero amount, as cw20-base and
the chain do; `TransferFrom` accepts zero; Terra charges the sender of a native
coin `min(amount * rate, cap)`, rounded down, and nothing for Luna.
`Decimal::from_ratio` and `Uint128 * Decimal` round down. The tax a *user* pays
on top of the funds of a call goes to the chain, not through the pool, and is
left out. A pool's assets are taken to be distinct (`InstantiateAssumption`,
`PoolAssumption`); the contracts do not check it.

Abstracted: addresses and denominations are model values, so the conversions
between raw and human addresses are renamings; attributes and error texts are
left out; `to` and `receiver`, optional in the code, are drawn from `Receivers`.

### Factory

`config`, `pairs` and `tmp_pair_info` are `CONFIG`, `PAIRS` and
`TMP_PAIR_INFO`; `pair_infos` is the `PAIR_INFO` of every pair contract and
`token_infos` the `TOKEN_INFO` of every LP token, by address; `pending` is the
stage of the creation in progress; `committed` is what a failure returns to;
`listing` is a client's progress through the pages. A creation is five actions in
one transaction:

| Action | Code |
|---|---|
| `execute_create_pair` | the factory's handler: refuses a key that is taken, saves `TMP_PAIR_INFO` |
| `instantiate_pair` | the pair's `instantiate`, which asks for the LP token (`LpTokenMsg`) |
| `instantiate_token` | the token's `instantiate` (module `Token`): checks the message, stores minter and cap |
| `reply_pair` | the pair's `reply`: it stores the LP token's address |
| `reply` | the factory's `reply`: reads that address from the pair's storage and lists the pair |

`Abort` may come at any of them; a wrong code id leaves it as the only step.
`execute_update_config` is the owner's.

An asset is a record of a kind and a name. A name is a string of bytes: a
denomination, or a spelling of an address. `to_raw` and `to_normal` put
spellings to addresses and back, through the external tables `addr_canonicalize`
and `addr_humanize`; the instance has an address with two spellings. `pair_key`
is the concatenation the code makes, `Precedes` the order of byte strings, and
`calc_range_start` appends the byte 1, so collisions and page bounds are those of
the code. Addresses of contracts the factory creates are numbers: nothing
depends on how they are spelled.

`start_listing` and `read_on` are a client that asks for the page after the last
pair it was given, until it is given none, while others create pairs. A query may
be answered between two steps of a transaction; that is more than the chain
allows and makes no difference, since `PAIRS` changes in the last step only.

### Router

`bal` is every ledger, `stack` the messages left, the next one first: a message's
own messages go on top, which is the chain's depth-first order. `call` remembers
the call in progress for the properties only.

| Action | Code |
|---|---|
| `execute`, `receive_cw20`, through `execute_swap_operations` | the same |
| `execute_swap_operation` | the same, for `NativeSwap` (`market_swap_msg`) and `TerraSwap` (`asset_into_swap_msg`) |
| `assert_minium_receive` | the same (the spelling is the code's) |
| `swap`, `pay` | a pair's `swap` and the payment of its result |
| `market_swap` | external: Terra's market, at a constant rate, taxed on the offer only when it sends the result on |
| `trade`, `transfer` | other transactions: a direct swap at a pair, tokens left in the router |
| `Abort` | external: the failure of any message |

`simulate_swap_operations` is the query, as an operator on a ledger. The factory
is the constant `pair_assets`; the router asks it on every operation and it never
changes a listed pair (theorem `ListedForGood`). `ExecuteSwapOperation` sent by
anyone but the router is refused, and `AssertMinimumReceive` sent by anyone does
nothing, so neither is an action of users. The pairs' reserves are given from the
start. The caller's funds are a coin of each denomination (`execute`) or one token
(`receive_cw20`). `query_pool`, `query_balance` and `query_token_balance` are the
querier package's, on a ledger.

### The abstract specifications

| Abstract | Implemented by | Under the mapping |
|---|---|---|
| `Vault`: `Open`, `Deposit`, `Withdraw`, `Trade`, `Gift`; while there are shares there is something of every asset behind them, and the worth behind each does not fall | `StablePair` | reserves and supply of `committed`; worth is D on the pool's own amplification, up to one unit |
| the same | `ConstantProduct` | the same; worth is the square root of x*y, compared exactly, squared |
| `Settlement`: one user pays, one receives in one asset, no other user's balance moves, no pair's product falls | `Router` | the ledger of `committed` |
| `Directory`: one contract for each set of assets, only added; a reader who ends has been given all that was listed when it began | `Factory` | sets of assets instead of keys, `listing` without its cursor |

The mapping of the first three reads `committed`, so a transaction of many
messages is one abstract step, and one that fails is none. What `Vault` adds to
the separate properties is the case distinction: every transaction is *one* of
the five operations. A payout without payment, shares without a deposit, a
withdrawal that leaves a reserve larger, or two assets leaving for one fits none.

## 3. Runs

Widths: for the stable pair, unless said otherwise, `Two64` is 46340 and
`U128Max` is 46340^2 - 1, the largest TLC's integers allow, with the same
relation between them as 2^64 and 2^128. Amounts are single digits. That is where
rounding matters most: fee and commission are 25%, so that they are visible at
this size, and every payout is off by a unit that is a large part of it.
`SupplyBound` stops deposits above a supply; it is above every reachable supply
in the passing runs but `Taxed`, where nobody deposits once the supply is above 2:
that run is about what happens to the pool after the deposits.

| Run | Instance | Checks |
|---|---|---|
| `Pool` | one provider, three assets (two native, one cw20), amplification 2, every operation, amounts 0, 1, 4 | `TypeOK`, `NeverDrained`, `AcceptsDeposits`, `ImplementsVault`, `WithdrawsBalanced`, and no deadlock |
| `Taxed` | two users, two assets, amplification 3, 30% tax capped at 1, amounts 1 and 3, unannounced transfers of 6 that drive the reserves apart (to 1 and 7), LP tokens minted to others and to the pair itself | `PayoutsCovered`, `NeverUndervalued`, `SharePriceKept`, `WithdrawFair`, `TakenOnCurve` |
| `Narrow` | u64 of 4 bits, u128 of 8 bits | `SupplyFitsU64`, `NeverDrained`, `SharePriceKept` |
| `Curve` | every pool of two coins up to 20 and three coins up to 6, four amplifications, two fees | `DIsRoot`, `SwapKeepsD`, `OfferMonotone`, `ReverseCovers`, `DepositKeepsPrice` |
| `ConstantProduct` | two users, 30% tax capped at 1, slippage and spread limits, transfers | `PayoutsCovered`, `NeverDrained`, `QuoteSuffices`, `NobodyDiluted`, `ProductKept`, `SimulationHonoured`, `ImplementsVault` |
| `Router` | two pairs and the market forming a cycle of three assets; every route of one or two operations out of six, every way around the cycle, and a route that fails at its second operation; paid in one denomination, in two, or in the token; 30% tax capped at 1; other users' trades and transfers | `MinimumReceived`, `SimulationExact`, `NothingStranded`, `SwappedIntoOne`, `ImplementsSettlement` |
| `Factory` | a denomination that is a prefix of a token's address, that token in two spellings, any two of them in either order, the same one twice too, two owners, right and wrong code ids, pages of one and two | `ListedAgrees`, `DirectoryFaithful`, `ListedOnce`, `PairsKept`, `ImplementsDirectory`, `ListingEnds`, and no deadlock |

Deadlock is not checked where users can run out of everything they could send
(`Taxed`, `Narrow`, `ConstantProduct`, `Router`) and in `Curve`, whose states end
at the bound.

What the statements allow:

* `SharePriceKept`: one unit of D. On the pools of the runs `get_d` is up to two
  above the root (`DIsRoot`), so two of its values can disagree without any value
  having moved.
* `DIsRoot` is about pools on which the iteration stops by itself: none of the run
  exhausts the 32 rounds. That D is not below the root when it does is the theorem
  `PoolsAreNotUndervalued`, for any number of rounds; how far above it may then be
  is not checked.
* The allowances of one unit in `SharePriceKept` and `ImplementsVault`, and of two
  in `DIsRoot`, are for the pools of the runs. `get_d` is never below the root
  (proved), but how far above it stops depends on the pool: at amplification 1 and
  reserves of 803210947 and 1 it is 307 above, in pools of three coins it can be
  thousands. There a swap may lower the computed D by more than a hundred without
  taking anything off the curve; and because one unit of D can be worth many units
  of an asset, a swap of nothing into a pool of 1 and some 767 million is answered
  with hundreds of units, so `TradePaidIn` and `ImplementsVault` are not claimed of
  such pools. What holds of two coins at every size is `TakenOnCurve`, which
  compares reserves with the curve and not two computed values of D, and
  `NeverUndervalued`.
* `ImplementsVault` is checked of the stable pair for trades between the pool's
  assets, and `AcceptsDeposits` without tax; without these limits `TradePaidIn`,
  which a `Vault`'s trades satisfy, and `AcceptsDeposits` fail, see below.
* `WithdrawsBalanced`: the contract computes refunds through a `Decimal` and not
  by `remove_balanced_liquidity` of the curve, which nothing calls. The two agree
  up to a unit while the pool is smaller than `DECIMAL_FRACTION`, as it is in the
  run; above 10^18 units of an asset the share's rounding shows more.
* `QuoteSuffices`: the reverse quote rounds down, so it may be one unit short;
  the quote and one more buys what was asked for. Nothing says it should be
  exact.
* `ProductKept`: the return is rounded through a `Decimal`, whose unit is
  1/1000 here and 10^-18 in the code. The reserves are far below
  `DECIMAL_FRACTION` in the run; with reserves above 10^18 units `from_ratio`
  drops more than the rounding of the return gives back. A pool of 1 and 1 that is
  offered 10^18 or more pays its whole reserve: the new ask reserve is rounded to
  nothing. `NeverDrained` has the same limit.
* `SimulationExact` and `NothingStranded` are stated for routes in which each
  operation offers what the one before asked for, no pair or offer comes twice,
  and the router was empty at the start. `assert_operations` accepts more (its
  unit test has such a route, see `RouterTests`). For every route it accepts, with
  whatever is in the router, `SwappedIntoOne` says that all of what the route
  names ends in the asset of its last operation. That asset itself is excepted:
  of two operations that ask for it, the first leaves its result in the router,
  where the next route picks it up. No document says what such routes should do.
  `MinimumReceived` is checked for every route.
* `NothingStranded` and `SwappedIntoOne` allow `Dust` of a taxed denomination: what
  was held back for the tax and not charged, which is two units at a rate below
  one, one more for each whole the rate has, and never more than the cap (1 in the
  run).
* `Directory`'s `End`, by which a reader misses nothing, depends on the bound of
  a page (`ListedOnce` does not: any bound past the last key will do). It is the
  last key with the byte 1 appended, exclusive: a key that continues another one
  with a byte 0, or with a 1 and nothing else, would be skipped. Denominations
  hold no such bytes, so this needs a token whose address begins with another
  asset's name and goes on like that; the instance has none. Keys that continue
  each other otherwise it has.
* `DirectoryFaithful` holds for names of which no two pairs concatenate to the
  same string; see `DocDirectory` for the others.

### Disagreements between code and documentation

Five runs state what a README or a comment says and show that the code does
something else.

| Run | Statement | What the code does |
|---|---|---|
| `DocBurn` | burning LP tokens returns the liquidity (stable README:26) | a single-sided withdrawal pays `info.sender`, the LP token contract (`contract.rs:442`) |
| `DocMinOut` | a deposit below the tolerance is refused (stable README:34) | the minimum is cut to 64 bits first (`contract.rs:300`) |
| `DocForeign` | a swap is of one asset of the pair to the other (`pair.rs:29`) | an unknown native offer is priced as the first asset (`contract.rs:501`) |
| `DocDust` | users can provide liquidity (stable README:24) | after a taxed pool is redeemed in full, dust on one side makes `get_d` fail for every deposit (`curve.rs:56`) |
| `DocDirectory` | the factory is a directory for all pairs (factory README:3) | `pair_key` joins two names with nothing between, so two sets of assets can share a key (`state.rs:31`) |

The stable pair's README still describes the constant-product pair in places
(the product K, deposits credited at the pool's ratio). Those sentences are
about the other contract, for which `ProductKept` and `NobodyDiluted` check them.

### Liveness and fairness

A contract acts only when called and nothing in the code obliges anyone to call
it, so the pairs and the router have no fairness. What a user must be *able* to
do there is stated as safety (`AcceptsDeposits`) or as the absence of deadlock.

The client of the factory is the exception. `Fairness` is weak fairness of
`read_on`: a client that has begun goes on asking, which is an assumption about
the client, and a query is always answered, which the code gives: `query_pairs`
has no error path for a cursor it handed out itself, and waits for nobody. Nothing
is assumed of those who create pairs. `ListingEnds` holds because each page moves
the cursor past a key and there are finitely many sets of assets; with
`calc_range_start` or its comparison off by one the client reads the same page for
ever.

## 4. Proofs

For every value of the constants that satisfies the named assumptions of the
modules: any assets, users' inputs, widths, tax rate and cap, fee, amplification,
number of Newton rounds, pairs and routes. What a theorem assumes beyond that is
a named definition of its module:

| Hypothesis | Says | Why, and when it is true |
|---|---|---|
| `SeveralAssets` (stable pair) | no pool of a single asset | the factory makes pools of two; in a pool of one a single-sided withdrawal is not at the share, and no redemption can be told from one |
| `Scarce` (constant-product pair, router) | no more of an asset circulates (router: is in a pool) than `DECIMAL_FRACTION`, 10^18 units in the code | `compute_swap` rounds the new ask reserve through a `Decimal`. Beyond, an offer of 10^18 to a pool of 1 and 1 takes all of it, so `NeverDrained` and `ProductKept` are false there |
| `NoStrays` (constant-product pair) | not both assets of a pool are native, and the pair does not pay itself | coins of the ask asset may come along with a native offer, and `swap` takes off the offer only; a swap may name the pair as receiver. Both are gifts, and what leaves the pool is then not the answer of the simulation |
| `Ample` (constant-product pair) | `Scarce`; products of two reserves fit the widths, which `Scarce` implies of 128 and 256 bits; amounts are at most `COMMISSION_RATE`, 3 * 10^15 in the code | a quote is a quotient of `Decimal`s; for larger amounts its last digit is worth more than a unit and `QuoteSuffices` is false |
| `OneKeyEach` (factory) | no key stands for two sets of assets | false of the names in `DocDirectory`, where `DirectoryFaithful` fails |
| `KeysApart` (factory) | a key that begins with another goes on with a byte above 1 | else the bound of a page may skip it; names have no such bytes |
| `Untaxed` (stable pair) | no tax is due | with tax `AcceptsDeposits` is false, see `DocDust`, and a withdrawal pays less than it takes |
| `Undonated` (stable pair) | nobody sends the pair tokens without a call | a unit of one asset sent to an empty pool makes `get_d` fail on it, until somebody sends the others as well |
| `Modest` (stable pair) | `2 * n` times all there is of an asset, cubed (for two coins) and doubled, with the amplification's term, fits 128 bits; at least two assets; the amplification is positive and fits 64 bits when multiplied by their number | `get_d` computes such numbers in 128 bits and really overflows: of two coins when their sum is about 2^42 and one reserve is 1. For balanced pools the bound is higher |
| `Precise` (stable pair) | `Untaxed`, and no more of an asset circulates than `DECIMAL_FRACTION` | a share goes through a `Decimal`; beyond, it loses more than a unit |
| `Roomy`, `[]SupplyFitsU64` (stable pair) | a reserve times an LP supply fits 128 bits; the supply fits 64 | the product that `remove_balanced_liquidity` makes, and the cast `as u64` before it |
| `Paired` (stable pair) | of the pools of two assets: not both are native, and swaps offer one for the other | coins of the second asset may come along with the first and are not taken off; an offer of a foreign coin is priced as the first asset, see `DocForeign`. Nothing is asked of the sizes, the tax, the gifts or the fee |

All are true of the instances of the runs that check the property, so the
theorems speak of those too.

### What is proved

| Module | Theorem | States | Assumes |
|---|---|---|---|
| `StablePair_proofs` | `TypeCorrect` | `TypeOK`: nothing goes negative | |
| | `PayoutsAreCovered` | `PayoutsCovered` | |
| | `ReservesRemain` | `NeverDrained` | |
| | `WithdrawalsAreFair` | `WithdrawFair` | `SeveralAssets` |
| | `WithdrawalsAreBalanced` | `WithdrawsBalanced` | `SeveralAssets`, `Precise`, `Roomy`, `[]SupplyFitsU64` |
| | `DepositsAreAccepted` | `AcceptsDeposits` | `Modest`, `Undonated`, `Untaxed` |
| | `PoolsAreNotUndervalued` | `NeverUndervalued` | |
| | `TakesOnCurve` | `TakenOnCurve` | `Paired` |
| `ConstantProduct_proofs` | `PayoutsAreCovered` | `PayoutsCovered` | |
| | `NoDilution` | `NobodyDiluted` | |
| | `ReservesRemain` | `NeverDrained` | `Scarce` |
| | `ProductIsKept` | `ProductKept` | `Scarce` |
| | `ImplementsAVault` | `ImplementsVault` | `Scarce` |
| | `TradesAreHonoured` | `SimulationHonoured` | `NoStrays` |
| | `QuotesSuffice` | `QuoteSuffices` | `Ample` |
| `Router_proofs` | `MinimumIsReceived` | `MinimumReceived` | |
| | `SettlesAtOnce` | `ImplementsSettlement` | `Scarce`, always |
| | `RoutesEndInOne` | `SwappedIntoOne` | |
| | `NothingIsStranded` | `NothingStranded` | |
| | `SimulationsAreExact` | `SimulationExact` | |
| `Factory_proofs` | `DirectoryAgrees` | `ListedAgrees` | |
| | `ListedForGood` | `PairsKept` | |
| | `GivenOnce` | `ListedOnce` | |
| | `QueriesAreFaithful` | `DirectoryFaithful` | `OneKeyEach` |
| | `ImplementsADirectory` | `ImplementsDirectory` | `KeysApart` |

### The pairs

Most properties of a pair speak of committed states. They are not inductive:
between two commits the ledger passes through states that could not be committed
(a payout is due, the tokens to be burnt still exist). What survives every message
is the *outlook*: the reserves and the supply as they will be when the messages
that are left have been executed. `Chain_proofs` defines it (`Outlook`) and proves,
once for both pairs, that

* `ExecuteLemma`: executing a message leaves the outlook as it was, and the last
  one commits exactly that; the only exception are transactions that can no longer
  succeed because a payout of nothing is left (`Doomed`), which only an abort ends;
* `AbortLemma`, `TransferLemma`, `TakeDepositLemma`, `PayLemma`, `RedeemLemma`:
  what the outlook becomes when a handler begins a transaction;
* `TxInv` is kept: types, distinct assets, the LP supply is what the accounts
  hold, each message is one the handlers make, at its position, with an amount its
  payer has. `PayoutsCovered` follows (`CoveredLemma`), by `TaxLemma`: what
  `deduct_tax` leaves and the tax on it are together at most the amount.

What is left to each pair is one lemma for each handler, that its messages have
an outlook that may be committed. The inductive invariant `IInv` of a pair is
`TxInv` and a condition on the outlook `v` against the view `u` committed last.

* Of the stable pair: `Backed(v)` (every reserve positive while LP tokens exist)
  and `Ends(u, v)`, whose three parts are `WithdrawFair` (`FairEnd`),
  `TakenOnCurve` (`CurveEnd`) and `WithdrawsBalanced` (`BalancedEnd`) for `u` and
  `v`; and, of a pool that nobody gives anything, `Whole(v)`: some of every asset,
  or of none (`Unfunded`: there is nothing before it is created).
* Of the constant-product pair: `u` and `v` are related in one of four ways,
  `Given`, `Traded`, `Deposited` or `Withdrawn` (`Ends`). These are `Vault`'s
  operations before the refinement mapping, so that the refinement is read off the
  invariant, and each safety property is one of their consequences. The arithmetic
  is in `ProductCurve_proofs`: the new ask reserve times the new offer reserve is
  at least the old product although the first is a `Decimal` rounded down, the
  return rounded once more and the commission rounded to nothing (`SpreadLemma`,
  `LeftLemma`, `NetLemma`), and that a quote plus one buys what was asked for
  (`EnoughLemma`, `QuoteLemma`).

TLC checked both `IInv` on the instances of `Taxed` and `ConstantProduct`, and
that the runs satisfy the hypotheses above.

### The curve

`Curve_proofs` does not follow the Newton iterations to where they converge; that
would be an induction over data with a measure of distance. It uses what the last
step alone gives, whatever it started from (`NewtonDLemma`, `NewtonYLemma`: the
result is a step from some value, and lies in every set closed under steps).

* Whatever the result, an exchange and a single-sided withdrawal pay strictly less
  than the reserve (`ExchangeLemma`, `RemoveSingleLemma`), because the unit is held
  back by a checked subtraction, and a deposit mints a u64, and only when all new
  reserves are nonzero (`DepositLemma`), because D does not exist otherwise.
* `AboveRootLemma`: a step of `get_d`, rounded down in each of its quotients, never
  lands below the root, for any number of coins and from any start. It is the
  inequality between the tangent of a convex polynomial and the polynomial, kept
  through the rounding (`RoundLemma`): if `r` is at most the root, the
  step gives at least `r`. Hence `NeverUndervalued`, in every reachable state.
* `SolveLemma`: a step of `get_y` for two coins is at most two below the solution
  of its quadratic (`KeptLemma`), so that with the unit that `exchange` and
  `remove_liquidity_single_token` keep back an answer is at most one unit too much
  (`SwapOnCurveLemma`, `SingleOnCurveLemma`). Hence `TakenOnCurve`. `UpToLemma` says
  that more of a coin does not lower the root, which covers what else arrives.
* `FoundDLemma`: from the sum of the balances the iteration stays between 1 and
  twice the sum, and as long as the numbers of `Modest` fit, every intermediate
  result exists. With `Whole` (kept because a swap leaves something of both,
  `ExchangedLemma`, and only a withdrawal of all LP tokens leaves nothing) this is
  `AcceptsDeposits`.

### The router

Four invariants; the third gives two theorems.

* `Checked`: while a call with a minimum is executed, the assertion of its minimum,
  with the receiver's balance when the funds had come, is the bottom of the stack.
  Messages are only taken from the top and replaced by others (`ReplaceLemma`),
  and a call takes effect when the stack is empty, so it takes effect only through
  `assert_minium_receive`. Nothing about routes, pairs or amounts is needed.
* `Settleable`: there are a payer, a receiver and a target such that the ledger
  and the stack can still end in one step of `Settlement` from `committed`
  (`CanSettle`): of the users' balances only the payer's have fallen and only the
  receiver's of the target have risen (`Moves`), every message that is left is
  sent by router, pair or market and pays a user only as the last of the route
  (`ProperAll`), and no pair's product, less the payout it owes, has fallen
  (`Owing`, `NoneWorse`). `SwapLemma` uses `Scarce` and the lemmas of
  `ProductCurve_proofs`; `CostLemma`, that the tax is paid out of the swap's
  commission or out of the offer, never out of the reserves.
* `Sweeping`: of each asset the call is to swap away (`Cleans`), what there is now
  is dust, or is offered by an operation still on the stack, or is in the swap on
  top of it (`Takes`), and whatever a message may still bring of it is offered by a
  later one (`Cleared`). It begins with `RouteLemma`: on a route that
  `assert_operations` accepts, each asset asked for but the target is offered
  *later*, which is what the order of `remove` and `insert` in its loop is for
  (`AcceptedLemma`). A step replaces the top of the stack by at most one message,
  which keeps the positions (`SweepLemma`); `DustLemma` bounds what `deduct_tax`
  holds back against what the chain then charges. No hypothesis is needed, neither
  on amounts nor on which pairs the route goes through.
* `Following`: a call with a straight route is at some operation `k`. Those after
  `k` are still on the stack (`Remains`), find the pools as `committed` has them
  and none of the assets they offer but the next one (`Ahead`); the `k`-th is
  either done, and the router (at the end of the route: the receiver) has what
  `simulate_swap_operations` computes after `k` operations (`Brought`), or it is
  the message on top, whose result will be that (`InFlight`). The fold over the
  route is a function of `k` (`Simulation`); that it exists is shown with a least
  `k` for which it would not (`SimulationLemma`). The step that matters is
  `FollowSwapLemma`: the simulation and the pair take the tax off at different
  places, and a pair that would return nothing sends nothing.

### The factory

The content is in the stages of a creation. `IInv` is `ContractsOK` (every pair
contract has an address below the one given next, so a new address is new),
`Agrees` (`ListedAgrees` of the current state), `PendingOK` (at each stage
`TMP_PAIR_INFO` is the record of this very creation, its key is free, and the
pair's record and its token are the ones it will be listed with) and `CommittedOK`
(the first two, of the state to return to).

The client needs more: `ListingOK` says that what it was given are keys of
`PAIRS`, none twice, each at most the last one, and that the cursor is the last
one's; `OwedOK`, for `Directory`'s `End`, that what was listed when it began and
was not given to it lies past the cursor. Both rest on the order of byte strings
being total and on `calc_range_start` giving a bound past the key it was made
from. A byte string's order is decided at the first byte at which two differ. That
there is a first one needs no induction over strings, only that a nonempty set of
naturals has a least element, which the library proves of a well-founded relation
(`WFMin`; `SmallestLemma` of `Arith_proofs` states it for integer square roots).
TLC checked `IInv`, `ListingOK` and `OwedOK`, and that the names of the run satisfy
`OneKeyEach` and `KeysApart`.

### Only model-checked

* Of the curve, the properties in `CurveCheck`: how far above the root D may be
  (that it is not below is `AboveRootLemma`), that a swap does not lower the
  computed D (`SwapOnCurveLemma` compares with the curve), that a larger offer is
  never paid less, that the reverse quote suffices, that a deposit does not dilute. Each
  compares two iterations with each other, cut off after a number of rounds.
* Of the stable pair, `SharePriceKept` and `ImplementsVault`, for the same reason;
  at large lopsided pools their one unit is not enough, see section 3.
  `SupplyFitsU64` depends on `get_d` overflowing its width before the supply does.
* `ListingEnds`: liveness under fairness is outside of what is proved here, and so
  is the absence of deadlock.

## 5. Not modelled

* `migrate`, which does nothing; `query_config` and `query_all_balances`, which
  return what is stored; `Asset::to_raw`, `AssetRaw` and
  `AssetInfoRaw::equal`, which nothing calls; the attributes of responses.
* In the pairs and the router, the conversions between spellings of addresses
  (they are renamings there; in `Factory`, where keys are made of them, they are
  modelled).
* Execution and queries of the LP token: `contracts/terraswap_token` hands them
  over to cw20-base, and what the pairs use of it is the external part of `Chain`.
* Gas limits; a cw20 token that calls back or lies about balances.
* `response.rs` (generated protobuf), schemas, examples, scripts, mocks. Of the
  tests, only that of `assert_operations` is put to the model: the amounts in the
  others have 18 digits, more than TLC's integers hold.
* A denomination made of the bytes of a token's address has that token's raw
  name; it is the collision of `DocDirectory` once more and the instance of
  `Factory` leaves it out.
* `Router` over stable pairs: their `Swap` message differs from the one the router
  sends.

## 6. Plan

1. Done: arithmetic, curve, asset, the stable pair and its theorems.
2. Done: `Factory` with the LP token's instantiation, its theorems, a client's
   reading under fairness, the refinement of `Directory`.
3. Done: `ConstantProduct`, `Router`, model-checked; the refinements of `Vault`
   and `Settlement`.
4. Done: the theorems of all four components (section 4).
5. Done: D is not below the root; an answer of `get_y` for two coins is at most a
   unit too much; D exists for every pool that is not too large.
6. Open: how far above the root D may be as a function of the pool, with which
   `SharePriceKept` could be stated for every size; three coins in `TakenOnCurve`.
