------------------------------- MODULE Router -------------------------------
(***************************************************************************)
(* The router (contracts/terraswap_router): a chain of swaps in one        *)
(* transaction.  The router sends itself a message for each operation and  *)
(* one for the minimum the caller asked for.  Each operation swaps all the *)
(* router has of its offer asset at a pair or at the chain's market; the   *)
(* last one pays the receiver.                                             *)
(*                                                                         *)
(* The chain executes a message with all that follows from it before the   *)
(* next, so what is left of a transaction is a stack.  The pairs are the   *)
(* constant-product pairs the router was written for.                      *)
(***************************************************************************)
EXTENDS ProductCurve, FiniteSets, Sequences

CONSTANTS
    Users,          \* who calls the router, the pairs and the tokens
    Addr,           \* the address of the router
    Assets,         \* every asset
    pair_assets,    \* the two assets of each pair, by the pair's address
    Reserve,        \* what a pair holds of each asset at the start
    Endowment,      \* what each user holds of each asset at the start
    MarketRate,     \* what the market pays, in units of DECIMAL_FRACTION
    Routes,         \* the lists of operations users try
    Amounts,        \* the amounts of tokens users send, and offer to pairs
    Coins,          \* the coins users send along with a call
    Minimums,       \* the minimums users ask for, or Unset
    Receivers,      \* the receivers users name
    Gifts           \* the amounts users transfer with no call

Pairs == DOMAIN pair_assets
Accounts == Users \cup {Addr} \cup Pairs
Operations == [native : BOOLEAN, offer : Assets, ask : Assets]

ASSUME RouterAssumption ==
    /\ Addr \notin Users \cup Pairs /\ Users \cap Pairs = {} /\ Unset \notin Accounts
    /\ \A p \in Pairs : \E x, y \in Assets : x # y /\ pair_assets[p] = {x, y}
    /\ \A p, q \in Pairs : pair_assets[p] = pair_assets[q] => p = q
    /\ NativeTokens \subseteq Assets
    /\ Reserve \in Nat /\ Endowment \in [Users -> Nat]
    /\ MarketRate \in 0..DECIMAL_FRACTION
    /\ Routes \subseteq Seq(Operations)
    /\ \A route \in Routes : \A k \in 1..Len(route) :
           route[k].native => {route[k].offer, route[k].ask} \subseteq NativeTokens
    /\ Amounts \subseteq Nat \ {0} /\ Gifts \subseteq Nat \ {0}
    /\ Coins \subseteq [NativeTokens -> Nat]
    /\ Minimums \subseteq Nat \cup {Unset}
    /\ Receivers \subseteq Accounts

VARIABLES
    bal,            \* the balance of every account in every asset
    stack,          \* the messages still to be executed, the next one first
    committed,      \* bal at the end of the last transaction
    call            \* the call of the router in progress (only for properties)

vars == <<bal, stack, committed, call>>

NoCall == [operations |-> << >>]
Idle == stack = << >>

\* The ledger becomes b, with the messages out of the call c left to execute.
Become(b, out, c) ==
    /\ bal' = b
    /\ stack' = out
    /\ committed' = IF out = << >> THEN b ELSE committed
    /\ call' = IF out = << >> THEN NoCall ELSE c

Moved(b, asset, from, to, amount) ==
    LET taken == [b[asset] EXCEPT ![from] = @ - amount]
        given == [taken EXCEPT ![to] = @ + amount]
    IN  [b EXCEPT ![asset] = given]

\* External: what the chain charges for sending amount, and the same, paid.
Tax(asset, amount) == IF is_native_token(asset) THEN TaxDue(asset, amount) ELSE 0
Paid(b, asset, from, to, amount) ==
    [Moved(b, asset, from, to, amount) EXCEPT ![asset][from] = @ - Tax(asset, amount)]
CanPay(asset, from, amount) ==
    amount > 0 /\ amount + Tax(asset, amount) <= bal[asset][from]

(***************************************************************************)
(* What the router asks the bank and the tokens, on a ledger b.            *)
(***************************************************************************)
query_balance(b, account, denom) == b[denom][account]
query_token_balance(b, contract, account) == b[contract][account]
query_pool(b, asset_info, account) ==
    IF is_native_token(asset_info) THEN query_balance(b, account, asset_info)
                                   ELSE query_token_balance(b, asset_info, account)

(***************************************************************************)
(* execute_swap_operations.                                                *)
(***************************************************************************)
\* The assets that are asked for and not offered later: there must be one.
LeftOver(operations) ==
    LET last == {k \in DOMAIN operations :
                    \A l \in DOMAIN operations :
                        l > k => operations[l].offer # operations[k].ask}
    IN  {operations[k].ask : k \in last}

assert_operations(operations) == Cardinality(LeftOver(operations)) = 1

get_target_asset_info(operations) == operations[Len(operations)].ask

\* The messages the router sends to itself.
ExecuteSwapOperation(operation, to) ==
    [type |-> "ExecuteSwapOperation", operation |-> operation, to |-> to]

AssertMinimumReceive(asset_info, prev_balance, minimum_receive, receiver) ==
    [type |-> "AssertMinimumReceive", asset_info |-> asset_info,
     prev_balance |-> prev_balance, minimum_receive |-> minimum_receive,
     receiver |-> receiver]

\* Mutant: the receiver is not passed on.
ReceiverForgotten(operations, to) ==
    [k \in 1..Len(operations) |-> ExecuteSwapOperation(operations[k], Unset)]

\* Mutant: every operation is told the receiver.
ReceiverEverywhere(operations, to) ==
    [k \in 1..Len(operations) |-> ExecuteSwapOperation(operations[k], to)]

\* Mutant: the last operation is left out.
LastForgotten(operations, to) ==
    [k \in 1..Len(operations) - 1 |-> ExecuteSwapOperation(operations[k], Unset)]

\* The messages of the operations; only the last is told the receiver.
OperationMsgs(operations, to) ==
    [k \in 1..Len(operations) |->
        ExecuteSwapOperation(operations[k], IF k = Len(operations) THEN to ELSE Unset)]

\* Mutant: what the receiver had before is counted.
MinimumOfBalance(b, target, minimum_receive, receiver) ==
    IF minimum_receive = Unset THEN << >>
    ELSE <<AssertMinimumReceive(target, 0, minimum_receive, receiver)>>

\* The message that checks the minimum against the balance read now.
MinimumMsgs(b, target, minimum_receive, receiver) ==
    IF minimum_receive = Unset THEN << >>
    ELSE <<AssertMinimumReceive(target, query_pool(b, target, receiver),
                                minimum_receive, receiver)>>

\* On the ledger b, which the funds of the call have been added to.
execute_swap_operations(b, operations, minimum_receive, to, funds) ==
    /\ Idle
    /\ operations # << >>
    /\ assert_operations(operations)
    /\ Become(b,
              OperationMsgs(operations, to)
                  \o MinimumMsgs(b, get_target_asset_info(operations), minimum_receive, to),
              [operations |-> operations, funds |-> funds, minimum |-> minimum_receive,
               to |-> to, start |-> b])

\* The funds of a call, in every asset.
Sent(coins) == [a \in Assets |-> IF is_native_token(a) THEN coins[a] ELSE 0]
SentToken(asset, amount) == [a \in Assets |-> IF a = asset THEN amount ELSE 0]

\* External: the ledger once user's funds have come with the call.
WithFunds(user, funds) ==
    [a \in Assets |-> [bal[a] EXCEPT ![user] = @ - funds[a], ![Addr] = @ + funds[a]]]

\* ExecuteMsg::ExecuteSwapOperations, with coins of any denominations.
execute(user, coins, operations, minimum_receive, to) ==
    /\ \A a \in NativeTokens : coins[a] <= bal[a][user]
    /\ execute_swap_operations(WithFunds(user, Sent(coins)), operations,
                               minimum_receive, to, Sent(coins))

\* The hook of a cw20 token that has moved amount from user to the router.
receive_cw20(asset, user, amount, operations, minimum_receive, to) ==
    /\ ~is_native_token(asset)
    /\ amount <= bal[asset][user]
    /\ execute_swap_operations(WithFunds(user, SentToken(asset, amount)), operations,
                               minimum_receive, to, SentToken(asset, amount))

(***************************************************************************)
(* execute_swap_operation, which only the router itself may send.          *)
(***************************************************************************)
\* The pair of two assets, which the factory is asked for.
PairsOf(offer, ask) == {p \in Pairs : pair_assets[p] = {offer, ask}}

\* The router's own compute_tax, which is asked of denominations only.
compute_denom_tax(denom, amount) ==
    IF denom = Uluna THEN 0
    ELSE Lesser(amount - (amount * DECIMAL_FRACTION) \div (TaxRate + DECIMAL_FRACTION),
                TaxCap)

\* What is left of an amount when the tax is held back from a native one.
AfterTax(asset, amount) ==
    IF is_native_token(asset) THEN amount - compute_denom_tax(asset, amount) ELSE amount

\* A native offer has the tax taken off.
asset_into_swap_msg(pair, offer, amount, to) ==
    [type |-> "Swap", pair |-> pair, offer |-> offer,
     amount |-> AfterTax(offer, amount), sender |-> Addr, to |-> to]

\* Mutant: the tax is taken off in the middle of a route too.
market_always_taxed(offer, ask, amount, to) ==
    [type |-> "MarketSwap", offer |-> offer, ask |-> ask,
     amount |-> AfterTax(offer, amount), to |-> to]

\* The market is taxed only when it is to send the result on.
market_swap_msg(offer, ask, amount, to) ==
    [type |-> "MarketSwap", offer |-> offer, ask |-> ask,
     amount |-> IF to = Unset THEN amount ELSE AfterTax(offer, amount), to |-> to]

execute_swap_operation ==
    LET op == stack[1].operation
        amount == IF op.native \/ is_native_token(op.offer)
                  THEN query_balance(bal, Addr, op.offer)
                  ELSE query_token_balance(bal, op.offer, Addr)
        then(msg) == Become(bal, <<msg>> \o Tail(stack), call)
    IN  /\ ~Idle
        /\ stack[1].type = "ExecuteSwapOperation"
        /\ \/ /\ op.native
              /\ then(market_swap_msg(op.offer, op.ask, amount, stack[1].to))
           \/ /\ ~op.native
              /\ \E pair \in PairsOf(op.offer, op.ask) :
                    then(asset_into_swap_msg(pair, op.offer, amount, stack[1].to))

\* The receiver has got at least the minimum since prev_balance was read.
assert_minium_receive ==
    /\ ~Idle
    /\ stack[1].type = "AssertMinimumReceive"
    /\ query_pool(bal, stack[1].asset_info, stack[1].receiver) - stack[1].prev_balance
           >= stack[1].minimum_receive
    /\ Become(bal, Tail(stack), call)

(***************************************************************************)
(* The pairs, which answer a swap with a payout unless it is nothing.      *)
(***************************************************************************)
Other(pair, asset) == CHOOSE a \in pair_assets[pair] : a # asset

\* What a pair pays, and to whom, for an offer that m.sender has sent.
Answer(m, ask, return_amount) ==
    IF return_amount = 0 THEN << >>
    ELSE <<into_msg(ask, return_amount, m.pair, IF m.to = Unset THEN m.sender ELSE m.to)>>

swap ==
    LET m == stack[1]
        ask == Other(m.pair, m.offer)
        offer_pool == bal[m.offer][m.pair]
        ask_pool == bal[ask][m.pair]
    IN  /\ ~Idle
        /\ m.type = "Swap"
        /\ CanPay(m.offer, m.sender, m.amount)
        /\ CanSwap(offer_pool, ask_pool, m.amount)
        /\ Become(Paid(bal, m.offer, m.sender, m.pair, m.amount),
                  Answer(m, ask, compute_swap(offer_pool, ask_pool, m.amount).return_amount)
                      \o Tail(stack),
                  call)

\* External: a payout is executed.
pay ==
    LET m == stack[1]
    IN  /\ ~Idle
        /\ m.type \in {"Transfer", "BankSend"}
        /\ CanPay(m.asset, m.from, m.amount)
        /\ Become(Paid(bal, m.asset, m.from, m.to, m.amount), Tail(stack), call)

\* External: the market burns the offer and mints what is asked for.  A swap
\* whose result is sent on is taxed on the offer.
MarketReturn(amount) == Scaled(amount, MarketRate)

market_swap ==
    LET m == stack[1]
        tax == IF m.to = Unset THEN 0 ELSE Tax(m.offer, m.amount)
        receiver == IF m.to = Unset THEN Addr ELSE m.to
    IN  /\ ~Idle
        /\ m.type = "MarketSwap"
        /\ m.amount > 0
        /\ m.amount + tax <= bal[m.offer][Addr]
        /\ Become([[bal EXCEPT ![m.offer][Addr] = @ - m.amount - tax]
                      EXCEPT ![m.ask][receiver] = @ + MarketReturn(m.amount)],
                  Tail(stack), call)

\* External: any message may fail (it cannot be executed, or lacks gas), and
\* the whole transaction is undone.
Abort == ~Idle /\ Become(committed, << >>, NoCall)

(***************************************************************************)
(* Others: direct swaps at a pair, and transfers with no call.             *)
(***************************************************************************)
trade(user, pair, offer, amount) ==
    /\ Idle
    /\ offer \in pair_assets[pair]
    /\ CanPay(offer, user, amount)
    /\ Become(bal, <<[type |-> "Swap", pair |-> pair, offer |-> offer, amount |-> amount,
                      sender |-> user, to |-> Unset]>>, NoCall)

transfer(user, asset, amount, to) ==
    /\ Idle
    /\ amount <= bal[asset][user]
    /\ Become(Moved(bal, asset, user, to, amount), << >>, NoCall)

Init ==
    /\ bal = [a \in Assets |-> [c \in Accounts |->
                 IF c \in Users THEN Endowment[c]
                 ELSE IF c \in Pairs /\ a \in pair_assets[c] THEN Reserve ELSE 0]]
    /\ stack = << >>
    /\ committed = bal
    /\ call = NoCall

Next ==
    \/ \E user \in Users, operations \in Routes, minimum \in Minimums,
          to \in Receivers :
          \/ \E coins \in Coins : execute(user, coins, operations, minimum, to)
          \/ \E asset \in Assets, amount \in Amounts :
                receive_cw20(asset, user, amount, operations, minimum, to)
    \/ execute_swap_operation
    \/ assert_minium_receive
    \/ swap
    \/ pay
    \/ market_swap
    \/ Abort
    \/ \E user \in Users, pair \in Pairs, offer \in Assets, amount \in Amounts :
          trade(user, pair, offer, amount)
    \/ \E user \in Users, asset \in Assets, amount \in Gifts :
          transfer(user, asset, amount, Addr)

Spec == Init /\ [][Next]_vars

(***************************************************************************)
(* simulate_swap_operations, on a ledger b.  It answers None where there   *)
(* is no operation, or a pair does not exist or would panic.               *)
(***************************************************************************)
SimulateMarket(operations, k, amount) ==
    MarketReturn(IF k = Len(operations) THEN AfterTax(operations[k].offer, amount)
                                        ELSE amount)

SimulatePair(b, op, offer_amount) ==
    LET pair == CHOOSE p \in PairsOf(op.offer, op.ask) : TRUE
        offer_pool == b[op.offer][pair]
        ask_pool == b[op.ask][pair]
    IN  IF PairsOf(op.offer, op.ask) = {} \/ ~CanSwap(offer_pool, ask_pool, offer_amount)
        THEN None
        ELSE AfterTax(op.ask,
                      compute_swap(offer_pool, ask_pool, offer_amount).return_amount)

SimulateOperation(b, operations, k, amount) ==
    IF amount = None THEN None
    ELSE IF operations[k].native THEN SimulateMarket(operations, k, amount)
    ELSE SimulatePair(b, operations[k], AfterTax(operations[k].offer, amount))

\* The amount after k operations is put into the next one; there must be one.
simulate_swap_operations(b, operations, offer_amount) ==
    LET amount[k \in 0..Len(operations)] ==
            IF k = 0 THEN offer_amount
            ELSE SimulateOperation(b, operations, k, amount[k - 1])
    IN  IF operations = << >> THEN None ELSE amount[Len(operations)]

(***************************************************************************)
(* Properties.                                                             *)
(***************************************************************************)
\* A call of the router ends and takes effect.
Completes == call # NoCall /\ call' = NoCall /\ bal' # committed

Target == get_target_asset_info(call.operations)
Received == bal'[Target][call.to] - call.start[Target][call.to]

\* A call that takes effect has brought its receiver at least the minimum,
\* over what the receiver had once the funds were paid.
MinimumReceived ==
    [][Completes /\ call.minimum # Unset => Received >= call.minimum]_vars

\* A route on which each operation offers what the one before asked for, that
\* starts with the only funds sent and offers no asset, and uses no pair, twice.
Straight(c) ==
    /\ \A a \in Assets : c.funds[a] > 0 <=> a = c.operations[1].offer
    /\ \A k \in 1..Len(c.operations) - 1 : c.operations[k].ask = c.operations[k + 1].offer
    /\ \A k, l \in 1..Len(c.operations) :
          k < l => /\ c.operations[k].offer # c.operations[l].offer
                   /\ {c.operations[k].offer, c.operations[k].ask}
                         # {c.operations[l].offer, c.operations[l].ask}

\* The router had nothing but the funds, and pays someone else.
Fresh(c) ==
    /\ \A a \in Assets : c.start[a][Addr] = c.funds[a]
    /\ c.to \in Users

\* What simulate_swap_operations says of a route just before it is executed
\* is what its receiver gets, with every tax and rounding on the way.
SimulationExact ==
    [][Completes /\ Straight(call) /\ Fresh(call) =>
          Received = simulate_swap_operations(committed, call.operations,
                                              call.funds[call.operations[1].offer])]_vars

\* What may be left of an asset when all of it has been swapped: what was held
\* back for the tax and, after two roundings, not charged.  The rate is below one.
Dust(a) == IF is_native_token(a) /\ a # Uluna
           THEN Lesser(TaxCap, 2 + TaxRate \div DECIMAL_FRACTION) ELSE 0

\* A straight route leaves nothing in the router, but for dust.
NothingStranded ==
    [][Completes /\ Straight(call) /\ Fresh(call) =>
          \A a \in Assets : bal'[a][Addr] <= Dust(a)]_vars

\* Any route that is accepted swaps all the router has of each asset it offers
\* or asks for, whoever left it there, into the one asset of its last operation
\* (README: the resulting token is swapped into one token).
SwappedIntoOne ==
    [][Completes => \A k \in 1..Len(call.operations) :
          \A a \in {call.operations[k].offer, call.operations[k].ask} \ {Target} :
              bal'[a][Addr] <= Dust(a)]_vars

\* Seen from outside, each transaction is one step of Settlement: one payer,
\* one receiver of one asset, nobody else touched, no pair poorer.
S == INSTANCE Settlement WITH ledger <- committed
ImplementsSettlement == S!Spec

=============================================================================
