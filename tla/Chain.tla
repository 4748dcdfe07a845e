-------------------------------- MODULE Chain --------------------------------
(***************************************************************************)
(* A pair contract's surroundings, which the stable pair and the           *)
(* constant-product pair share: what it stores (PAIR_INFO), the bank and   *)
(* the cw20 tokens it queries and pays with, its own LP token, and the     *)
(* execution of the messages a handler returns.                            *)
(*                                                                         *)
(* A transaction starts with one call of the contract (or of a token, with *)
(* the contract as the receiver of a hook): funds move, the handler reads  *)
(* balances through queries and answers with a list of messages.  The      *)
(* chain then executes the list in order.  If a message fails, everything  *)
(* since the call is undone; when the list is empty, the transaction is    *)
(* committed.  A handler that returns an error or panics undoes its own    *)
(* call, which is no step at all, so its conditions are guards here.       *)
(***************************************************************************)
EXTENDS CheckedArith, Asset

CONSTANTS
    Alice, Bob,         \* two users
    Pair,               \* the address of the contract
    LpToken,            \* the address of the LP token it creates
    Assets,             \* every asset of the chain but the LP token
    Endowment,          \* what a user has of each asset at the start
    Amounts,            \* the amounts users name in their calls
    Receivers,          \* the addresses users name as receivers
    Gifts               \* the amounts users may transfer with no call

Users == {Alice, Bob}
Accounts == Users \cup {Pair, LpToken}
Tokens == Assets \cup {LpToken}
NoToken == "no token"            \* CanonicalAddr::from(vec![])

ASSUME ChainAssumption ==
    /\ Alice # Bob /\ Pair \notin {Alice, Bob, LpToken} /\ LpToken \notin Users
    /\ LpToken \notin Assets /\ LpToken # NoToken
    /\ NativeTokens \subseteq Assets
    /\ Endowment \in [Users -> U128]
    /\ Amounts \subseteq Nat /\ Gifts \subseteq Nat
    /\ Receivers \subseteq Accounts

VARIABLES
    pair_info,      \* PAIR_INFO in the contract's storage
    bal,            \* the balance of every account in every token
    total_supply,   \* of the LP token
    msgs,           \* the messages still to be executed, by their position
    committed       \* the state at the end of the last transaction

vars == <<pair_info, bal, total_supply, msgs, committed>>

(***************************************************************************)
(* Transactions.  msgs is a function on the positions of the messages that *)
(* are left; the chain executes them in the order of their positions.      *)
(***************************************************************************)
NoMsgs == [x \in {} |-> 0]
Idle == DOMAIN msgs = {}

\* The state becomes p, b, s with the messages out left to execute; with
\* none left the transaction is committed.
Become(p, b, s, out) ==
    /\ pair_info' = p
    /\ bal' = b
    /\ total_supply' = s
    /\ msgs' = out
    /\ committed' = IF DOMAIN out = {}
                    THEN [pair_info |-> p, bal |-> b, total_supply |-> s]
                    ELSE committed

Moved(b, asset, from, to, amount) ==
    LET taken == [b[asset] EXCEPT ![from] = @ - amount]
        given == [taken EXCEPT ![to] = @ + amount]
    IN  [b EXCEPT ![asset] = given]

(***************************************************************************)
(* What the handlers read.                                                 *)
(***************************************************************************)
Ready == Idle /\ pair_info.asset_infos # << >>      \* something is stored

Infos == pair_info.asset_infos
NCoins == Len(Infos)
LpPosition == NCoins + 1        \* after every message about a pool asset

\* PairInfoRaw::query_pools
query_pools(b) == [k \in 1..NCoins |-> b[Infos[k]][Pair]]

InPool(asset) == \E k \in 1..NCoins : Infos[k] = asset
IndexOf(asset) == CHOOSE k \in 1..NCoins : Infos[k] = asset

\* The ledger after user's native funds have come with a call.
WithFunds(user, funds) ==
    [a \in Tokens |->
        IF a \in NativeTokens
        THEN [bal[a] EXCEPT ![user] = @ - funds[a], ![Pair] = @ + funds[a]]
        ELSE bal[a]]

CanFund(user, funds) == \A a \in NativeTokens : funds[a] <= bal[a][user]

(***************************************************************************)
(* External: cw20 Send, and transfers with no call of the contract.        *)
(***************************************************************************)
Send(token, user, amount) ==
    /\ Ready
    /\ ~is_native_token(token)
    /\ amount \in 1..bal[token][user]

transfer(token, user, to, amount) ==
    /\ Idle
    /\ amount \in 1..bal[token][user]
    /\ Become(pair_info, Moved(bal, token, user, to, amount), total_supply, NoMsgs)

(***************************************************************************)
(* External: the chain executes the messages a handler has left.  cw20     *)
(* tokens and the bank refuse to move nothing, or more than is there; a    *)
(* TransferFrom may also lack the allowance.                               *)
(***************************************************************************)
First(x) == x \in DOMAIN msgs /\ \A y \in DOMAIN msgs : x <= y

Rest(x) == [y \in DOMAIN msgs \ {x} |-> msgs[y]]

\* What executing m takes from its sender.
Cost(m) == m.amount + (IF m.type = "BankSend" THEN TaxDue(m.asset, m.amount) ELSE 0)

Executable(m) ==
    CASE m.type \in {"Transfer", "BankSend", "Burn"} ->
            m.amount > 0 /\ Cost(m) <= bal[m.asset][m.from]
      [] m.type = "TransferFrom" -> m.amount <= bal[m.asset][m.from]
      [] m.type = "Mint" -> m.amount > 0 /\ total_supply + m.amount \in U128
      [] m.type = "Instantiate" -> TRUE

execute_transfer(x) ==
    /\ msgs[x].type \in {"Transfer", "TransferFrom"}
    /\ Become(pair_info,
              Moved(bal, msgs[x].asset, msgs[x].from, msgs[x].to, msgs[x].amount),
              total_supply, Rest(x))

execute_bank_send(x) ==
    LET m == msgs[x]
    IN  /\ m.type = "BankSend"
        /\ Become(pair_info,
                  [Moved(bal, m.asset, m.from, m.to, m.amount)
                      EXCEPT ![m.asset][m.from] = @ - TaxDue(m.asset, m.amount)],
                  total_supply, Rest(x))

execute_mint(x) ==
    /\ msgs[x].type = "Mint"
    /\ Become(pair_info,
              [bal EXCEPT ![LpToken][msgs[x].to] = @ + msgs[x].amount],
              total_supply + msgs[x].amount, Rest(x))

execute_burn(x) ==
    /\ msgs[x].type = "Burn"
    /\ Become(pair_info,
              [bal EXCEPT ![LpToken][Pair] = @ - msgs[x].amount],
              total_supply - msgs[x].amount, Rest(x))

\* Mutant: the address is not saved.
reply_unsaved(contract_address) == pair_info

\* The LP token is created, and the pair stores its address.
reply(contract_address) == [pair_info EXCEPT !.liquidity_token = contract_address]

execute_instantiate(x) ==
    /\ msgs[x].type = "Instantiate"
    /\ Become(reply(LpToken), bal, total_supply, Rest(x))

Execute(x) ==
    /\ First(x)
    /\ Executable(msgs[x])
    /\ \/ execute_transfer(x)
       \/ execute_bank_send(x)
       \/ execute_mint(x)
       \/ execute_burn(x)
       \/ execute_instantiate(x)

\* The transaction fails, and all it did is undone.
Abort(x) ==
    /\ First(x)
    /\ ~Executable(msgs[x]) \/ msgs[x].type = "TransferFrom"
    /\ Become(committed.pair_info, committed.bal, committed.total_supply, NoMsgs)

(***************************************************************************)
(* Properties of every pair.                                               *)
(***************************************************************************)
Ledgers == [Tokens -> [Accounts -> Nat]]
Messages == [type : {"Transfer", "BankSend", "TransferFrom", "Mint", "Burn",
                     "Instantiate"},
             asset : Tokens, from : Accounts, to : Accounts, amount : Nat]

\* Whatever a handler decides to pay or to burn, the pair still has when the
\* message is executed, the tax on native payouts included.
PayoutsCovered ==
    \A x \in DOMAIN msgs :
        msgs[x].type \in {"Transfer", "BankSend", "Burn"} =>
            Cost(msgs[x]) <= bal[msgs[x].asset][Pair]

\* The reserves of a committed state st, in the pool's order.
Reserves(st) == [k \in 1..Len(st.pair_info.asset_infos) |->
                    st.bal[st.pair_info.asset_infos[k]][Pair]]

\* What a committed state answers when it is asked for the LP supply, and what
\* the pair answers when it is asked for its own record.
query_supply(st) == st.total_supply
query_pair_info == committed.pair_info

\* While LP tokens exist, no operation takes the last unit of a pool asset:
\* with one reserve at zero the curve divides by zero, and the pool can
\* neither swap nor take a deposit.
NeverDrained ==
    committed.total_supply > 0 =>
        \A k \in 1..Len(committed.pair_info.asset_infos) : Reserves(committed)[k] > 0

=============================================================================
