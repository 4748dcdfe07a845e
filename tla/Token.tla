-------------------------------- MODULE Token --------------------------------
(***************************************************************************)
(* The LP token's instantiation (contracts/terraswap_token and the message *)
(* of packages/terraswap/src/token.rs).  Names and symbols are strings of  *)
(* bytes.  What the token does afterwards is cw20-base, which is external. *)
(***************************************************************************)
EXTENDS Integers, Sequences

CONSTANT Unset      \* Option::None

is_valid_name(name) == Len(name) \in 3..50

\* Letters and the hyphen.
is_valid_symbol(symbol) ==
    /\ Len(symbol) \in 3..12
    /\ \A k \in 1..Len(symbol) : symbol[k] \in {45} \cup 65..90 \cup 97..122

validate(msg) ==
    /\ is_valid_name(msg.name)
    /\ is_valid_symbol(msg.symbol)
    /\ msg.decimals <= 18

get_cap(msg) == IF msg.mint = Unset THEN Unset ELSE msg.mint.cap

\* External: create_accounts of cw20-base, which returns the initial supply.
create_accounts(initial_balances) ==
    LET total[k \in 0..Len(initial_balances)] ==
            IF k = 0 THEN 0 ELSE total[k - 1] + initial_balances[k].amount
    IN  total[Len(initial_balances)]

\* instantiate accepts msg.
Accepts(msg) ==
    /\ validate(msg)
    /\ get_cap(msg) # Unset => create_accounts(msg.initial_balances) <= get_cap(msg)

\* What instantiate stores: TOKEN_INFO.
TokenInfo(msg) ==
    [name |-> msg.name, symbol |-> msg.symbol, decimals |-> msg.decimals,
     total_supply |-> create_accounts(msg.initial_balances), mint |-> msg.mint]

=============================================================================
