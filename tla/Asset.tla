-------------------------------- MODULE Asset --------------------------------
(***************************************************************************)
(* packages/terraswap/src/asset.rs: what an asset is, the Terra tax taken  *)
(* off a native payout, and the message a payout becomes.  An AssetInfo is *)
(* a model value; NativeTokens are the denominations, every other asset is *)
(* the address of a cw20 contract.                                         *)
(***************************************************************************)
EXTENDS Integers

CONSTANTS
    NativeTokens,       \* the AssetInfo::NativeToken values
    Uluna,              \* the denomination that is never taxed
    DECIMAL_FRACTION,   \* 10^18 in the code: the unit of a Decimal
    TaxRate,            \* the chain's tax rate, in units of DECIMAL_FRACTION
    TaxCap              \* the chain's cap on the tax of one transfer

ASSUME AssetAssumption == /\ DECIMAL_FRACTION \in Nat \ {0}
                          /\ TaxRate \in Nat
                          /\ TaxCap \in Nat

\* Mutant: a product with a Decimal that rounds up.
ScaledUp(amount, ratio) ==
    (amount * ratio + DECIMAL_FRACTION - 1) \div DECIMAL_FRACTION

\* External: from_ratio of Decimal and Decimal256, and their product with an
\* integer.  Both round down.
FromRatio(amount, total) == (amount * DECIMAL_FRACTION) \div total
Scaled(amount, ratio) == (amount * ratio) \div DECIMAL_FRACTION

is_native_token(info) == info \in NativeTokens

\* std::cmp::min
Lesser(a, b) == IF a <= b THEN a ELSE b

\* The tax as if `amount` already contained it, capped.
compute_tax(info, amount) ==
    IF ~is_native_token(info) \/ info = Uluna THEN 0
    ELSE Lesser(amount - (amount * DECIMAL_FRACTION)
                            \div (TaxRate + DECIMAL_FRACTION),
                TaxCap)

\* Mutant: the tax is not taken off.
deduct_nothing(info, amount) == amount

deduct_tax(info, amount) == amount - compute_tax(info, amount)

\* A message a contract leaves for the chain to execute.
Msg(type, asset, from, to, amount) ==
    [type |-> type, asset |-> asset, from |-> from, to |-> to, amount |-> amount]

\* The message by which contract pays `amount` of `info` to recipient.
into_msg(info, amount, contract, recipient) ==
    IF is_native_token(info)
    THEN Msg("BankSend", info, contract, recipient, deduct_tax(info, amount))
    ELSE Msg("Transfer", info, contract, recipient, amount)

\* Mutant: nothing is checked.
assert_nothing(info, amount, funds) == TRUE

\* A native asset named in a message must have come with it, exactly; funds
\* gives 0 for a denomination that was not sent.
assert_sent_native_token_balance(info, amount, funds) ==
    is_native_token(info) => funds[info] = amount

(***************************************************************************)
(* External: the Terra chain charges the sender of `amount` a tax on top.  *)
(***************************************************************************)
TaxDue(info, amount) ==
    IF info = Uluna THEN 0
    ELSE Lesser((amount * TaxRate) \div DECIMAL_FRACTION, TaxCap)

=============================================================================
