---------------------------- MODULE RouterTests ----------------------------
(***************************************************************************)
(* The repository's unit test of assert_operations                         *)
(* (contracts/terraswap_router/src/contract.rs, test_invalid_operations),  *)
(* put to the model's assert_operations: what the test says is accepted    *)
(* and refused is accepted and refused here.                               *)
(***************************************************************************)
EXTENDS Router

NativeSwap(offer, ask) == [native |-> TRUE, offer |-> offer, ask |-> ask]
TerraSwap(offer, ask) == [native |-> FALSE, offer |-> offer, ask |-> ask]

\* "uluna output", though the first operation's ukrw is not what comes next.
UlunaOutput == <<NativeSwap("uusd", "uluna"), TerraSwap("ukrw", "asset0001"),
                 TerraSwap("asset0001", "uluna")>>

\* "asset0002 output".
Asset0002Output == Append(UlunaOutput, TerraSwap("uluna", "asset0002"))

\* "multiple output token types error": uaud is left over.
MultipleOutputs == <<NativeSwap("uusd", "ukrw"), TerraSwap("ukrw", "asset0001"),
                     TerraSwap("asset0001", "uaud"), TerraSwap("uluna", "asset0002")>>

ASSUME test_invalid_operations ==
    /\ ~assert_operations(<< >>)
    /\ assert_operations(UlunaOutput)
    /\ assert_operations(Asset0002Output)
    /\ ~assert_operations(MultipleOutputs)

=============================================================================
