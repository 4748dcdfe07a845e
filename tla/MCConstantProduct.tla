-------------------------- MODULE MCConstantProduct --------------------------
(***************************************************************************)
(* A small instance of ConstantProduct for TLC.                            *)
(***************************************************************************)
EXTENDS ConstantProduct

CONSTANTS uusd, uluna, token

OnePool == {<<uusd, token>>}
SomeLimits == {<<Unset, Unset>>, <<Unset, 300>>, <<1000, 300>>}
Rich(n, m) == [u \in Users |-> IF u = Alice THEN n ELSE m]
Both6and2 == Rich(6, 2)

=============================================================================
