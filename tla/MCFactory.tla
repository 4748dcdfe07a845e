------------------------------ MODULE MCFactory ------------------------------
(***************************************************************************)
(* Small instances of Factory for TLC, which differ in the assets.         *)
(***************************************************************************)
EXTENDS Factory, TLC

CONSTANTS u1, u2

Native(denom) == [native |-> TRUE, name |-> denom]
Cw20(spelling) == [native |-> FALSE, name |-> spelling]

\* One address, spelled in small and in capital letters.
Address == <<5, 6>>
Small == <<97>>
Capital == <<65>>
Canonical == (Small :> Address) @@ (Capital :> Address)
Human == Address :> Small

\* A denomination whose name is the beginning of the token's address.
PrefixNames == {Native(<<5>>), Cw20(Small), Cw20(Capital)}
\* Two ways to cut one string in two.
SplitNames == {Native(<<5>>), Native(<<6, 7>>), Native(<<5, 6>>), Native(<<7>>)}

=============================================================================
