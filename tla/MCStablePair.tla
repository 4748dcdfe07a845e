---------------------------- MODULE MCStablePair ----------------------------
(***************************************************************************)
(* Small instances of StablePair for TLC.  The fee is a quarter of what is *)
(* paid out, so that it shows in amounts as small as these.                *)
(***************************************************************************)
EXTENDS StablePairDocs

CONSTANTS uusd, uluna, token       \* two denominations and a cw20 token

Pool(infos, amp, fee) == [asset_infos |-> infos, amplification |-> amp, fee |-> fee]

OnePool == {Pool(<<uusd, token>>, 1, 2500)}
LowAmp == {Pool(<<uusd, token>>, 3, 2500)}
NarrowPool == {Pool(<<uusd, token>>, 1, 1)}
ThreeCoins == {Pool(<<token, uusd, uluna>>, 2, 2500)}

\* An offer of one pool asset for another.
TwoWay == {<<uusd, token>>, <<token, uusd>>}
Distinct == {pair \in Assets \X Assets : pair[1] # pair[2]}
\* Anything at all for anything at all.
AnySwap == Assets \X Assets

Rich(n, m) == [u \in Users |-> IF u = Alice THEN n ELSE m]
Only4 == Rich(4, 0)
Only6 == Rich(6, 0)
Only7 == Rich(7, 0)
Only20 == Rich(20, 0)

=============================================================================
