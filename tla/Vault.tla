-------------------------------- MODULE Vault --------------------------------
(***************************************************************************)
(* What a pair promises, whatever its curve: a vault that issues shares of *)
(* its reserves.  Each operation is one step.  Fair(curve, reserves,       *)
(* shares, new reserves, new shares) says that on this curve the worth     *)
(* behind each share does not fall.                                        *)
(***************************************************************************)
EXTENDS Integers, Sequences

CONSTANT Fair(_, _, _, _, _)

VARIABLES
    reserves,   \* what is held of each asset, none before the vault is opened
    shares,     \* how many shares there are
    curve       \* what the reserves are valued by, chosen when it is opened

vars == <<reserves, shares, curve>>

Grows(k) == reserves'[k] > reserves[k]
Shrinks(k) == reserves'[k] < reserves[k]
Coins == 1..Len(reserves)

\* While there are shares, there is something of every asset behind them, and
\* each is worth what it was.
Sound ==
    /\ UNCHANGED curve
    /\ Len(reserves') = Len(reserves)
    /\ shares' > 0 => \A k \in Coins : reserves'[k] > 0
    /\ shares > 0 /\ shares' > 0 => Fair(curve, reserves, shares, reserves', shares')

Open ==
    /\ reserves = << >> /\ reserves' # << >>
    /\ shares = 0 /\ shares' = 0

\* Shares are issued against a deposit only.
Deposit ==
    /\ shares' > shares
    /\ \A k \in Coins : ~Shrinks(k)
    /\ \E k \in Coins : Grows(k)

\* Shares are redeemed for something of at least one reserve.
Withdraw ==
    /\ shares' < shares
    /\ \A k \in Coins : ~Grows(k)
    /\ \E k \in Coins : Shrinks(k)

\* One asset is given out for another.
Trade ==
    /\ shares' = shares
    /\ \E i, j \in Coins : /\ Grows(i) /\ Shrinks(j)
                           /\ \A k \in Coins \ {j} : ~Shrinks(k)

\* Something is left in the vault for nothing.
Gift ==
    /\ shares' = shares
    /\ \A k \in Coins : ~Shrinks(k)

Init == reserves = << >> /\ shares = 0

Next == Open \/ (Sound /\ (Deposit \/ Withdraw \/ Trade \/ Gift))

Spec == Init /\ [][Next]_vars

=============================================================================
