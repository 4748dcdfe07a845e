----------------------------- MODULE Settlement -----------------------------
(***************************************************************************)
(* What a chain of swaps promises to the rest of the world.  A transaction *)
(* is one step of the ledger: at most one user pays, at most one receives, *)
(* in one asset, no other user's balance moves, and no pair is left with a *)
(* smaller product of its two reserves.  Nothing in between is visible.    *)
(***************************************************************************)
EXTENDS Integers

CONSTANTS
    Users,          \* who pays and receives
    Assets,         \* every asset
    Accounts,       \* every account, the users and the pairs among them
    pair_assets     \* the two assets of each pair, by the pair's account

VARIABLE ledger     \* the balance of every account in every asset

Product(b, pair) ==
    LET x == CHOOSE a \in pair_assets[pair] : TRUE
        y == CHOOSE a \in pair_assets[pair] : a # x
    IN  b[x][pair] * b[y][pair]

Settle(payer, receiver, target) ==
    /\ \A user \in Users, a \in Assets :
          /\ ledger'[a][user] < ledger[a][user] => user = payer
          /\ ledger'[a][user] > ledger[a][user] => user = receiver /\ a = target
    /\ \A pair \in DOMAIN pair_assets : Product(ledger', pair) >= Product(ledger, pair)

Init == ledger \in [Assets -> [Accounts -> Nat]]

Next == \E payer, receiver \in Users, target \in Assets : Settle(payer, receiver, target)

Spec == Init /\ [][Next]_ledger

=============================================================================
