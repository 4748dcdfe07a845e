----------------------------- MODULE Chain_proofs -----------------------------
(***************************************************************************)
(* What holds of every pair contract on its Chain, whatever it computes:   *)
(* the arithmetic of refunds, what transfers do to the ledger, and what    *)
(* the chain does with the messages of a handler.                          *)
(*                                                                         *)
(* A transaction in progress is described by its outlook: the reserves and *)
(* the LP supply there will be when the messages left have been executed.  *)
(* A handler decides the outlook; the executions that follow leave it as   *)
(* it is, until it is committed or undone.                                 *)
(***************************************************************************)
EXTENDS Chain, Arith_proofs

(***************************************************************************)
(* The invariant of every pair, of contract storage p, ledger b, LP supply *)
(* s and messages left out.                                                *)
(***************************************************************************)
\* What there is of a token, over all accounts, and the most there is ever of
\* an asset.
Held(b, a) == b[a][Alice] + b[a][Bob] + b[a][Pair] + b[a][LpToken]
Circulation == Endowment[Alice] + Endowment[Bob]

\* The positions of the pool's assets.
Slots(p) == 1..Len(p.asset_infos)

\* Storage, ledger and supply at any point of a transaction.
StateOK(p, b, s) ==
    /\ {"asset_infos", "liquidity_token"} \subseteq DOMAIN p
    /\ p.asset_infos \in Seq(Assets) /\ p.liquidity_token \in {NoToken, LpToken}
    /\ p.asset_infos = << >> => p.liquidity_token = NoToken /\ s = 0
    /\ \A k, l \in Slots(p) : p.asset_infos[k] = p.asset_infos[l] => k = l
    /\ b \in Ledgers /\ s \in Nat
    /\ Held(b, LpToken) = s
    /\ \A a \in Assets : Held(b, a) <= Circulation

\* Outside a transaction that is creating it, the pool knows its LP token.
Linked(p, out) ==
    \/ p.liquidity_token = LpToken
    \/ p.asset_infos = << >> /\ DOMAIN out = {}
    \/ \E x \in DOMAIN out : out[x].type = "Instantiate"

Payouts == {"Transfer", "BankSend"}

\* A message m about the pool asset of position x.
PoolMsg(p, b, x, m) ==
    /\ m.type \in Payouts \cup {"TransferFrom"}
    /\ x \in Slots(p) /\ m.asset = p.asset_infos[x]
    /\ m.type \in Payouts => m.from = Pair /\ Cost(m) <= b[m.asset][Pair]
    /\ m.type = "TransferFrom" => m.from \in Users /\ m.to = Pair

\* A message m about the LP token, after all of those.
LpMsg(p, b, x, m) ==
    /\ m.type \in {"Mint", "Burn"}
    /\ x = Len(p.asset_infos) + 1 /\ m.asset = LpToken /\ m.from = Pair
    /\ m.type = "Burn" => m.amount <= b[LpToken][Pair]

\* The message that creates the LP token is alone, and there are none yet.
CreateMsg(p, s, out, x) ==
    out[x].type = "Instantiate" /\ DOMAIN out = {x} /\ p.asset_infos # << >> /\ s = 0

MsgsOK(p, b, s, out) ==
    /\ DOMAIN out \subseteq Nat
    /\ out \in [DOMAIN out -> Messages]
    /\ \A x \in DOMAIN out :
          \/ PoolMsg(p, b, x, out[x])
          \/ LpMsg(p, b, x, out[x])
          \/ CreateMsg(p, s, out, x)

TxOK(p, b, s, out) == StateOK(p, b, s) /\ Linked(p, out) /\ MsgsOK(p, b, s, out)

\* A call finds the pool in the state that was committed last, and what it is
\* changed to is committed or undone.
CommittedOK ==
    /\ committed = [pair_info |-> committed.pair_info, bal |-> committed.bal,
                    total_supply |-> committed.total_supply]
    /\ TxOK(committed.pair_info, committed.bal, committed.total_supply, NoMsgs)
    /\ Idle => committed = [pair_info |-> pair_info, bal |-> bal,
                            total_supply |-> total_supply]
    /\ committed.pair_info = pair_info \/ committed.pair_info.asset_infos = << >>

TxInv == TxOK(pair_info, bal, total_supply, msgs) /\ CommittedOK

\* The reserves and the supply when the messages left have been executed.
Settling(p, b, out, k) ==
    b[p.asset_infos[k]][Pair]
        + (IF k \in DOMAIN out /\ out[k].type \in Payouts \cup {"TransferFrom"}
           THEN (IF out[k].to = Pair THEN out[k].amount ELSE 0)
                   - (IF out[k].from = Pair THEN Cost(out[k]) ELSE 0)
           ELSE 0)

SettledSupply(p, s, out) ==
    LET lp == Len(p.asset_infos) + 1
    IN  s + (IF lp \in DOMAIN out /\ out[lp].type = "Mint" THEN out[lp].amount
             ELSE IF lp \in DOMAIN out /\ out[lp].type = "Burn" THEN -out[lp].amount
             ELSE 0)

Outlook(p, b, s, out) == [reserves |-> [k \in Slots(p) |-> Settling(p, b, out, k)],
                          supply |-> SettledSupply(p, s, out)]

\* What the last transaction left, in the same form.
View(st) == [reserves |-> Reserves(st), supply |-> st.total_supply]

\* While there are LP tokens, something of every asset is behind them.
Backed(v) == v.supply > 0 => \A k \in DOMAIN v.reserves : v.reserves[k] > 0

\* One of the messages left pays nothing, and will fail the transaction.
Doomed(out) == \E x \in DOMAIN out : out[x].type \in Payouts /\ out[x].amount = 0

\* A step that leaves the messages out to a pool of the same assets, or that
\* creates the pool.
Leaves(p, b, s, out) ==
    /\ Become(p, b, s, out) /\ TxOK(p, b, s, out)
    /\ \/ DOMAIN out = {}
       \/ committed.pair_info = p
       \/ committed.pair_info.asset_infos = << >>
    /\ committed.pair_info.asset_infos \in {p.asset_infos, << >>}

\* No token is made, and none of the LP tokens is lost.
Keeps(b2, b) == /\ Held(b2, LpToken) = Held(b, LpToken)
                /\ \A a \in Assets : Held(b2, a) <= Held(b, a)

(***************************************************************************)
(* Arithmetic of refunds.                                                  *)
(***************************************************************************)
\* A refund is at most the reserve, less if LP tokens are left, and at most the
\* share of the reserve that the tokens burnt stand for.
LEMMA RefundLemma ==
    ASSUME NEW pool \in Nat, NEW amount \in Nat, NEW total \in Nat,
           total > 0, amount <= total
    PROVE  LET refund == Scaled(pool, FromRatio(amount, total))
           IN  /\ refund \in Nat
               /\ refund <= pool
               /\ amount < total /\ pool > 0 => refund < pool
               /\ refund * total <= pool * amount
  <1> DEFINE D == DECIMAL_FRACTION
             r == FromRatio(amount, total)
             refund == Scaled(pool, r)
  <1>1. D \in Nat /\ D > 0
    BY AssetAssumption
  <1> HIDE DEF D
  <1>2. amount * D \in Nat /\ r \in Nat /\ total * r <= amount * D
    <2>1. amount * D \in Nat
      BY <1>1, ProductLemma
    <2> QED BY <1>1, <2>1, DivLemma DEF FromRatio, D
  <1>3. r <= D /\ (amount < total => r < D)
    <2>1. amount * D = D * amount /\ total * D = D * total /\ D * amount <= D * total
          /\ (amount < total => D * amount < D * total)
      BY <1>1, ProductLemma
    <2>2. total * r \in Nat /\ total * D \in Nat /\ D * amount \in Nat
      BY <1>1, <1>2, ProductLemma
    <2>3. total * r <= total * D /\ (amount < total => total * r < total * D)
      BY <1>2, <2>1, <2>2
    <2> QED BY <1>1, <1>2, <2>3, ProductLemma
  <1> HIDE DEF r
  <1>4. pool * r \in Nat /\ refund \in Nat /\ D * refund <= pool * r
    <2>1. pool * r \in Nat
      BY <1>2, ProductLemma
    <2> QED BY <1>1, <2>1, DivLemma DEF Scaled, D
  <1>5. pool * r <= pool * D /\ (pool > 0 /\ r < D => pool * r < pool * D)
    BY <1>1, <1>2, <1>3, ProductLemma
  <1>6. D * refund \in Nat /\ pool * D = D * pool /\ pool * D \in Nat
    BY <1>1, <1>4, ProductLemma
  <1> HIDE DEF refund
  <1>7. D * refund <= D * pool /\ (pool > 0 /\ r < D => D * refund < D * pool)
    BY <1>4, <1>5, <1>6
  <1>8. refund <= pool /\ (pool > 0 /\ r < D => refund < pool)
    BY <1>1, <1>4, <1>7, ProductLemma
  <1>9. refund * total <= pool * amount
    <2>1. total * (D * refund) <= total * (pool * r)
      BY <1>4, <1>6, ProductLemma
    <2>2. pool * (total * r) <= pool * (amount * D)
      BY <1>2, ProductLemma
    <2>3. total * (pool * r) = pool * (total * r)
      BY <1>2, ThreeLemma
    <2>4. total * (D * refund) = D * (refund * total)
          /\ pool * (amount * D) = D * (pool * amount)
      BY <1>1, <1>4, ThreeLemma
    <2>5. refund * total \in Nat /\ pool * amount \in Nat
      BY <1>4, ProductLemma
    <2>6. /\ total * (D * refund) \in Nat /\ total * (pool * r) \in Nat
          /\ pool * (total * r) \in Nat /\ pool * (amount * D) \in Nat
      BY <1>1, <1>2, <1>4, <1>6, ProductLemma
    <2>7. D * (refund * total) <= D * (pool * amount)
      BY <2>1, <2>2, <2>3, <2>4, <2>6
    <2> QED BY <1>1, <2>5, <2>7, ProductLemma
  <1> QED BY <1>3, <1>4, <1>8, <1>9 DEF refund, r

\* Unless a reserve is so large that a Decimal cannot tell its shares apart, a
\* refund is the share itself, rounded down, or a unit less.
LEMMA ShareLemma ==
    ASSUME NEW pool \in Nat, NEW amount \in Nat, NEW total \in Nat,
           total > 0, amount <= total
    PROVE  LET refund == Scaled(pool, FromRatio(amount, total))
               due == (pool * amount) \div total
           IN  /\ pool <= DECIMAL_FRACTION => refund \in {due - 1, due}
               /\ amount = total => refund = pool
  <1> DEFINE D == DECIMAL_FRACTION
             r == FromRatio(amount, total)
             f == Scaled(pool, r)
             q == (pool * amount) \div total
  <1>1. D \in Nat /\ D > 0
    BY AssetAssumption
  <1>2. /\ f \in Nat /\ f <= pool /\ f * total <= pool * amount
    BY RefundLemma
  <1>3. q \in Nat /\ total * q <= pool * amount /\ pool * amount < total * q + total
    <2>1. pool * amount \in Nat
      BY ProductLemma
    <2> QED BY <2>1, DivLemma
  <1>4. r \in Nat /\ total * r <= amount * D /\ amount * D < total * r + total
    <2>1. amount * D \in Nat
      BY <1>1, ProductLemma
    <2> QED BY <1>1, <2>1, DivLemma DEF FromRatio
  <1>5. D * f <= pool * r /\ pool * r < D * f + D
    <2>1. pool * r \in Nat
      BY <1>4, ProductLemma
    <2> QED BY <1>1, <2>1, DivLemma DEF Scaled
  <1> HIDE DEF D, r, f, q
  <1>6. f <= q
    <2>1. total * f <= pool * amount /\ total * (q + 1) = total * q + total
          /\ total * f \in Nat /\ total * (q + 1) \in Nat /\ pool * amount \in Nat
      BY <1>2, <1>3, SMT
    <2>2. total * f < total * (q + 1)
      BY <1>3, <2>1
    <2>3. f < q + 1
      BY <1>2, <1>3, <2>2, ProductLemma
    <2> QED BY <1>2, <1>3, <2>3
  <1>7. ASSUME pool <= D PROVE q <= f + 1
    <2> DEFINE pa == pool * amount
               pt == pool * total
               ptr == pool * (total * r)
    <2>1. pool * (amount * D) <= pool * (total * r + total)
      <3>1. amount * D \in Nat /\ total * r + total \in Nat
        BY <1>1, <1>4, ProductLemma
      <3>2. amount * D <= total * r + total
        BY <1>4, <3>1
      <3> QED BY <3>1, <3>2, ProductLemma
    <2>2. D * pa <= ptr + pt
      BY <1>1, <1>4, <2>1, SMT
    <2>3. total * (pool * r) < total * (D * f + D) /\ total * (pool * r) = ptr
          /\ total * (D * f + D) = D * (total * (f + 1))
      <3>1. pool * r \in Nat /\ D * f + D \in Nat
        BY <1>1, <1>2, <1>4, ProductLemma
      <3>2. total * (pool * r) < total * (D * f + D)
        BY <1>5, <3>1, ProductLemma
      <3>3. total * (pool * r) = ptr /\ total * (D * f + D) = D * (total * (f + 1))
        BY <1>1, <1>2, <1>4, SMT
      <3> QED BY <3>2, <3>3
    <2>4. pt <= D * total
      <3>1. total * pool <= total * D /\ total * pool = pool * total /\ total * D = D * total
        BY <1>1, <1>7, ProductLemma
      <3> QED BY <3>1
    <2>5. D * (total * (f + 1)) + D * total = D * (total * (f + 2))
      BY <1>1, <1>2, SMT
    <2>6. /\ pa \in Nat /\ pt \in Nat /\ ptr \in Nat /\ D * pa \in Nat
          /\ total * (f + 2) \in Nat /\ total * (f + 1) \in Nat
          /\ D * (total * (f + 1)) \in Nat /\ D * (total * (f + 2)) \in Nat
          /\ D * total \in Nat
      BY <1>1, <1>2, <1>4, SMT
    <2> HIDE DEF pa, pt, ptr
    <2>7. D * pa < D * (total * (f + 2))
      BY <2>2, <2>3, <2>4, <2>5, <2>6
    <2>8. pa < total * (f + 2)
      BY <1>1, <2>6, <2>7, ProductLemma
    <2>9. total * q <= pa /\ total * q \in Nat
      BY <1>3, ProductLemma DEF pa
    <2>10. total * q < total * (f + 2)
      BY <2>6, <2>8, <2>9
    <2>11. q < f + 2
      BY <1>2, <1>3, <2>10, ProductLemma
    <2> QED BY <1>2, <1>3, <2>11
  <1>8. pool <= D => f \in {q - 1, q}
    BY <1>2, <1>3, <1>6, <1>7
  <1>9. amount = total => f = pool
    <2>1. SUFFICES ASSUME amount = total PROVE f = pool
      OBVIOUS
    <2>2. r = D
      <3>1. total * r <= total * D
        BY <1>1, <1>4, <2>1
      <3>2. total * D < total * (r + 1)
        BY <1>1, <1>4, <2>1, SMT
      <3>3. r <= D /\ D < r + 1
        BY <1>1, <1>4, <3>1, <3>2, ProductLemma
      <3> QED BY <1>1, <1>4, <3>3
    <2>3. pool < f + 1
      <3>1. D * pool < D * (f + 1)
        BY <1>1, <1>2, <1>5, <2>2, SMT
      <3> QED BY <1>1, <1>2, <3>1, ProductLemma
    <2> QED BY <1>2, <2>3
  <1> QED BY <1>8, <1>9 DEF f, q, r, D

(***************************************************************************)
(* The ledger.                                                             *)
(***************************************************************************)
\* The four accounts are different ones.
LEMMA AccountsLemma ==
    /\ Alice \in Accounts /\ Bob \in Accounts /\ Pair \in Accounts /\ LpToken \in Accounts
    /\ Alice # Bob /\ Alice # Pair /\ Alice # LpToken
    /\ Bob # Pair /\ Bob # LpToken /\ Pair # LpToken
    /\ \A c \in Accounts : c \in {Alice, Bob, Pair, LpToken}
    /\ \A u \in Users : u \in Accounts /\ u # Pair
    /\ LpToken \in Tokens /\ Assets \subseteq Tokens /\ LpToken \notin Assets
    /\ LpToken # NoToken
    /\ NativeTokens \subseteq Assets
  BY ChainAssumption, Zenon DEF Accounts, Users, Tokens

\* A ledger maps every token and account to a natural number.
LEMMA LedgerLemma ==
    ASSUME NEW b \in Ledgers, NEW a \in Tokens
    PROVE  b[a] \in [Accounts -> Nat] /\ \A c \in Accounts : b[a][c] \in Nat
  BY DEF Ledgers

\* What there is of a token is a natural number.
LEMMA HeldLemma ==
    /\ \A b \in Ledgers : \A a \in Tokens : Held(b, a) \in Nat
    /\ Circulation \in Nat
  <1>1. ASSUME NEW b \in Ledgers, NEW a \in Tokens PROVE Held(b, a) \in Nat
    BY LedgerLemma, AccountsLemma DEF Held
  <1>2. Circulation \in Nat
    <2>1. Endowment \in [Users -> U128] /\ Alice \in Users /\ Bob \in Users
      BY ChainAssumption DEF Users
    <2>2. Endowment[Alice] \in U128 /\ Endowment[Bob] \in U128
      BY <2>1
    <2>3. Endowment[Alice] \in Nat /\ Endowment[Bob] \in Nat
      BY <2>2, WidthLemma
    <2> QED BY <2>3 DEF Circulation
  <1> QED BY <1>1, <1>2

\* A transfer moves amount from one account to another of one token, and so
\* keeps the sum of the balances of every token.
LEMMA MovedLemma ==
    ASSUME NEW b \in Ledgers, NEW asset \in Tokens, NEW from \in Accounts,
           NEW to \in Accounts, NEW amount \in Nat, amount <= b[asset][from]
    PROVE  LET m == Moved(b, asset, from, to, amount)
           IN  /\ m \in Ledgers
               /\ \A a \in Tokens : a # asset => m[a] = b[a]
               /\ \A c \in Accounts :
                     m[asset][c] = b[asset][c] - (IF c = from THEN amount ELSE 0)
                                               + (IF c = to THEN amount ELSE 0)
               /\ \A a \in Tokens : Held(m, a) = Held(b, a)
  <1> DEFINE taken == [b[asset] EXCEPT ![from] = @ - amount]
             row == [taken EXCEPT ![to] = @ + amount]
             m == Moved(b, asset, from, to, amount)
  <1>1. b[asset] \in [Accounts -> Nat]
    BY LedgerLemma
  <1>2. /\ row \in [Accounts -> Nat]
        /\ \A c \in Accounts :
              row[c] = b[asset][c] - (IF c = from THEN amount ELSE 0)
                                   + (IF c = to THEN amount ELSE 0)
    <2>1. /\ taken \in [Accounts -> Nat]
          /\ \A c \in Accounts :
                taken[c] = b[asset][c] - (IF c = from THEN amount ELSE 0)
      BY <1>1
    <2> HIDE DEF taken
    <2> QED BY <2>1
  <1> HIDE DEF row
  <1>3. m = [b EXCEPT ![asset] = row]
    BY Zenon DEF Moved, row
  <1>4. /\ m \in Ledgers
        /\ m[asset] = row
        /\ \A a \in Tokens : a # asset => m[a] = b[a]
    BY <1>2, <1>3 DEF Ledgers
  <1> HIDE DEF m
  <1>5. ASSUME NEW a \in Tokens PROVE Held(m, a) = Held(b, a)
    <2>1. CASE a # asset
      BY <2>1, <1>4 DEF Held
    <2>2. CASE a = asset
      <3>1. \A c \in Accounts : b[asset][c] \in Nat
        BY LedgerLemma
      <3> QED BY <2>2, <3>1, <1>2, <1>4, AccountsLemma DEF Held
    <2> QED BY <2>1, <2>2
  <1> QED BY <1>2, <1>4, <1>5 DEF m

\* Native funds that come with a call only add to what the pair has.
LEMMA FundsLemma ==
    ASSUME NEW user \in Users, NEW funds \in [NativeTokens -> Nat],
           bal \in Ledgers, CanFund(user, funds)
    PROVE  LET b == WithFunds(user, funds)
           IN  /\ b \in Ledgers
               /\ Keeps(b, bal)
               /\ \A a \in Tokens : b[a][Pair] = bal[a][Pair]
                                       + IF a \in NativeTokens THEN funds[a] ELSE 0
               /\ \A a \in Tokens \ NativeTokens : b[a] = bal[a]
  <1> DEFINE row(a) == [bal[a] EXCEPT ![user] = @ - funds[a], ![Pair] = @ + funds[a]]
             b == WithFunds(user, funds)
  <1>1. ASSUME NEW a \in NativeTokens
        PROVE  row(a) \in [Accounts -> Nat] /\ row(a)[Pair] = bal[a][Pair] + funds[a]
               /\ row(a)[Alice] + row(a)[Bob] + row(a)[Pair] + row(a)[LpToken]
                     = bal[a][Alice] + bal[a][Bob] + bal[a][Pair] + bal[a][LpToken]
    <2>1. bal[a] \in [Accounts -> Nat] /\ funds[a] \in Nat /\ funds[a] <= bal[a][user]
      BY LedgerLemma, AccountsLemma DEF CanFund
    <2>2. user \in Accounts /\ Pair \in Accounts /\ user # Pair
      BY AccountsLemma
    <2>3. user \in {Alice, Bob}
      BY DEF Users
    <2> QED BY <2>1, <2>2, <2>3, AccountsLemma
  <1>2. \A a \in Tokens : b[a] = IF a \in NativeTokens THEN row(a) ELSE bal[a]
    BY Zenon DEF WithFunds
  <1>3. b = [a \in Tokens |-> b[a]]
    BY Zenon DEF WithFunds
  <1> HIDE DEF row, b
  <1>4. \A a \in Tokens : b[a] \in [Accounts -> Nat] /\ b[a][Pair] = bal[a][Pair] + IF a \in NativeTokens THEN funds[a] ELSE 0
    <2> SUFFICES ASSUME NEW a \in Tokens
                 PROVE  b[a] \in [Accounts -> Nat] /\ b[a][Pair] = bal[a][Pair] + IF a \in NativeTokens THEN funds[a] ELSE 0
      OBVIOUS
    <2>1. CASE a \in NativeTokens
      BY <1>1, <1>2, <2>1
    <2>2. CASE a \notin NativeTokens
      BY <1>2, <2>2, LedgerLemma, AccountsLemma
    <2> QED BY <2>1, <2>2
  <1>5. b \in Ledgers
    BY <1>3, <1>4 DEF Ledgers
  <1>6. \A a \in Tokens \ NativeTokens : b[a] = bal[a]
    BY <1>2
  <1>7. \A a \in Tokens : Held(b, a) = Held(bal, a)
    <2> SUFFICES ASSUME NEW a \in Tokens PROVE Held(b, a) = Held(bal, a)
      OBVIOUS
    <2>1. CASE a \in NativeTokens
      BY <1>1, <1>2, <2>1 DEF Held
    <2>2. CASE a \notin NativeTokens
      BY <1>6, <2>2 DEF Held
    <2> QED BY <2>1, <2>2
  <1>8. Keeps(b, bal)
    <2> QED BY <1>7, HeldLemma, AccountsLemma DEF Keeps
  <1> QED BY <1>4, <1>5, <1>6, <1>8 DEF b

(***************************************************************************)
(* Messages.                                                               *)
(***************************************************************************)
\* The pool's assets are assets, never the LP token, and their reserves are
\* natural numbers.
LEMMA InfosLemma ==
    ASSUME NEW p, NEW b, NEW s, StateOK(p, b, s)
    PROVE  /\ Len(p.asset_infos) \in Nat
           /\ p.asset_infos \in Seq(Assets)
           /\ b \in Ledgers /\ s \in Nat
           /\ \A k \in Slots(p) : /\ p.asset_infos[k] \in Assets
                                  /\ p.asset_infos[k] \in Tokens
                                  /\ p.asset_infos[k] # LpToken
                                  /\ b[p.asset_infos[k]][Pair] \in Nat
           /\ p.asset_infos # << >> => Len(p.asset_infos) > 0
  <1>1. p.asset_infos \in Seq(Assets) /\ b \in Ledgers /\ s \in Nat
    BY DEF StateOK
  <1>2. \A k \in Slots(p) : p.asset_infos[k] \in Assets
    BY <1>1 DEF Slots
  <1>3. ASSUME NEW a \in Assets PROVE a \in Tokens /\ a # LpToken /\ b[a][Pair] \in Nat
    BY <1>1, LedgerLemma, AccountsLemma
  <1> QED BY <1>1, <1>2, <1>3

\* Messages have the type of messages, and cost a natural number.
LEMMA MsgLemma ==
    /\ \A type \in {"Transfer", "BankSend", "TransferFrom", "Mint", "Burn", "Instantiate"},
          asset \in Tokens, from \in Accounts, to \in Accounts, amount \in Nat :
          /\ Msg(type, asset, from, to, amount) \in Messages
          /\ Msg(type, asset, from, to, amount).type = type
          /\ Msg(type, asset, from, to, amount).asset = asset
          /\ Msg(type, asset, from, to, amount).from = from
          /\ Msg(type, asset, from, to, amount).to = to
          /\ Msg(type, asset, from, to, amount).amount = amount
    /\ \A m \in Messages : /\ m.type # "BankSend" => Cost(m) = m.amount
                           /\ m.type = "BankSend" =>
                                 Cost(m) = m.amount + TaxDue(m.asset, m.amount)
                           /\ m.amount \in Nat
                           /\ Cost(m) \in Nat
  <1>1. \A m \in Messages : m.amount \in Nat
    BY DEF Messages
  <1>2. \A info : \A n \in Nat : TaxDue(info, n) \in Nat
    <2> SUFFICES ASSUME NEW info, NEW n \in Nat PROVE TaxDue(info, n) \in Nat
      OBVIOUS
    <2>1. n * TaxRate \in Nat
      BY AssetAssumption, ProductLemma
    <2>2. (n * TaxRate) \div DECIMAL_FRACTION \in Nat
      BY <2>1, AssetAssumption, DivLemma
    <2> QED BY <2>2, AssetAssumption DEF TaxDue, Lesser
  <1>3. \A m \in Messages : /\ m.type # "BankSend" => Cost(m) = m.amount
                            /\ m.type = "BankSend" =>
                                  Cost(m) = m.amount + TaxDue(m.asset, m.amount)
                            /\ Cost(m) \in Nat
    <2> SUFFICES ASSUME NEW m \in Messages
                 PROVE  /\ m.type # "BankSend" => Cost(m) = m.amount
                        /\ m.type = "BankSend" =>
                              Cost(m) = m.amount + TaxDue(m.asset, m.amount)
                        /\ Cost(m) \in Nat
      OBVIOUS
    <2>1. m.amount \in Nat /\ TaxDue(m.asset, m.amount) \in Nat
      BY <1>1, <1>2
    <2> QED BY <2>1 DEF Cost
  <1>4. \A type \in {"Transfer", "BankSend", "TransferFrom", "Mint", "Burn", "Instantiate"},
           asset \in Tokens, from \in Accounts, to \in Accounts, amount \in Nat :
           Msg(type, asset, from, to, amount) \in Messages
    BY DEF Msg, Messages
  <1> QED BY <1>1, <1>3, <1>4 DEF Msg

\* With a rate or a cap of zero no native payout is taxed.
Untaxed == TaxRate = 0 \/ TaxCap = 0

\* Then nothing is taken off a payout, and nothing is due on one.
LEMMA UntaxedLemma ==
    ASSUME Untaxed, NEW info, NEW amount \in Nat
    PROVE  deduct_tax(info, amount) = amount /\ TaxDue(info, amount) = 0
  <1> DEFINE D == DECIMAL_FRACTION
             q == (amount * D) \div (TaxRate + D)
             f == (amount * TaxRate) \div D
  <1>1. q \in Nat /\ f \in Nat /\ amount - q \in Nat
    <2>1. D \in Nat /\ D > 0 /\ TaxRate \in Nat
      BY AssetAssumption
    <2>2. amount * TaxRate \in Nat /\ amount * D \in Nat /\ D * amount = amount * D
      BY <2>1, ProductLemma
    <2>3. q \in Nat /\ (TaxRate + D) * q <= amount * D /\ f \in Nat
      BY <2>1, <2>2, DivLemma
    <2>4. D * q <= (TaxRate + D) * q /\ D * q \in Nat /\ (TaxRate + D) * q \in Nat
      BY <2>1, <2>3, SMT
    <2> HIDE DEF D, q
    <2>5. D * q <= D * amount
      BY <2>2, <2>3, <2>4
    <2>6. q <= amount
      BY <2>1, <2>3, <2>5, ProductLemma
    <2> QED BY <2>3, <2>6
  <1>2. TaxRate = 0 => amount - q = 0 /\ f = 0
    BY AssetAssumption, SMT
  <1> HIDE DEF q, f
  <1>3. Lesser(amount - q, TaxCap) = 0 /\ Lesser(f, TaxCap) = 0
    BY <1>1, <1>2, AssetAssumption DEF Lesser, Untaxed
  <1>4. compute_tax(info, amount) = 0
    BY <1>3, Zenon DEF compute_tax, q, D
  <1>5. TaxDue(info, amount) = 0
    BY <1>3, Zenon DEF TaxDue, f, D
  <1> QED BY <1>4, <1>5 DEF deduct_tax

\* A payout takes from the pair no more than the amount it was made for, and
\* just that amount if it is not taxed.
LEMMA PayoutLemma ==
    ASSUME NEW info \in Assets, NEW amount \in Nat, NEW to \in Accounts
    PROVE  LET m == into_msg(info, amount, Pair, to)
           IN  /\ m \in Messages
               /\ m.type \in Payouts /\ m.asset = info /\ m.from = Pair /\ m.to = to
               /\ Cost(m) \in Nat /\ Cost(m) <= amount
               /\ m.amount \in Nat /\ m.amount <= Cost(m)
               /\ Untaxed => Cost(m) = amount
  <1> DEFINE m == into_msg(info, amount, Pair, to)
             n == deduct_tax(info, amount)
  <1>1. n \in Nat /\ n <= amount /\ TaxDue(info, n) \in Nat
        /\ (is_native_token(info) => n + TaxDue(info, n) <= amount)
    BY TaxLemma
  <1>2. Untaxed => n = amount /\ TaxDue(info, n) = 0
    BY <1>1, UntaxedLemma
  <1> HIDE DEF n
  <1>3. info \in Tokens /\ Pair \in Accounts
    BY AccountsLemma
  <1>4. CASE is_native_token(info)
    <2>1. m = Msg("BankSend", info, Pair, to, n)
      BY <1>4 DEF into_msg, n
    <2> HIDE DEF m
    <2>2. m \in Messages /\ m.type = "BankSend" /\ m.asset = info /\ m.from = Pair
          /\ m.amount = n /\ m.to = to
      BY <1>1, <1>3, <2>1 DEF Msg, Messages
    <2>3. Cost(m) = n + TaxDue(info, n) /\ Cost(m) \in Nat
      BY <2>2, MsgLemma
    <2>4. TaxDue(info, n) \in Nat
      BY <1>1
    <2>5. /\ m \in Messages
          /\ m.type \in Payouts /\ m.asset = info /\ m.from = Pair /\ m.to = to
          /\ Cost(m) \in Nat /\ Cost(m) <= amount
          /\ m.amount \in Nat /\ m.amount <= Cost(m)
          /\ Untaxed => Cost(m) = amount
      BY <1>1, <1>4, <1>2, <2>2, <2>3, <2>4 DEF Payouts
    <2> QED BY <2>5 DEF m
  <1>5. CASE ~is_native_token(info)
    <2>1. m = Msg("Transfer", info, Pair, to, amount)
      BY <1>5 DEF into_msg
    <2> HIDE DEF m
    <2>2. m \in Messages /\ m.type = "Transfer" /\ m.asset = info /\ m.from = Pair
          /\ m.amount = amount /\ m.to = to
      BY <1>3, <2>1 DEF Msg, Messages
    <2>3. Cost(m) = amount /\ Cost(m) \in Nat
      BY <2>2, MsgLemma
    <2> QED BY <2>2, <2>3 DEF Payouts, m
  <1> QED BY <1>4, <1>5

\* A ledger on which no token was made is as good as the one before.
LEMMA KeepsLemma ==
    ASSUME NEW p, NEW b, NEW s, StateOK(p, b, s), NEW b2 \in Ledgers, Keeps(b2, b)
    PROVE  StateOK(p, b2, s)
  <1>1. b \in Ledgers /\ Assets \subseteq Tokens
    BY AccountsLemma DEF StateOK
  <1>2. \A a \in Assets : Held(b2, a) \in Nat /\ Held(b, a) \in Nat
    BY <1>1, HeldLemma
  <1>3. \A a \in Assets : Held(b2, a) <= Circulation
    BY <1>2, HeldLemma DEF StateOK, Keeps
  <1> QED BY <1>3 DEF StateOK, Keeps

(***************************************************************************)
(* Transactions.                                                           *)
(***************************************************************************)
\* With no message left, the outlook is what there is.
LEMMA QuietLemma ==
    ASSUME NEW p, NEW b, NEW s, NEW out, DOMAIN out = {}
    PROVE  /\ TxOK(p, b, s, out) => TxOK(p, b, s, NoMsgs)
           /\ StateOK(p, b, s) /\ (p.liquidity_token = LpToken \/ p.asset_infos = << >>)
                 => TxOK(p, b, s, out)
           /\ TxOK(p, b, s, out) =>
                 p.liquidity_token = LpToken \/ p.asset_infos = << >>
           /\ StateOK(p, b, s) =>
                 Outlook(p, b, s, out) = View([pair_info |-> p, bal |-> b,
                                               total_supply |-> s])
  <1>1. DOMAIN NoMsgs = {} /\ NoMsgs \in [{} -> Messages] /\ out \in [{} -> Messages]
    BY DEF NoMsgs
  <1>2. ASSUME StateOK(p, b, s)
        PROVE  Outlook(p, b, s, out) = View([pair_info |-> p, bal |-> b,
                                             total_supply |-> s])
    <2>1. \A k \in Slots(p) : Settling(p, b, out, k) = b[p.asset_infos[k]][Pair]
      BY <1>2, InfosLemma DEF Settling
    <2>2. SettledSupply(p, s, out) = s
      BY <1>2, InfosLemma DEF SettledSupply
    <2> QED BY <2>1, <2>2 DEF Outlook, View, Reserves, Slots
  <1> QED BY <1>1, <1>2 DEF TxOK, Linked, MsgsOK

\* A step to a state of which TxOK holds keeps the invariant.  One that commits
\* leaves the reserves and the supply of its outlook; any other leaves the last
\* commitment alone.
LEMMA LeavesLemma ==
    ASSUME TxInv, NEW p, NEW b, NEW s, NEW out, Leaves(p, b, s, out)
    PROVE  /\ TxInv'
           /\ pair_info' = p /\ bal' = b /\ total_supply' = s /\ msgs' = out
           /\ \/ DOMAIN out # {} /\ committed' = committed
              \/ /\ DOMAIN out = {} /\ View(committed') = Outlook(p, b, s, out)
                 /\ committed'.pair_info = p
  <1>1. pair_info' = p /\ bal' = b /\ total_supply' = s /\ msgs' = out
    BY DEF Leaves, Become
  <1>2. TxOK(pair_info, bal, total_supply, msgs)' /\ TxOK(p, b, s, out)
    BY <1>1 DEF Leaves
  <1>3. CASE DOMAIN out = {}
    <2>1. committed' = [pair_info |-> p, bal |-> b, total_supply |-> s]
      BY <1>3 DEF Leaves, Become
    <2>2. TxOK(p, b, s, NoMsgs) /\ StateOK(p, b, s)
      BY <1>2, <1>3, QuietLemma DEF TxOK
    <2>3. CommittedOK'
      BY <1>1, <2>1, <2>2 DEF CommittedOK
    <2>4. View(committed') = Outlook(p, b, s, out)
      BY <1>3, <2>1, <2>2, QuietLemma
    <2> QED BY <1>1, <1>2, <1>3, <2>1, <2>3, <2>4 DEF TxInv
  <1>4. CASE DOMAIN out # {}
    <2>1. committed' = committed /\ ~Idle'
      BY <1>1, <1>4 DEF Leaves, Become, Idle
    <2>2. CommittedOK'
      BY <1>1, <1>4, <2>1 DEF CommittedOK, TxInv, Leaves
    <2> QED BY <1>1, <1>2, <1>4, <2>1, <2>2 DEF TxInv
  <1> QED BY <1>3, <1>4

\* What a handler finds: the state that was committed last.
LEMMA ReadyLemma ==
    ASSUME TxInv, Idle
    PROVE  /\ TxOK(pair_info, bal, total_supply, NoMsgs)
           /\ StateOK(pair_info, bal, total_supply)
           /\ committed.pair_info = pair_info
           /\ View(committed) = [reserves |-> [k \in Slots(pair_info) |->
                                                bal[pair_info.asset_infos[k]][Pair]],
                                 supply |-> total_supply]
           /\ Ready => /\ pair_info.liquidity_token = LpToken
                       /\ NCoins \in Nat \ {0}
                       /\ 1..NCoins = Slots(pair_info)
                       /\ LpPosition = Len(pair_info.asset_infos) + 1
                       /\ LpPosition = NCoins + 1
  <1>1. DOMAIN NoMsgs = {} /\ DOMAIN msgs = {}
    BY DEF NoMsgs, Idle
  <1>2. TxOK(pair_info, bal, total_supply, msgs)
    BY DEF TxInv
  <1>3. committed = [pair_info |-> pair_info, bal |-> bal, total_supply |-> total_supply]
    BY DEF TxInv, CommittedOK
  <1>4. StateOK(pair_info, bal, total_supply)
    BY <1>2 DEF TxOK
  <1>5. TxOK(pair_info, bal, total_supply, NoMsgs)
    BY <1>1, <1>2, QuietLemma
  <1>6. pair_info.liquidity_token = LpToken \/ pair_info.asset_infos = << >>
    BY <1>1, <1>2, QuietLemma
  <1>7. View(committed) = [reserves |-> [k \in Slots(pair_info) |->
                                           bal[pair_info.asset_infos[k]][Pair]],
                           supply |-> total_supply]
    BY <1>3 DEF View, Reserves, Slots
  <1>8. Ready => NCoins \in Nat \ {0}
    BY <1>4, InfosLemma DEF Ready, NCoins, Infos
  <1> QED BY <1>3, <1>4, <1>5, <1>6, <1>7, <1>8
          DEF Ready, NCoins, Infos, Slots, LpPosition

(***************************************************************************)
(* The chain executes a message.                                           *)
(***************************************************************************)
\* The messages but the one at x.
Without(out, x) == [y \in DOMAIN out \ {x} |-> out[y]]

\* Executing a message about a pool asset, on whatever ledger b2 comes of it.
LEMMA PoolMsgLemma ==
    ASSUME NEW p, NEW b, NEW s, NEW out, TxOK(p, b, s, out),
           NEW x \in DOMAIN out, PoolMsg(p, b, x, out[x]),
           NEW b2 \in Ledgers,
           \A a \in Tokens : a # out[x].asset => b2[a] = b[a],
           Keeps(b2, b),
           b2[out[x].asset][Pair] = Settling(p, b, out, x)
    PROVE  /\ TxOK(p, b2, s, Without(out, x))
           /\ Outlook(p, b2, s, Without(out, x)) = Outlook(p, b, s, out)
  <1> DEFINE r == Without(out, x)
             asset == out[x].asset
  <1>1. StateOK(p, b, s) /\ Linked(p, out) /\ MsgsOK(p, b, s, out)
    BY DEF TxOK
  <1>2. /\ asset \in Assets /\ asset # LpToken /\ asset \in Tokens
        /\ x \in Slots(p) /\ asset = p.asset_infos[x]
        /\ out[x].type \in Payouts \cup {"TransferFrom"}
    BY <1>1, InfosLemma DEF PoolMsg
  <1>3. \A k \in Slots(p) : k # x => b2[p.asset_infos[k]] = b[p.asset_infos[k]]
                                  /\ p.asset_infos[k] # asset
    <2> SUFFICES ASSUME NEW k \in Slots(p), k # x
                 PROVE  /\ p.asset_infos[k] # asset
                        /\ b2[p.asset_infos[k]] = b[p.asset_infos[k]]
      OBVIOUS
    <2>1. p.asset_infos[k] # asset
      BY <1>1, <1>2 DEF StateOK
    <2>2. p.asset_infos[k] \in Tokens
      BY <1>1, InfosLemma
    <2> QED BY <2>1, <2>2
  <1>4. b2[LpToken] = b[LpToken]
    BY <1>2, AccountsLemma
  <1>5. StateOK(p, b2, s)
    BY <1>1, KeepsLemma
  <1>6. DOMAIN r = DOMAIN out \ {x} /\ \A y \in DOMAIN r : r[y] = out[y]
    BY DEF Without
  <1>7. Linked(p, r)
    <2>1. \A y \in DOMAIN out : out[y].type # "Instantiate"
      BY <1>1, <1>2 DEF MsgsOK, PoolMsg, LpMsg, CreateMsg, Payouts
    <2> QED BY <1>1, <2>1 DEF Linked
  <1>8. MsgsOK(p, b2, s, r)
    <2>1. DOMAIN r \subseteq Nat /\ r \in [DOMAIN r -> Messages]
      BY <1>1 DEF MsgsOK, Without
    <2> SUFFICES ASSUME NEW y \in DOMAIN r
                 PROVE  PoolMsg(p, b2, y, r[y]) \/ LpMsg(p, b2, y, r[y])
      BY <2>1 DEF MsgsOK
    <2>2. y \in DOMAIN out /\ y # x /\ r[y] = out[y]
      BY <1>6
    <2>3. PoolMsg(p, b, y, out[y]) \/ LpMsg(p, b, y, out[y])
      BY <1>1, <2>2 DEF MsgsOK, CreateMsg
    <2>4. CASE PoolMsg(p, b, y, out[y])
      BY <1>3, <2>2, <2>4 DEF PoolMsg
    <2>5. CASE LpMsg(p, b, y, out[y])
      BY <1>4, <2>2, <2>5 DEF LpMsg
    <2> QED BY <2>3, <2>4, <2>5
  <1>9. Outlook(p, b2, s, r) = Outlook(p, b, s, out)
    <2>1. \A k \in Slots(p) : Settling(p, b2, r, k) = Settling(p, b, out, k)
      <3> SUFFICES ASSUME NEW k \in Slots(p)
                   PROVE  Settling(p, b2, r, k) = Settling(p, b, out, k)
        OBVIOUS
      <3>1. CASE k = x
        <4>1. Settling(p, b2, r, x) = b2[asset][Pair] + 0
          BY <1>2, <1>6 DEF Settling
        <4>2. b2[asset][Pair] \in Nat
          BY <1>2, LedgerLemma, AccountsLemma
        <4> HIDE DEF r
        <4> QED BY <3>1, <4>1, <4>2
      <3>2. CASE k # x
        BY <1>3, <1>6, <3>2 DEF Settling
      <3> QED BY <3>1, <3>2
    <2>2. Len(p.asset_infos) + 1 # x
      BY <1>1, <1>2, InfosLemma DEF Slots
    <2>3. SettledSupply(p, s, r) = SettledSupply(p, s, out)
      BY <1>6, <2>2 DEF SettledSupply
    <2> QED BY <2>1, <2>3 DEF Outlook
  <1> QED BY <1>5, <1>7, <1>8, <1>9 DEF TxOK

\* Executing the message about the LP token.
LEMMA LpMsgLemma ==
    ASSUME NEW p, NEW b, NEW s, NEW out, TxOK(p, b, s, out),
           NEW x \in DOMAIN out, LpMsg(p, b, x, out[x]),
           NEW b2 \in Ledgers, NEW s2 \in Nat,
           \A a \in Tokens : a # LpToken => b2[a] = b[a],
           Held(b2, LpToken) = s2,
           s2 = SettledSupply(p, s, out)
    PROVE  /\ TxOK(p, b2, s2, Without(out, x))
           /\ Outlook(p, b2, s2, Without(out, x)) = Outlook(p, b, s, out)
  <1> DEFINE r == Without(out, x)
             lp == Len(p.asset_infos) + 1
  <1>1. StateOK(p, b, s) /\ Linked(p, out) /\ MsgsOK(p, b, s, out)
    BY DEF TxOK
  <1>2. x = lp /\ x \notin Slots(p)
    BY <1>1, InfosLemma DEF LpMsg, Slots
  <1>3. DOMAIN r = DOMAIN out \ {x} /\ \A y \in DOMAIN r : r[y] = out[y]
    BY DEF Without
  <1>4. \A y \in DOMAIN out : out[y].type # "Instantiate"
    BY <1>1 DEF MsgsOK, PoolMsg, LpMsg, CreateMsg, Payouts
  <1>5. p.liquidity_token = LpToken /\ p.asset_infos # << >>
    BY <1>1, <1>4, AccountsLemma DEF Linked, StateOK
  <1>6. StateOK(p, b2, s2)
    <2>1. \A a \in Assets : Held(b2, a) = Held(b, a)
      BY AccountsLemma DEF Held
    <2> QED BY <1>1, <1>5, <2>1 DEF StateOK
  <1>7. Linked(p, r)
    BY <1>5 DEF Linked
  <1>8. \A k \in Slots(p) : b2[p.asset_infos[k]] = b[p.asset_infos[k]]
    BY <1>1, InfosLemma
  <1>9. MsgsOK(p, b2, s2, r)
    <2>1. DOMAIN r \subseteq Nat /\ r \in [DOMAIN r -> Messages]
      BY <1>1 DEF MsgsOK, Without
    <2> SUFFICES ASSUME NEW y \in DOMAIN r
                 PROVE  PoolMsg(p, b2, y, r[y])
      BY <2>1 DEF MsgsOK
    <2>2. y \in DOMAIN out /\ y # x /\ r[y] = out[y]
      BY <1>3
    <2>3. PoolMsg(p, b, y, out[y])
      BY <1>1, <1>2, <1>4, <2>2 DEF MsgsOK, LpMsg, CreateMsg
    <2> QED BY <1>8, <2>2, <2>3 DEF PoolMsg
  <1>10. Outlook(p, b2, s2, r) = Outlook(p, b, s, out)
    <2>1. \A k \in Slots(p) : Settling(p, b2, r, k) = Settling(p, b, out, k)
      BY <1>2, <1>3, <1>8 DEF Settling
    <2>2. SettledSupply(p, s2, r) = s2
      BY <1>2, <1>3 DEF SettledSupply
    <2> QED BY <2>1, <2>2 DEF Outlook
  <1> QED BY <1>6, <1>7, <1>9, <1>10 DEF TxOK

\* What it takes for a message to be executed, by type.
LEMMA ExecutableLemma ==
    ASSUME NEW m, Executable(m)
    PROVE  /\ m.type \in Payouts \cup {"Burn"} =>
                 m.amount > 0 /\ Cost(m) <= bal[m.asset][m.from]
           /\ m.type = "TransferFrom" => m.amount <= bal[m.asset][m.from]
           /\ m.type = "Mint" => m.amount > 0
  <1>1. CASE m.type \in Payouts \cup {"Burn"}
    BY <1>1 DEF Executable, Payouts
  <1>2. CASE m.type = "TransferFrom"
    BY <1>2 DEF Executable, Payouts
  <1>3. CASE m.type = "Mint"
    BY <1>3 DEF Executable, Payouts
  <1> QED BY <1>1, <1>2, <1>3 DEF Payouts

\* Executing a message keeps the invariant, the outlook, and what dooms the
\* transaction.
LEMMA ExecuteLemma ==
    ASSUME TxInv, NEW x \in DOMAIN msgs, Execute(x)
    PROVE  \E p, b, s, out :
              /\ Leaves(p, b, s, out)
              /\ p \in {pair_info, reply(LpToken)}
              /\ Outlook(p, b, s, out) = Outlook(pair_info, bal, total_supply, msgs)
              /\ Doomed(msgs) => Doomed(out)
  <1> DEFINE m == msgs[x]
             now == Outlook(pair_info, bal, total_supply, msgs)
             rest == Without(msgs, x)
             Goal == \E p, b, s, out :
                        /\ Leaves(p, b, s, out)
                        /\ p \in {pair_info, reply(LpToken)}
                        /\ Outlook(p, b, s, out) = now
                        /\ Doomed(msgs) => Doomed(out)
  <1>1. /\ TxOK(pair_info, bal, total_supply, msgs)
        /\ StateOK(pair_info, bal, total_supply)
        /\ bal \in Ledgers /\ total_supply \in Nat
        /\ MsgsOK(pair_info, bal, total_supply, msgs)
    BY DEF TxInv, TxOK, StateOK
  <1>2. /\ m \in Messages /\ m.asset \in Tokens /\ m.from \in Accounts
        /\ m.to \in Accounts /\ m.amount \in Nat /\ Cost(m) \in Nat
    <2>1. m \in Messages
      BY <1>1 DEF MsgsOK
    <2> QED BY <2>1, MsgLemma DEF Messages
  <1>3. \/ PoolMsg(pair_info, bal, x, m)
        \/ LpMsg(pair_info, bal, x, m)
        \/ CreateMsg(pair_info, total_supply, msgs, x)
    BY <1>1 DEF MsgsOK
  <1>4. Executable(m) /\ Rest(x) = rest
    BY DEF Execute, Rest, Without
  <1>5. \A c \in Accounts : bal[m.asset][c] \in Nat /\ bal[LpToken][c] \in Nat
    BY <1>1, <1>2, LedgerLemma, AccountsLemma
  <1>6. ASSUME PoolMsg(pair_info, bal, x, m)
        PROVE  Settling(pair_info, bal, msgs, x)
                   = bal[m.asset][Pair]
                       + ((IF m.to = Pair THEN m.amount ELSE 0)
                          - (IF m.from = Pair THEN Cost(m) ELSE 0))
    BY <1>6 DEF Settling, PoolMsg
  <1>7. Doomed(msgs) => Doomed(rest)
    <2> SUFFICES ASSUME NEW y \in DOMAIN msgs, msgs[y].type \in Payouts,
                        msgs[y].amount = 0
                 PROVE  Doomed(rest)
      BY DEF Doomed
    <2>1. y # x
      BY <1>4, ExecutableLemma
    <2> QED BY <2>1 DEF Doomed, Without
  <1>8. ASSUME NEW p, NEW b2, NEW s2, TxOK(p, b2, s2, rest),
               Outlook(p, b2, s2, rest) = now,
               Become(p, b2, s2, rest),
               \/ p = pair_info
               \/ p = reply(LpToken) /\ p.asset_infos = pair_info.asset_infos
                  /\ DOMAIN rest = {}
        PROVE  Goal
    <2>1. committed.pair_info = pair_info \/ committed.pair_info.asset_infos = << >>
      BY DEF TxInv, CommittedOK
    <2>2. Leaves(p, b2, s2, rest) /\ p \in {pair_info, reply(LpToken)}
      BY <1>8, <2>1 DEF Leaves
    <2> HIDE DEF now, rest
    <2> QED BY <1>7, <1>8, <2>2
  <1>9. CASE execute_transfer(x)
    <2> DEFINE b2 == Moved(bal, m.asset, m.from, m.to, m.amount)
    <2>1. m.type \in {"Transfer", "TransferFrom"} /\ PoolMsg(pair_info, bal, x, m)
      BY <1>3, <1>9 DEF execute_transfer, LpMsg, CreateMsg
    <2>2. m.amount <= bal[m.asset][m.from]
          /\ (m.type = "Transfer" => Cost(m) = m.amount)
      <3>1. m.type = "Transfer" => Cost(m) = m.amount
        BY <1>2, MsgLemma
      <3>2. /\ m.type = "Transfer" => Cost(m) <= bal[m.asset][m.from]
            /\ m.type = "TransferFrom" => m.amount <= bal[m.asset][m.from]
        BY <1>4, ExecutableLemma DEF Payouts
      <3> QED BY <2>1, <3>1, <3>2
    <2>3. /\ b2 \in Ledgers /\ \A a \in Tokens : Held(b2, a) = Held(bal, a)
          /\ \A a \in Tokens : a # m.asset => b2[a] = bal[a]
          /\ b2[m.asset][Pair] = bal[m.asset][Pair]
                - (IF Pair = m.from THEN m.amount ELSE 0)
                + (IF Pair = m.to THEN m.amount ELSE 0)
      <3>1. Pair \in Accounts
        BY AccountsLemma
      <3> QED BY <1>1, <1>2, <2>2, <3>1, MovedLemma
    <2> HIDE DEF b2
    <2>4. Keeps(b2, bal)
      BY <1>1, <2>3, HeldLemma, AccountsLemma DEF Keeps
    <2>5. b2[m.asset][Pair] = Settling(pair_info, bal, msgs, x)
      <3>1. m.type = "TransferFrom" => m.from # Pair
        BY <2>1, AccountsLemma DEF PoolMsg
      <3>2. bal[m.asset][Pair] \in Nat
        BY <1>5, AccountsLemma
      <3> QED BY <1>2, <1>6, <2>1, <2>2, <2>3, <3>1, <3>2
    <2>6. TxOK(pair_info, b2, total_supply, rest)
          /\ Outlook(pair_info, b2, total_supply, rest) = now
      BY <1>1, <2>1, <2>3, <2>4, <2>5, PoolMsgLemma
    <2>7. Become(pair_info, b2, total_supply, rest)
      BY <1>4, <1>9 DEF execute_transfer, b2
    <2> QED BY <1>8, <2>6, <2>7
  <1>10. CASE execute_bank_send(x)
    <2> DEFINE b1 == Moved(bal, m.asset, m.from, m.to, m.amount)
               tax == TaxDue(m.asset, m.amount)
               b2 == [b1 EXCEPT ![m.asset][m.from] = @ - tax]
    <2>1. m.type = "BankSend" /\ PoolMsg(pair_info, bal, x, m)
      BY <1>3, <1>10 DEF execute_bank_send, LpMsg, CreateMsg
    <2>2. /\ m.from = Pair /\ Cost(m) <= bal[m.asset][Pair] /\ m.asset # LpToken
          /\ Cost(m) = m.amount + tax /\ tax \in Nat
      <3>1. m.from = Pair /\ Cost(m) <= bal[m.asset][Pair]
        BY <2>1 DEF PoolMsg, Payouts
      <3>2. m.asset # LpToken
        BY <1>1, <2>1, InfosLemma DEF PoolMsg
      <3>3. Cost(m) = m.amount + tax
        BY <1>2, <2>1, MsgLemma
      <3>4. tax \in Nat
        <4>1. m.amount * TaxRate \in Nat
          BY <1>2, AssetAssumption, ProductLemma
        <4>2. (m.amount * TaxRate) \div DECIMAL_FRACTION \in Nat
          BY <4>1, AssetAssumption, DivLemma
        <4> QED BY <4>2, AssetAssumption DEF TaxDue, Lesser
      <3> QED BY <3>1, <3>2, <3>3, <3>4
    <2> HIDE DEF tax
    <2>3. /\ b1 \in Ledgers /\ \A a \in Tokens : Held(b1, a) = Held(bal, a)
          /\ \A a \in Tokens : a # m.asset => b1[a] = bal[a]
          /\ b1[m.asset][Pair] = bal[m.asset][Pair] - m.amount
                + (IF Pair = m.to THEN m.amount ELSE 0)
      <3>1. m.amount <= bal[m.asset][m.from] /\ Pair \in Accounts
        BY <1>2, <1>5, <2>2, AccountsLemma
      <3> QED BY <1>1, <1>2, <2>2, <3>1, MovedLemma
    <2> HIDE DEF b1
    <2>4. b1[m.asset][Pair] >= tax /\ b1[m.asset][Pair] \in Nat
      BY <1>2, <1>5, <2>2, <2>3, AccountsLemma
    <2>5. /\ b2 \in Ledgers
          /\ \A a \in Tokens : a # m.asset => b2[a] = b1[a]
          /\ b2[m.asset][Pair] = b1[m.asset][Pair] - tax
          /\ \A c \in Accounts : c # Pair => b2[m.asset][c] = b1[m.asset][c]
      <3>1. m.asset \in Tokens /\ Pair \in Accounts /\ b1[m.asset] \in [Accounts -> Nat]
        BY <1>2, <2>3, AccountsLemma, LedgerLemma
      <3> QED BY <2>2, <2>3, <2>4, <3>1 DEF Ledgers
    <2>6. Keeps(b2, bal)
      <3>1. \A c \in Accounts : b1[m.asset][c] \in Nat
        BY <1>2, <2>3, LedgerLemma
      <3>2. Held(b2, m.asset) <= Held(b1, m.asset)
        BY <2>2, <2>5, <3>1, AccountsLemma DEF Held
      <3>3. \A a \in Tokens : a # m.asset => Held(b2, a) = Held(b1, a)
        BY <2>5 DEF Held
      <3>4. \A a \in Tokens : Held(b2, a) \in Nat /\ Held(b1, a) \in Nat
                              /\ Held(bal, a) \in Nat
        BY <1>1, <2>3, <2>5, HeldLemma
      <3> HIDE DEF b2
      <3>5. \A a \in Tokens : Held(b2, a) <= Held(bal, a)
        BY <1>2, <2>3, <3>2, <3>3, <3>4
      <3>6. Held(b2, LpToken) = Held(bal, LpToken)
        BY <2>2, <2>3, <3>3, AccountsLemma
      <3> QED BY <3>5, <3>6, AccountsLemma DEF Keeps
    <2> HIDE DEF b2
    <2>7. b2[m.asset][Pair] = Settling(pair_info, bal, msgs, x)
      BY <1>2, <1>5, <1>6, <2>1, <2>2, <2>3, <2>5, AccountsLemma
    <2>8. TxOK(pair_info, b2, total_supply, rest)
          /\ Outlook(pair_info, b2, total_supply, rest) = now
      BY <1>1, <2>1, <2>3, <2>5, <2>6, <2>7, PoolMsgLemma
    <2>9. Become(pair_info, b2, total_supply, rest)
      BY <1>4, <1>10 DEF execute_bank_send, b1, b2, tax
    <2> QED BY <1>8, <2>8, <2>9
  <1>11. CASE execute_mint(x)
    <2> DEFINE b2 == [bal EXCEPT ![LpToken][m.to] = @ + m.amount]
    <2>1. m.type = "Mint" /\ LpMsg(pair_info, bal, x, m)
      BY <1>3, <1>11 DEF execute_mint, PoolMsg, CreateMsg, Payouts
    <2>2. bal[LpToken] \in [Accounts -> Nat] /\ LpToken \in Tokens
      BY <1>1, LedgerLemma, AccountsLemma
    <2>3. /\ b2 \in Ledgers
          /\ \A a \in Tokens : a # LpToken => b2[a] = bal[a]
          /\ \A c \in Accounts :
                b2[LpToken][c] = bal[LpToken][c] + (IF c = m.to THEN m.amount ELSE 0)
      BY <1>1, <1>2, <2>2 DEF Ledgers
    <2>4. Held(bal, LpToken) = total_supply
      BY <1>1 DEF StateOK
    <2> HIDE DEF b2
    <2>5. Held(b2, LpToken) = total_supply + m.amount /\ total_supply + m.amount \in Nat
      BY <1>1, <1>2, <1>5, <2>3, <2>4, AccountsLemma DEF Held
    <2>6. total_supply + m.amount = SettledSupply(pair_info, total_supply, msgs)
      BY <2>1 DEF SettledSupply, LpMsg
    <2>7. TxOK(pair_info, b2, total_supply + m.amount, rest)
          /\ Outlook(pair_info, b2, total_supply + m.amount, rest) = now
      BY <1>1, <2>1, <2>3, <2>5, <2>6, LpMsgLemma
    <2>8. Become(pair_info, b2, total_supply + m.amount, rest)
      BY <1>4, <1>11 DEF execute_mint, b2
    <2> QED BY <1>8, <2>7, <2>8
  <1>12. CASE execute_burn(x)
    <2> DEFINE b2 == [bal EXCEPT ![LpToken][Pair] = @ - m.amount]
    <2>1. m.type = "Burn" /\ LpMsg(pair_info, bal, x, m)
      BY <1>3, <1>12 DEF execute_burn, PoolMsg, CreateMsg, Payouts
    <2>2. bal[LpToken] \in [Accounts -> Nat] /\ LpToken \in Tokens /\ Pair \in Accounts
          /\ m.amount <= bal[LpToken][Pair]
      BY <1>1, <2>1, LedgerLemma, AccountsLemma DEF LpMsg
    <2>3. /\ b2 \in Ledgers
          /\ \A a \in Tokens : a # LpToken => b2[a] = bal[a]
          /\ \A c \in Accounts :
                b2[LpToken][c] = bal[LpToken][c] - (IF c = Pair THEN m.amount ELSE 0)
      BY <1>1, <1>2, <2>2 DEF Ledgers
    <2>4. Held(bal, LpToken) = total_supply
      BY <1>1 DEF StateOK
    <2> HIDE DEF b2
    <2>5. Held(b2, LpToken) = total_supply - m.amount /\ total_supply - m.amount \in Nat
      BY <1>1, <1>2, <1>5, <2>2, <2>3, <2>4, AccountsLemma DEF Held
    <2>6. total_supply - m.amount = SettledSupply(pair_info, total_supply, msgs)
      <3>1. SettledSupply(pair_info, total_supply, msgs) = total_supply + (-m.amount)
        BY <2>1 DEF SettledSupply, LpMsg
      <3> QED BY <1>1, <1>2, <3>1
    <2>7. TxOK(pair_info, b2, total_supply - m.amount, rest)
          /\ Outlook(pair_info, b2, total_supply - m.amount, rest) = now
      BY <1>1, <2>1, <2>3, <2>5, <2>6, LpMsgLemma
    <2>8. Become(pair_info, b2, total_supply - m.amount, rest)
      BY <1>4, <1>12 DEF execute_burn, b2
    <2> QED BY <1>8, <2>7, <2>8
  <1>13. CASE execute_instantiate(x)
    <2> DEFINE p2 == reply(LpToken)
    <2>1. m.type = "Instantiate" /\ CreateMsg(pair_info, total_supply, msgs, x)
      BY <1>3, <1>13 DEF execute_instantiate, PoolMsg, LpMsg, Payouts
    <2>2. pair_info.asset_infos # << >> /\ total_supply = 0 /\ DOMAIN msgs = {x}
      BY <2>1 DEF CreateMsg
    <2>3. p2.asset_infos = pair_info.asset_infos /\ p2.liquidity_token = LpToken
          /\ DOMAIN p2 = DOMAIN pair_info
      BY <1>1 DEF StateOK, reply
    <2> HIDE DEF p2
    <2>4. StateOK(p2, bal, total_supply)
      BY <1>1, <2>2, <2>3 DEF StateOK, Slots
    <2>5. DOMAIN rest = {}
      BY <2>2 DEF Without
    <2>6. TxOK(p2, bal, total_supply, rest)
      BY <2>3, <2>4, <2>5, QuietLemma
    <2>7. Become(p2, bal, total_supply, rest)
      BY <1>4, <1>13 DEF execute_instantiate, p2
    <2>8. Outlook(p2, bal, total_supply, rest) = now
      <3>1. \A k \in Slots(pair_info) :
               Settling(p2, bal, rest, k) = Settling(pair_info, bal, msgs, k)
        BY <2>1, <2>2, <2>3, <2>5 DEF Settling, Payouts
      <3>2. SettledSupply(p2, total_supply, rest)
                = SettledSupply(pair_info, total_supply, msgs)
        BY <2>1, <2>2, <2>3, <2>5 DEF SettledSupply
      <3> QED BY <2>3, <3>1, <3>2 DEF Outlook, Slots
    <2>9. p2 = reply(LpToken)
      BY DEF p2
    <2> QED BY <1>8, <2>3, <2>5, <2>6, <2>7, <2>8, <2>9
  <1> QED BY <1>9, <1>10, <1>11, <1>12, <1>13 DEF Execute

\* Undoing a transaction keeps the invariant, and leaves what was committed.
LEMMA AbortLemma ==
    ASSUME TxInv, NEW x \in DOMAIN msgs, Abort(x)
    PROVE  /\ Leaves(committed.pair_info, committed.bal, committed.total_supply, NoMsgs)
           /\ committed' = committed
           /\ Outlook(committed.pair_info, committed.bal, committed.total_supply, NoMsgs)
                 = View(committed)
  <1>1. /\ TxOK(committed.pair_info, committed.bal, committed.total_supply, NoMsgs)
        /\ committed = [pair_info |-> committed.pair_info, bal |-> committed.bal,
                        total_supply |-> committed.total_supply]
    BY DEF TxInv, CommittedOK
  <1>2. DOMAIN NoMsgs = {}
    BY DEF NoMsgs
  <1>3. Become(committed.pair_info, committed.bal, committed.total_supply, NoMsgs)
    BY DEF Abort
  <1>4. Leaves(committed.pair_info, committed.bal, committed.total_supply, NoMsgs)
    BY <1>1, <1>2, <1>3 DEF Leaves
  <1>5. committed' = committed
    BY <1>1, <1>2, <1>3 DEF Become
  <1>6. StateOK(committed.pair_info, committed.bal, committed.total_supply)
    BY <1>1 DEF TxOK
  <1>7. Outlook(committed.pair_info, committed.bal, committed.total_supply, NoMsgs)
           = View(committed)
    BY <1>1, <1>2, <1>6, QuietLemma
  <1> QED BY <1>4, <1>5, <1>7

(***************************************************************************)
(* What handlers of every pair have in common.                             *)
(***************************************************************************)
\* A transfer from a user is made on a ledger that the pair has no less on.
LEMMA UserMoveLemma ==
    ASSUME NEW b0 \in Ledgers, NEW token \in Tokens, NEW user \in Users,
           NEW to \in Accounts, NEW amount \in Nat, amount <= b0[token][user]
    PROVE  LET b == Moved(b0, token, user, to, amount)
           IN  /\ b \in Ledgers /\ Keeps(b, b0)
               /\ b[token][Pair] = b0[token][Pair] + (IF Pair = to THEN amount ELSE 0)
               /\ \A a \in Tokens : a # token => b[a] = b0[a]
  <1> DEFINE b == Moved(b0, token, user, to, amount)
  <1>1. user \in Accounts /\ user # Pair /\ Pair \in Accounts
    BY AccountsLemma
  <1>2. /\ b \in Ledgers /\ \A a \in Tokens : Held(b, a) = Held(b0, a)
        /\ \A a \in Tokens : a # token => b[a] = b0[a]
        /\ b[token][Pair] = b0[token][Pair] - (IF Pair = user THEN amount ELSE 0)
                                + (IF Pair = to THEN amount ELSE 0)
    BY <1>1, MovedLemma
  <1> HIDE DEF b
  <1>3. b0[token][Pair] \in Nat
    BY <1>1, LedgerLemma
  <1>4. b[token][Pair] = b0[token][Pair] + (IF Pair = to THEN amount ELSE 0)
    BY <1>1, <1>2, <1>3
  <1>5. Keeps(b, b0)
    BY <1>2, HeldLemma, AccountsLemma DEF Keeps
  <1> QED BY <1>2, <1>4, <1>5 DEF b

\* LP tokens sent to the pair: the ledger, and what the burn may take.
LEMMA SentLemma ==
    ASSUME TxInv, NEW token, NEW user \in Users, NEW amount \in Nat,
           Send(token, user, amount), token = pair_info.liquidity_token
    PROVE  LET b == Moved(bal, token, user, Pair, amount)
           IN  /\ Ready /\ Idle
               /\ StateOK(pair_info, b, total_supply)
               /\ amount > 0 /\ amount <= total_supply
               /\ total_supply \in Nat
               /\ amount <= b[LpToken][Pair]
               /\ \A a \in Assets : b[a] = bal[a]
  <1> DEFINE b == Moved(bal, token, user, Pair, amount)
  <1>1. Ready /\ Idle
    BY DEF Send, Ready
  <1>2. token = LpToken /\ token \in Tokens /\ StateOK(pair_info, bal, total_supply)
    BY <1>1, ReadyLemma, AccountsLemma
  <1>3. bal \in Ledgers /\ total_supply \in Nat /\ Held(bal, LpToken) = total_supply
    BY <1>2 DEF StateOK
  <1>4. \A c \in Accounts : bal[LpToken][c] \in Nat
    BY <1>3, LedgerLemma, AccountsLemma
  <1>5. user \in Accounts /\ Pair \in Accounts /\ user \in {Alice, Bob}
    BY AccountsLemma DEF Users
  <1>6. amount > 0 /\ amount <= bal[token][user]
    BY <1>2, <1>4, <1>5 DEF Send
  <1>7. /\ b \in Ledgers /\ Keeps(b, bal)
        /\ b[token][Pair] = bal[token][Pair] + amount
        /\ \A a \in Tokens : a # token => b[a] = bal[a]
    BY <1>2, <1>3, <1>5, <1>6, UserMoveLemma
  <1> HIDE DEF b
  <1>8. StateOK(pair_info, b, total_supply)
    BY <1>2, <1>7, KeepsLemma
  <1>9. bal[LpToken][user] <= total_supply
    BY <1>3, <1>4, <1>5, AccountsLemma DEF Held
  <1>10. amount <= total_supply
    BY <1>2, <1>3, <1>4, <1>5, <1>6, <1>9
  <1>11. amount <= b[LpToken][Pair]
    BY <1>2, <1>4, <1>5, <1>7
  <1>12. \A a \in Assets : b[a] = bal[a]
    BY <1>2, <1>7, AccountsLemma
  <1> QED BY <1>1, <1>3, <1>6, <1>8, <1>10, <1>11, <1>12 DEF b

\* Nothing is left to execute before a pool is created.
LEMMA UncreatedLemma ==
    ASSUME TxInv, pair_info.asset_infos = << >>
    PROVE  Idle
  <1>1. /\ StateOK(pair_info, bal, total_supply) /\ Linked(pair_info, msgs)
        /\ MsgsOK(pair_info, bal, total_supply, msgs)
    BY DEF TxInv, TxOK
  <1>2. pair_info.liquidity_token # LpToken
    BY <1>1, AccountsLemma DEF StateOK
  <1>3. ASSUME NEW x \in DOMAIN msgs, msgs[x].type = "Instantiate" PROVE FALSE
    <2>1. ~CreateMsg(pair_info, total_supply, msgs, x)
      BY DEF CreateMsg
    <2> QED BY <1>1, <1>3, <2>1 DEF MsgsOK, PoolMsg, LpMsg, Payouts
  <1> QED BY <1>1, <1>2, <1>3 DEF Linked, Idle

\* A contract that is created: the message that makes its LP token is left.
LEMMA CreateLemma ==
    ASSUME TxInv, pair_info.asset_infos = << >>, NEW p,
           {"asset_infos", "liquidity_token"} \subseteq DOMAIN p,
           p.asset_infos \in Seq(Assets), p.asset_infos # << >>,
           \A k, l \in Slots(p) : p.asset_infos[k] = p.asset_infos[l] => k = l,
           p.liquidity_token = NoToken
    PROVE  LET out == [x \in {1} |-> Msg("Instantiate", LpToken, Pair, Pair, 0)]
           IN  /\ TxOK(p, bal, total_supply, out)
               /\ Outlook(p, bal, total_supply, out).supply = 0
               /\ \A k \in Slots(p) : Outlook(p, bal, total_supply, out).reserves[k]
                                         = bal[p.asset_infos[k]][Pair]
               /\ View(committed).supply = 0
               /\ committed.pair_info.asset_infos = << >>
  <1> DEFINE m == Msg("Instantiate", LpToken, Pair, Pair, 0)
             out == [x \in {1} |-> m]
  <1>1. StateOK(pair_info, bal, total_supply) /\ CommittedOK
    BY DEF TxInv, TxOK
  <1>2. bal \in Ledgers /\ total_supply = 0
    BY <1>1 DEF StateOK
  <1>3. m \in Messages /\ m.type = "Instantiate"
    BY AccountsLemma DEF Msg, Messages
  <1>4. out \in [{1} -> Messages] /\ DOMAIN out = {1} /\ out[1] = m
    BY <1>3
  <1> HIDE DEF m, out
  <1>5. StateOK(p, bal, total_supply)
    BY <1>1, <1>2 DEF StateOK
  <1>6. Linked(p, out)
    BY <1>3, <1>4 DEF Linked
  <1>7. MsgsOK(p, bal, total_supply, out)
    BY <1>2, <1>3, <1>4 DEF MsgsOK, CreateMsg
  <1>8. SettledSupply(p, total_supply, out) = 0
    BY <1>2, <1>3, <1>4 DEF SettledSupply
  <1>9. committed.pair_info.asset_infos = << >>
    BY <1>1 DEF CommittedOK
  <1>10. committed.total_supply = 0
    BY <1>1, <1>9 DEF CommittedOK, TxOK, StateOK
  <1>11. \A k \in Slots(p) : Settling(p, bal, out, k) = bal[p.asset_infos[k]][Pair]
    <2>1. \A k \in Slots(p) : bal[p.asset_infos[k]][Pair] \in Nat
      BY <1>5, InfosLemma
    <2> QED BY <1>3, <1>4, <2>1 DEF Settling, Payouts
  <1> QED BY <1>5, <1>6, <1>7, <1>8, <1>9, <1>10, <1>11
          DEF TxOK, Outlook, View, out, m

\* The messages of a deposit, and the reserves on ledger b when they have been
\* executed.
Intake(user, deposits, share, receiver) ==
    LET pulled == {k \in 1..NCoins : ~is_native_token(Infos[k])}
    IN  [x \in pulled \cup {LpPosition} |->
            IF x = LpPosition
            THEN Msg("Mint", pair_info.liquidity_token, Pair, receiver, share)
            ELSE Msg("TransferFrom", Infos[x], user, Pair, deposits[x])]

Fed(b, deposits) ==
    [k \in 1..NCoins |->
        b[Infos[k]][Pair] + IF is_native_token(Infos[k]) THEN 0 ELSE deposits[k]]

\* A deposit: the cw20 part is left to be pulled, and share to be minted.
LEMMA TakeDepositLemma ==
    ASSUME TxInv, Ready, NEW b, StateOK(pair_info, b, total_supply),
           NEW user \in Users, NEW receiver \in Accounts,
           NEW deposits, \A k \in 1..NCoins : deposits[k] \in Nat, NEW share \in Nat
    PROVE  LET out == Intake(user, deposits, share, receiver)
           IN  /\ TxOK(pair_info, b, total_supply, out)
               /\ Outlook(pair_info, b, total_supply, out) =
                     [reserves |-> Fed(b, deposits), supply |-> total_supply + share]
               /\ DOMAIN out # {}
  <1> DEFINE pulled == {k \in 1..NCoins : ~is_native_token(Infos[k])}
             out == Intake(user, deposits, share, receiver)
  <1>1. /\ pair_info.liquidity_token = LpToken
        /\ NCoins \in Nat \ {0} /\ 1..NCoins = Slots(pair_info)
        /\ LpPosition = Len(pair_info.asset_infos) + 1 /\ LpPosition = NCoins + 1
    BY ReadyLemma DEF Ready
  <1>2. \A k \in 1..NCoins : /\ Infos[k] \in Assets /\ Infos[k] \in Tokens
                             /\ b[Infos[k]][Pair] \in Nat
    BY <1>1, InfosLemma DEF Infos
  <1>3. /\ DOMAIN out = pulled \cup {LpPosition}
        /\ out = [x \in DOMAIN out |-> out[x]]
        /\ pulled \subseteq 1..NCoins /\ LpPosition \notin 1..NCoins
        /\ out[LpPosition] = Msg("Mint", LpToken, Pair, receiver, share)
        /\ \A x \in pulled : out[x] = Msg("TransferFrom", Infos[x], user, Pair, deposits[x])
    BY <1>1 DEF Intake
  <1> HIDE DEF out
  <1>4. /\ out[LpPosition] \in Messages
        /\ LpMsg(pair_info, b, LpPosition, out[LpPosition])
        /\ out[LpPosition].type = "Mint" /\ out[LpPosition].amount = share
    BY <1>1, <1>3, AccountsLemma DEF Msg, Messages, LpMsg
  <1>5. \A x \in pulled : /\ out[x] \in Messages
                          /\ PoolMsg(pair_info, b, x, out[x])
                          /\ out[x].type = "TransferFrom" /\ out[x].amount = deposits[x]
                          /\ out[x].to = Pair /\ out[x].from # Pair
    <2> SUFFICES ASSUME NEW x \in pulled
                 PROVE  /\ out[x] \in Messages
                        /\ PoolMsg(pair_info, b, x, out[x])
                        /\ out[x].type = "TransferFrom" /\ out[x].amount = deposits[x]
                        /\ out[x].to = Pair /\ out[x].from # Pair
      OBVIOUS
    <2>1. x \in 1..NCoins /\ out[x] = Msg("TransferFrom", Infos[x], user, Pair, deposits[x])
      BY <1>3
    <2>2. /\ Infos[x] \in Tokens /\ deposits[x] \in Nat /\ user \in Accounts
          /\ Pair \in Accounts /\ user # Pair
      BY <1>2, <2>1, AccountsLemma
    <2> QED BY <1>1, <2>1, <2>2 DEF Msg, Messages, PoolMsg, Payouts, Infos
  <1>6. out \in [DOMAIN out -> Messages]
    BY <1>3, <1>4, <1>5
  <1>7. MsgsOK(pair_info, b, total_supply, out)
    <2>1. DOMAIN out \subseteq Nat
      BY <1>1, <1>3
    <2> QED BY <1>3, <1>4, <1>5, <1>6, <2>1 DEF MsgsOK
  <1>8. \A k \in 1..NCoins :
           Settling(pair_info, b, out, k) =
               b[Infos[k]][Pair] + IF is_native_token(Infos[k]) THEN 0 ELSE deposits[k]
    <2> SUFFICES ASSUME NEW k \in 1..NCoins
                 PROVE  Settling(pair_info, b, out, k) =
                           b[Infos[k]][Pair]
                               + IF is_native_token(Infos[k]) THEN 0 ELSE deposits[k]
      OBVIOUS
    <2>1. CASE is_native_token(Infos[k])
      <3>1. k \notin DOMAIN out
        BY <1>3, <2>1
      <3> QED BY <2>1, <3>1 DEF Settling, Infos
    <2>2. CASE ~is_native_token(Infos[k])
      <3>1. k \in pulled /\ k \in DOMAIN out
        BY <1>3, <2>2
      <3>2. Settling(pair_info, b, out, k) = b[Infos[k]][Pair] + (deposits[k] - 0)
        BY <1>5, <3>1 DEF Settling, Infos
      <3> QED BY <2>2, <3>2
    <2> QED BY <2>1, <2>2
  <1>9. SettledSupply(pair_info, total_supply, out) = total_supply + share
    BY <1>1, <1>3, <1>4 DEF SettledSupply
  <1> QED BY <1>1, <1>3, <1>7, <1>8, <1>9 DEF TxOK, Linked, Outlook, Fed, out

\* The reserves on ledger b when the payouts out of the pool assets K are made.
Paid(b, K, out) ==
    [k \in 1..NCoins |->
        b[Infos[k]][Pair] + IF k \in K
                            THEN (IF out[k].to = Pair THEN out[k].amount ELSE 0)
                                     - Cost(out[k])
                            ELSE 0]

\* The messages out pay of the pool assets K, and burn if L names the position
\* of a burn.
Paying(b, K, L, burnt, out) ==
    /\ K \in SUBSET (1..NCoins) /\ L \in {{}, {LpPosition}}
    /\ burnt \in Nat /\ burnt <= b[LpToken][Pair] /\ (L = {} => burnt = 0)
    /\ out \in [K \cup L -> Messages]
    /\ L # {} => out[LpPosition] = Msg("Burn", LpToken, Pair, Pair, burnt)
    /\ \A k \in K : /\ out[k].type \in Payouts
                    /\ out[k].asset = Infos[k] /\ out[k].from = Pair
                    /\ Cost(out[k]) <= b[Infos[k]][Pair]

\* What comes of such messages.
LEMMA PayLemma ==
    ASSUME TxInv, Ready, NEW b, StateOK(pair_info, b, total_supply),
           NEW K, NEW L, NEW burnt, NEW out, Paying(b, K, L, burnt, out)
    PROVE  /\ TxOK(pair_info, b, total_supply, out)
           /\ Outlook(pair_info, b, total_supply, out) =
                 [reserves |-> Paid(b, K, out), supply |-> total_supply - burnt]
  <1>1. /\ pair_info.liquidity_token = LpToken
        /\ NCoins \in Nat \ {0} /\ 1..NCoins = Slots(pair_info)
        /\ LpPosition = Len(pair_info.asset_infos) + 1 /\ LpPosition = NCoins + 1
        /\ total_supply \in Nat
    BY ReadyLemma DEF Ready, StateOK
  <1>2. /\ K \in SUBSET (1..NCoins) /\ L \in {{}, {LpPosition}}
        /\ burnt \in Nat /\ burnt <= b[LpToken][Pair] /\ (L = {} => burnt = 0)
        /\ out \in [K \cup L -> Messages]
        /\ L # {} => out[LpPosition] = Msg("Burn", LpToken, Pair, Pair, burnt)
        /\ \A k \in K : /\ out[k].type \in Payouts
                        /\ out[k].asset = Infos[k] /\ out[k].from = Pair
                        /\ Cost(out[k]) <= b[Infos[k]][Pair]
    BY Zenon DEF Paying
  <1>3. DOMAIN out = K \cup L /\ LpPosition \notin 1..NCoins /\ LpPosition \notin K
    BY <1>2, <1>1
  <1>4. L # {} => /\ out[LpPosition].type = "Burn" /\ out[LpPosition].amount = burnt
                  /\ LpMsg(pair_info, b, LpPosition, out[LpPosition])
    BY <1>2, <1>1 DEF Msg, LpMsg
  <1>5. MsgsOK(pair_info, b, total_supply, out)
    <2>1. DOMAIN out \subseteq Nat /\ out \in [DOMAIN out -> Messages]
      <3>1. NCoins \in Nat /\ LpPosition \in Nat
        BY <1>1
      <3>2. K \subseteq Nat /\ L \subseteq Nat
        BY <1>2, <3>1
      <3> QED BY <1>2, <1>3, <3>2
    <2>2. \A k \in K : PoolMsg(pair_info, b, k, out[k])
      BY <1>2, <1>1 DEF PoolMsg, Infos, Payouts
    <2> QED BY <1>2, <1>3, <1>4, <2>1, <2>2 DEF MsgsOK
  <1>6. \A k \in 1..NCoins :
           Settling(pair_info, b, out, k) =
               b[Infos[k]][Pair]
                   + IF k \in K
                     THEN (IF out[k].to = Pair THEN out[k].amount ELSE 0) - Cost(out[k])
                     ELSE 0
    BY <1>2, <1>3 DEF Settling, Infos, Payouts
  <1>7. SettledSupply(pair_info, total_supply, out) = total_supply - burnt
    <2>1. CASE L = {}
      <3>1. SettledSupply(pair_info, total_supply, out) = total_supply + 0
        BY <1>1, <1>3, <2>1 DEF SettledSupply
      <3> QED BY <1>2, <1>1, <2>1, <3>1
    <2>2. CASE L = {LpPosition}
      <3>1. SettledSupply(pair_info, total_supply, out) = total_supply + (-burnt)
        BY <1>1, <1>3, <1>4, <2>2 DEF SettledSupply
      <3> QED BY <1>2, <1>1, <3>1
    <2> QED BY <1>2, <2>1, <2>2
  <1> QED BY <1>1, <1>5, <1>6, <1>7 DEF TxOK, Linked, Outlook, Paid

\* A transfer with no call adds to the reserves, or leaves them as they are if
\* it is not to the pair.
LEMMA TransferLemma ==
    ASSUME TxInv, NEW token \in Tokens, NEW user \in Users, NEW to \in Accounts,
           NEW amount \in Nat, transfer(token, user, to, amount)
    PROVE  \E b \in Ledgers :
              /\ Leaves(pair_info, b, total_supply, NoMsgs)
              /\ \A a \in Assets : /\ b[a][Pair] >= bal[a][Pair]
                                   /\ to # Pair => b[a][Pair] = bal[a][Pair]
  <1> DEFINE b == Moved(bal, token, user, to, amount)
  <1>1. StateOK(pair_info, bal, total_supply) /\ TxOK(pair_info, bal, total_supply, NoMsgs)
    BY ReadyLemma DEF transfer
  <1>2. bal \in Ledgers
    BY <1>1 DEF StateOK
  <1>3. amount <= bal[token][user]
    BY <1>2, LedgerLemma, AccountsLemma DEF transfer
  <1>4. /\ b \in Ledgers /\ Keeps(b, bal)
        /\ b[token][Pair] = bal[token][Pair] + (IF Pair = to THEN amount ELSE 0)
        /\ \A a \in Tokens : a # token => b[a] = bal[a]
    BY <1>2, <1>3, UserMoveLemma
  <1>5. Become(pair_info, b, total_supply, NoMsgs)
    BY DEF transfer
  <1> HIDE DEF b
  <1>6. \A a \in Assets : /\ b[a][Pair] >= bal[a][Pair]
                          /\ to # Pair => b[a][Pair] = bal[a][Pair]
    <2>1. \A a \in Tokens : bal[a][Pair] \in Nat
      BY <1>2, LedgerLemma, AccountsLemma
    <2> QED BY <1>4, <2>1, AccountsLemma
  <1>7. StateOK(pair_info, b, total_supply)
    BY <1>1, <1>4, KeepsLemma
  <1>8. DOMAIN NoMsgs = {}
    BY DEF NoMsgs
  <1>9. TxOK(pair_info, b, total_supply, NoMsgs)
    BY <1>1, <1>7, <1>8, QuietLemma
  <1>10. committed.pair_info = pair_info
    BY ReadyLemma DEF transfer
  <1> QED BY <1>4, <1>5, <1>6, <1>8, <1>9, <1>10 DEF Leaves

\* The invariant holds before the contract exists.
LEMMA EmptyLemma ==
    ASSUME {"asset_infos", "liquidity_token"} \subseteq DOMAIN pair_info,
           pair_info.asset_infos = << >>, pair_info.liquidity_token = NoToken,
           bal = [a \in Tokens |-> [c \in Accounts |->
                     IF a \in Assets /\ c \in Users THEN Endowment[c] ELSE 0]],
           total_supply = 0, msgs = NoMsgs,
           committed = [pair_info |-> pair_info, bal |-> bal, total_supply |-> total_supply]
    PROVE  TxInv /\ View(committed).supply = 0
  <1>1. bal \in Ledgers
    <2>1. \A c \in Users : Endowment[c] \in Nat
      BY ChainAssumption, WidthLemma
    <2> QED BY <2>1, AccountsLemma DEF Ledgers
  <1>2. Held(bal, LpToken) = 0
    BY AccountsLemma DEF Held
  <1>3. \A a \in Assets : Held(bal, a) = Circulation
    <2>1. Alice \in Users /\ Bob \in Users /\ Pair \notin Users /\ LpToken \notin Users
      BY ChainAssumption DEF Users
    <2>2. Endowment[Alice] \in Nat /\ Endowment[Bob] \in Nat
      BY <2>1, ChainAssumption, WidthLemma
    <2> QED BY <2>1, <2>2, AccountsLemma DEF Held, Circulation
  <1>4. StateOK(pair_info, bal, total_supply)
    BY <1>1, <1>2, <1>3, HeldLemma DEF StateOK, Slots
  <1>5. DOMAIN NoMsgs = {}
    BY DEF NoMsgs
  <1>6. TxOK(pair_info, bal, total_supply, NoMsgs)
    BY <1>4, <1>5, QuietLemma
  <1> QED BY <1>6 DEF TxInv, CommittedOK, View

\* What a message takes from the pair is there until it is executed.
LEMMA CoveredLemma == TxInv => PayoutsCovered
  <1> SUFFICES ASSUME TxInv, NEW x \in DOMAIN msgs,
                      msgs[x].type \in {"Transfer", "BankSend", "Burn"}
               PROVE  Cost(msgs[x]) <= bal[msgs[x].asset][Pair]
    BY DEF PayoutsCovered
  <1>1. MsgsOK(pair_info, bal, total_supply, msgs)
    BY DEF TxInv, TxOK
  <1>2. PoolMsg(pair_info, bal, x, msgs[x]) \/ LpMsg(pair_info, bal, x, msgs[x])
    BY <1>1 DEF MsgsOK, CreateMsg
  <1>3. CASE PoolMsg(pair_info, bal, x, msgs[x])
    BY <1>3 DEF PoolMsg, Payouts
  <1>4. CASE LpMsg(pair_info, bal, x, msgs[x])
    <2>1. msgs[x] \in Messages
      BY <1>1 DEF MsgsOK
    <2>2. msgs[x].type = "Burn"
      BY <1>4 DEF LpMsg
    <2>3. Cost(msgs[x]) = msgs[x].amount
      BY <2>1, <2>2, MsgLemma
    <2> QED BY <1>4, <2>2, <2>3 DEF LpMsg
  <1> QED BY <1>2, <1>3, <1>4

\* The messages of a withdrawal of every asset.
Redemption(b, user, amount) ==
    [x \in 1..LpPosition |->
        IF x = LpPosition
        THEN Msg("Burn", pair_info.liquidity_token, Pair, Pair, amount)
        ELSE into_msg(Infos[x],
                      Scaled(query_pools(b)[x], FromRatio(amount, total_supply)),
                      Pair, user)]

\* What is left of a pool, v, when the messages out pay a share of it: of a
\* reserve no less behind each LP token that remains than before, and some of
\* it, and every reserve shrinks unless one payout is of nothing.  With no tax
\* it shrinks by the refund.
Redeemed(v, out) ==
    /\ v.reserves = [k \in 1..NCoins |-> v.reserves[k]]
    /\ v.supply \in Nat /\ v.supply < total_supply
    /\ \A k \in 1..NCoins :
          /\ v.reserves[k] \in Nat /\ v.reserves[k] <= bal[Infos[k]][Pair]
          /\ v.reserves[k] * total_supply >= bal[Infos[k]][Pair] * v.supply
          /\ v.supply > 0 /\ bal[Infos[k]][Pair] > 0 => v.reserves[k] > 0
          /\ v.reserves[k] < bal[Infos[k]][Pair] \/ Doomed(out)
          /\ Untaxed =>
                v.reserves[k] = bal[Infos[k]][Pair]
                                   - Scaled(bal[Infos[k]][Pair],
                                            FromRatio(total_supply - v.supply, total_supply))

\* LP tokens are burnt and their share of every asset is paid.
LEMMA RedeemLemma ==
    ASSUME TxInv, NEW token, NEW user \in Users, NEW amount \in Nat,
           Send(token, user, amount), token = pair_info.liquidity_token
    PROVE  LET b == Moved(bal, token, user, Pair, amount)
               out == Redemption(b, user, amount)
           IN  /\ TxOK(pair_info, b, total_supply, out) /\ DOMAIN out # {}
               /\ Redeemed(Outlook(pair_info, b, total_supply, out), out)
  <1> DEFINE share_ratio == FromRatio(amount, total_supply)
             b == Moved(bal, token, user, Pair, amount)
             refund(k) == Scaled(query_pools(b)[k], share_ratio)
             out == Redemption(b, user, amount)
             v == Outlook(pair_info, b, total_supply, out)
  <1>1. /\ Ready /\ Idle
        /\ StateOK(pair_info, b, total_supply)
        /\ amount > 0 /\ amount <= total_supply
        /\ total_supply \in Nat
        /\ amount <= b[LpToken][Pair]
        /\ \A a \in Assets : b[a] = bal[a]
    BY SentLemma
  <1> HIDE DEF b
  <1>2. /\ pair_info.liquidity_token = LpToken
        /\ NCoins \in Nat \ {0} /\ 1..NCoins = Slots(pair_info)
        /\ LpPosition = NCoins + 1
    BY <1>1, ReadyLemma
  <1>3. /\ 1..LpPosition = (1..NCoins) \cup {LpPosition}
        /\ LpPosition \notin 1..NCoins /\ 1..LpPosition # {}
    <2>1. NCoins \in Nat /\ LpPosition = NCoins + 1
      BY <1>2
    <2> QED BY <2>1
  <1>4. \A k \in 1..NCoins : /\ Infos[k] \in Assets
                             /\ b[Infos[k]][Pair] \in Nat
                             /\ b[Infos[k]] = bal[Infos[k]]
                             /\ query_pools(b)[k] = b[Infos[k]][Pair]
    BY <1>1, <1>2, InfosLemma DEF Infos, query_pools
  <1>5. /\ \A k \in 1..NCoins : out[k] = into_msg(Infos[k], refund(k), Pair, user)
        /\ out[LpPosition] = Msg("Burn", pair_info.liquidity_token, Pair, Pair, amount)
        /\ out = [x \in 1..LpPosition |-> out[x]]
    BY <1>3, Zenon DEF Redemption
  <1> HIDE DEF out
  <1>6. ASSUME NEW k \in 1..NCoins
        PROVE  LET pool == bal[Infos[k]][Pair]
               IN  /\ out[k] \in Messages /\ out[k].type \in Payouts
                   /\ out[k].asset = Infos[k] /\ out[k].from = Pair /\ out[k].to # Pair
                   /\ Cost(out[k]) \in Nat /\ Cost(out[k]) <= pool
                   /\ out[k].amount \in Nat /\ out[k].amount <= Cost(out[k])
                   /\ amount < total_supply /\ pool > 0 => Cost(out[k]) < pool
                   /\ (pool - Cost(out[k])) * total_supply >= pool * (total_supply - amount)
                   /\ Untaxed => Cost(out[k]) = Scaled(pool, FromRatio(amount, total_supply))
    <2> DEFINE pool == bal[Infos[k]][Pair]
               r == refund(k)
               m == into_msg(Infos[k], r, Pair, user)
    <2>1. Infos[k] \in Assets /\ pool \in Nat /\ query_pools(b)[k] = pool
      BY <1>4
    <2>2. r = Scaled(pool, FromRatio(amount, total_supply))
      BY <2>1
    <2> HIDE DEF pool, refund
    <2>3. /\ r \in Nat /\ r <= pool
          /\ amount < total_supply /\ pool > 0 => r < pool
          /\ r * total_supply <= pool * amount
      BY <1>1, <2>1, <2>2, RefundLemma
    <2>4. user \in Accounts /\ user # Pair
      BY AccountsLemma
    <2>5. /\ m \in Messages /\ m.type \in Payouts /\ m.asset = Infos[k] /\ m.from = Pair
          /\ m.to = user /\ Cost(m) \in Nat /\ Cost(m) <= r
          /\ m.amount \in Nat /\ m.amount <= Cost(m)
          /\ Untaxed => Cost(m) = r
      BY <2>1, <2>3, <2>4, PayoutLemma
    <2>6. out[k] = m
      BY <1>5
    <2> HIDE DEF m, r
    <2>7. Cost(m) <= pool /\ (amount < total_supply /\ pool > 0 => Cost(m) < pool)
      BY <2>1, <2>3, <2>5
    <2>8. (pool - Cost(m)) * total_supply >= pool * (total_supply - amount)
      <3> DEFINE left == pool - Cost(m)
                 rest == total_supply - amount
      <3>1. left \in Nat /\ rest \in Nat /\ left + Cost(m) = pool
            /\ rest + amount = total_supply
        BY <1>1, <2>1, <2>5, <2>7
      <3>2. total_supply * Cost(m) <= total_supply * r
        BY <1>1, <2>3, <2>5, ProductLemma
      <3>3. /\ total_supply * left \in Nat /\ total_supply * Cost(m) \in Nat
            /\ total_supply * r \in Nat /\ pool * amount \in Nat /\ pool * rest \in Nat
            /\ total_supply * pool \in Nat /\ total_supply * pool = pool * total_supply
            /\ total_supply * r = r * total_supply
            /\ left * total_supply = total_supply * left
        BY <1>1, <2>1, <2>3, <2>5, <3>1, ProductLemma
      <3>4. /\ total_supply * pool = total_supply * left + total_supply * Cost(m)
            /\ pool * total_supply = pool * rest + pool * amount
        BY <1>1, <2>1, <2>5, <3>1, ProductLemma
      <3> HIDE DEF left, rest
      <3>5. total_supply * Cost(m) <= pool * amount
        BY <2>3, <3>2, <3>3
      <3>6. left * total_supply >= pool * rest
        BY <3>3, <3>4, <3>5
      <3> QED BY <3>6 DEF left, rest
    <2>9. Untaxed => Cost(m) = Scaled(pool, FromRatio(amount, total_supply))
      BY <2>2, <2>5
    <2> QED BY <2>4, <2>5, <2>6, <2>7, <2>8, <2>9 DEF pool
  <1>7. out[LpPosition] = Msg("Burn", LpToken, Pair, Pair, amount)
    BY <1>2, <1>5
  <1>8. out[LpPosition] \in Messages
    BY <1>7, AccountsLemma, MsgLemma
  <1>9. DOMAIN out = (1..NCoins) \cup {LpPosition} /\ DOMAIN out # {}
    BY <1>3, <1>5
  <1>10. out \in [(1..NCoins) \cup {LpPosition} -> Messages]
    BY <1>3, <1>5, <1>6, <1>8
  <1> HIDE DEF refund, share_ratio
  <1>11. /\ TxOK(pair_info, b, total_supply, out)
         /\ v = [reserves |-> Paid(b, 1..NCoins, out), supply |-> total_supply - amount]
    <2>1. \A k \in 1..NCoins : /\ out[k].type \in Payouts
                               /\ out[k].asset = Infos[k] /\ out[k].from = Pair
                               /\ Cost(out[k]) <= b[Infos[k]][Pair]
      BY <1>4, <1>6
    <2>2. Paying(b, 1..NCoins, {LpPosition}, amount, out)
      BY <1>1, <1>7, <1>10, <2>1 DEF Paying
    <2> QED BY <1>1, <2>2, PayLemma DEF v
  <1> HIDE DEF v
  <1>12. ASSUME NEW k \in 1..NCoins
         PROVE  v.reserves[k] = bal[Infos[k]][Pair] - Cost(out[k])
    <2>1. v.reserves[k] = b[Infos[k]][Pair] + (0 - Cost(out[k]))
      BY <1>6, <1>11 DEF Paid
    <2> QED BY <1>4, <1>6, <2>1
  <1>13. ASSUME NEW k \in 1..NCoins PROVE Cost(out[k]) > 0 \/ Doomed(out)
    <2>1. Cost(out[k]) = 0 => out[k].amount = 0
      BY <1>6
    <2>2. k \in DOMAIN out
      BY <1>9
    <2> QED BY <1>6, <2>1, <2>2 DEF Doomed
  <1>14. v.supply = total_supply - amount /\ v.supply \in Nat /\ v.supply < total_supply
    BY <1>1, <1>11
  <1>15. ASSUME NEW k \in 1..NCoins
         PROVE  /\ v.reserves[k] \in Nat /\ v.reserves[k] <= bal[Infos[k]][Pair]
                /\ v.reserves[k] * total_supply >= bal[Infos[k]][Pair] * v.supply
                /\ v.supply > 0 /\ bal[Infos[k]][Pair] > 0 => v.reserves[k] > 0
                /\ v.reserves[k] < bal[Infos[k]][Pair] \/ Doomed(out)
    <2> DEFINE pool == bal[Infos[k]][Pair]
               cost == Cost(out[k])
    <2>1. pool \in Nat
      BY <1>4
    <2>2. /\ cost \in Nat /\ cost <= pool
          /\ amount < total_supply /\ pool > 0 => cost < pool
          /\ (pool - cost) * total_supply >= pool * (total_supply - amount)
          /\ v.reserves[k] = pool - cost
          /\ cost > 0 \/ Doomed(out)
      BY <1>6, <1>12, <1>13
    <2>3. v.supply > 0 => amount < total_supply
      BY <1>1, <1>14
    <2> HIDE DEF pool, cost
    <2>4. v.reserves[k] * total_supply >= pool * v.supply
      BY <1>14, <2>2
    <2> QED BY <2>1, <2>2, <2>3, <2>4 DEF pool
  <1>16. v.reserves = [k \in 1..NCoins |-> v.reserves[k]]
    BY <1>11 DEF Paid
  <1>17. ASSUME NEW k \in 1..NCoins, Untaxed
         PROVE  v.reserves[k] = bal[Infos[k]][Pair]
                                   - Scaled(bal[Infos[k]][Pair],
                                            FromRatio(total_supply - v.supply, total_supply))
    <2>1. total_supply - v.supply = amount
      BY <1>1, <1>14
    <2>2. Cost(out[k]) = Scaled(bal[Infos[k]][Pair], FromRatio(amount, total_supply))
      BY <1>6, <1>17
    <2> QED BY <1>12, <2>1, <2>2
  <1>18. Redeemed(v, out)
    BY <1>14, <1>15, <1>16, <1>17 DEF Redeemed
  <1> QED BY <1>9, <1>11, <1>18 DEF v, out, b

=============================================================================
