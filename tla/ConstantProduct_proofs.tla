----------------------- MODULE ConstantProduct_proofs -----------------------
(***************************************************************************)
(* PayoutsCovered and NobodyDiluted hold of ConstantProduct for every      *)
(* pool, commission, tax, width and set of inputs; NeverDrained,           *)
(* ProductKept and that the pair implements a Vault, as long as there is   *)
(* no more of an asset than the unit of a Decimal; SimulationHonoured, as  *)
(* long as users leave nothing in the pool by mistake.                     *)
(*                                                                         *)
(* What the chain does with messages is in Chain_proofs, and the pair's    *)
(* arithmetic in ProductCurve_proofs; here each handler is shown to leave  *)
(* messages whose outlook is one that may be committed.                    *)
(***************************************************************************)
EXTENDS ConstantProduct, Chain_proofs, ProductCurve_proofs

(***************************************************************************)
(* The inductive invariant.  A transaction takes the pool from the view u  *)
(* that was committed last to the view v.                                  *)
(***************************************************************************)
\* No more of any asset than one whole Decimal is counted in: products with a
\* Decimal lose less than a unit.
Scarce == Circulation <= DECIMAL_FRACTION

\* Something is left in the pool.
Given(u, v) ==
    /\ v.supply = u.supply
    /\ \A k \in 1..2 : v.reserves[k] >= u.reserves[k]

\* Users leave nothing in the pool by mistake: no coins of the asset they buy can
\* come with a native offer, and the pair is not paid by itself.
NoStrays ==
    /\ \A infos \in Pools : infos[1] \notin NativeTokens \/ infos[2] \notin NativeTokens
    /\ Pair \notin Receivers

\* Of a pool of infos, what the reserves of v lack of those of u is what the
\* simulation answers, at the reserves of u, for what has come.
Honoured(u, infos, v) ==
    \A k \in 1..2 :
        LET offered == v.reserves[k] - u.reserves[k]
        IN  offered > 0 /\ v.reserves[3 - k] < u.reserves[3 - k] =>
                /\ CanSwap(u.reserves[k], u.reserves[3 - k], offered)
                /\ u.reserves[3 - k] - v.reserves[3 - k]
                      = Taken(infos[3 - k],
                              compute_swap(u.reserves[k], u.reserves[3 - k],
                                           offered).return_amount)

\* One asset is bought with another.
Traded(u, v) ==
    /\ v.supply = u.supply
    /\ \E k \in 1..2 : /\ v.reserves[k] > u.reserves[k]
                       /\ v.reserves[3 - k] < u.reserves[3 - k]
    /\ Scarce => v.reserves[1] * v.reserves[2] >= u.reserves[1] * u.reserves[2]

\* LP tokens are issued at the pool's ratio, or at any if there are none.
Deposited(u, v) ==
    /\ v.supply > u.supply
    /\ \A k \in 1..2 : v.reserves[k] >= u.reserves[k]
    /\ \E k \in 1..2 : v.reserves[k] > u.reserves[k]
    /\ u.supply > 0 =>
          \A k \in 1..2 : v.reserves[k] * u.supply >= u.reserves[k] * v.supply

\* LP tokens are redeemed at the pool's ratio.
Withdrawn(u, v) ==
    /\ v.supply < u.supply
    /\ \A k \in 1..2 : v.reserves[k] <= u.reserves[k]
    /\ \E k \in 1..2 : v.reserves[k] < u.reserves[k]
    /\ \A k \in 1..2 : v.reserves[k] * u.supply >= u.reserves[k] * v.supply

\* A transaction may end in v.
Ends(v) ==
    \/ committed.pair_info.asset_infos = << >> /\ v.supply = 0
    \/ /\ committed.pair_info.asset_infos # << >>
       /\ \/ Given(View(committed), v)
          \/ /\ Traded(View(committed), v)
             /\ NoStrays => Honoured(View(committed), committed.pair_info.asset_infos, v)
          \/ Deposited(View(committed), v)
          \/ Withdrawn(View(committed), v)

\* Nothing is stored yet, or one of the pools, of two assets.
Paired(p) ==
    \/ p.asset_infos = << >>
    \/ Len(p.asset_infos) = 2 /\ p.asset_infos \in Pools

IInv ==
    /\ TxInv
    /\ Paired(pair_info) /\ Paired(committed.pair_info)
    /\ Scarce => /\ Backed(Outlook(pair_info, bal, total_supply, msgs))
                 /\ Backed(View(committed))
    /\ Doomed(msgs) \/ Ends(Outlook(pair_info, bal, total_supply, msgs))

\* A step to the state p, b, s with the messages out left, whose outlook may be
\* committed.
Step(p, b, s, out) ==
    /\ Leaves(p, b, s, out)
    /\ Paired(p)
    /\ Scarce => Backed(Outlook(p, b, s, out))
    /\ Doomed(out) \/ Ends(Outlook(p, b, s, out))

\* What such a step keeps.
Kept == /\ IInv'
        /\ \/ committed' = committed
           \/ /\ Ends(View(committed'))
              /\ committed.pair_info.asset_infos
                    \in {committed'.pair_info.asset_infos, << >>}

\* What was committed may be committed again.
LEMMA AgainLemma == TxInv /\ Paired(committed.pair_info) => Ends(View(committed))
  <1> SUFFICES ASSUME TxInv, Paired(committed.pair_info) PROVE Ends(View(committed))
    OBVIOUS
  <1>1. StateOK(committed.pair_info, committed.bal, committed.total_supply)
    BY DEF TxInv, CommittedOK, TxOK
  <1>2. CASE committed.pair_info.asset_infos = << >>
    BY <1>1, <1>2 DEF Ends, View, StateOK
  <1>3. CASE Len(committed.pair_info.asset_infos) = 2
    <2>1. \A k \in Slots(committed.pair_info) :
             committed.bal[committed.pair_info.asset_infos[k]][Pair] \in Nat
      BY <1>1, InfosLemma
    <2>2. \A k \in 1..2 : Reserves(committed)[k] \in Nat
      BY <1>3, <2>1 DEF Reserves, Slots
    <2>3. \A k \in 1..2 : Reserves(committed)[k] >= Reserves(committed)[k]
      BY <2>2
    <2>4. committed.pair_info.asset_infos # << >>
      BY <1>3
    <2> QED BY <2>3, <2>4 DEF Ends, Given, View
  <1> QED BY <1>2, <1>3 DEF Paired

LEMMA StepLemma ==
    ASSUME IInv, NEW p, NEW b, NEW s, NEW out, Step(p, b, s, out)
    PROVE  Kept
  <1> DEFINE end == Outlook(p, b, s, out)
  <1>1. /\ TxInv /\ Leaves(p, b, s, out) /\ Paired(p) /\ (Scarce => Backed(end))
        /\ Doomed(out) \/ Ends(end)
    BY DEF IInv, Step
  <1>2. /\ TxInv'
        /\ pair_info' = p /\ bal' = b /\ total_supply' = s /\ msgs' = out
        /\ \/ committed' = committed
           \/ /\ DOMAIN out = {} /\ View(committed') = end
              /\ committed'.pair_info = p
    BY <1>1, LeavesLemma
  <1>3. /\ Outlook(pair_info, bal, total_supply, msgs)' = end
        /\ Doomed(msgs)' <=> Doomed(out)
    BY <1>2
  <1> HIDE DEF end
  <1>4. CASE committed' = committed
    <2>1. Doomed(msgs)' \/ Ends(Outlook(pair_info, bal, total_supply, msgs))'
      BY <1>1, <1>3, <1>4 DEF Ends
    <2>2. /\ Paired(pair_info)' /\ Paired(committed.pair_info)'
          /\ Scarce => Backed(View(committed))'
      BY <1>1, <1>2, <1>4 DEF IInv
    <2>3. Scarce' <=> Scarce
      BY DEF Scarce, Circulation
    <2> QED BY <1>1, <1>2, <1>3, <1>4, <2>1, <2>2, <2>3 DEF IInv, Kept
  <1>5. CASE DOMAIN out = {} /\ View(committed') = end /\ committed'.pair_info = p
    <2>1. ~Doomed(out)
      BY <1>5 DEF Doomed
    <2>2. Ends(View(committed'))
      BY <1>1, <1>5, <2>1
    <2>3. Paired(pair_info)' /\ Paired(committed.pair_info)'
      BY <1>1, <1>2, <1>5
    <2>4. Ends(Outlook(pair_info, bal, total_supply, msgs))'
      <3>1. Ends(View(committed))'
        BY <1>2, <2>3, AgainLemma, PTL
      <3> QED BY <1>3, <1>5, <3>1 DEF Ends
    <2>5. Scarce' => Backed(Outlook(pair_info, bal, total_supply, msgs))'
                     /\ Backed(View(committed))'
      BY <1>1, <1>3, <1>5 DEF Scarce, Circulation
    <2>6. committed.pair_info.asset_infos \in {committed'.pair_info.asset_infos, << >>}
      BY <1>1, <1>5 DEF Leaves
    <2> QED BY <1>2, <2>2, <2>3, <2>4, <2>5, <2>6 DEF IInv, Kept
  <1> QED BY <1>2, <1>4, <1>5

\* What a handler finds: two reserves behind the LP tokens, as committed last.
LEMMA FoundLemma ==
    ASSUME IInv, Ready
    PROVE  /\ TxInv /\ Idle /\ StateOK(pair_info, bal, total_supply)
           /\ total_supply \in Nat /\ bal \in Ledgers
           /\ Paired(pair_info) /\ Infos \in Pools
           /\ committed.pair_info = pair_info /\ committed.pair_info.asset_infos # << >>
           /\ committed.total_supply = total_supply
           /\ NCoins = 2 /\ 1..NCoins = 1..2 /\ LpPosition = 3
           /\ \A k \in 1..2 :
                 /\ Infos[k] \in Assets /\ Infos[k] \in Tokens
                 /\ Reserves(committed)[k] = bal[Infos[k]][Pair]
                 /\ bal[Infos[k]][Pair] \in Nat
                 /\ Scarce /\ total_supply > 0 => bal[Infos[k]][Pair] > 0
                 /\ Infos[k] # Infos[3 - k]
           /\ pair_info.liquidity_token = LpToken
  <1>1. TxInv /\ Idle /\ Paired(pair_info)
    BY DEF IInv, Ready
  <1>2. /\ StateOK(pair_info, bal, total_supply)
        /\ committed.pair_info = pair_info
        /\ View(committed) = [reserves |-> [k \in Slots(pair_info) |->
                                             bal[pair_info.asset_infos[k]][Pair]],
                              supply |-> total_supply]
        /\ pair_info.liquidity_token = LpToken
        /\ 1..NCoins = Slots(pair_info)
        /\ LpPosition = NCoins + 1
    BY <1>1, ReadyLemma
  <1>3. NCoins = 2 /\ Slots(pair_info) = 1..2 /\ LpPosition = 3 /\ Infos \in Pools
    <2>1. Len(pair_info.asset_infos) = 2 /\ Infos \in Pools
      BY <1>1 DEF Ready, Paired, Infos
    <2>2. NCoins = 2
      BY <2>1 DEF NCoins, Infos
    <2> QED BY <1>2, <2>1, <2>2
  <1>4. total_supply \in Nat /\ bal \in Ledgers
    BY <1>2 DEF StateOK
  <1>5. /\ committed.total_supply = total_supply
        /\ Reserves(committed) = [k \in 1..2 |-> bal[Infos[k]][Pair]]
    BY <1>2, <1>3 DEF View, Infos
  <1>6. \A k \in 1..2 : /\ Infos[k] \in Assets /\ Infos[k] \in Tokens
                        /\ bal[Infos[k]][Pair] \in Nat
    BY <1>2, <1>3, InfosLemma DEF Infos
  <1>7. Scarce /\ total_supply > 0 => \A k \in 1..2 : bal[Infos[k]][Pair] > 0
    <2>1. Scarce => Backed(View(committed))
      BY DEF IInv
    <2> QED BY <1>2, <1>3, <2>1 DEF Backed, Infos
  <1>8. \A k \in 1..2 : Infos[k] # Infos[3 - k]
    BY <1>2, <1>3 DEF StateOK, Infos
  <1> QED BY <1>1, <1>2, <1>3, <1>4, <1>5, <1>6, <1>7, <1>8 DEF Ready

\* Handlers of a pool that is there change the ledger and leave messages.
LEMMA HandledLemma ==
    ASSUME IInv, Ready, NEW b, NEW out,
           Become(pair_info, b, total_supply, out),
           TxOK(pair_info, b, total_supply, out),
           Scarce => Backed(Outlook(pair_info, b, total_supply, out)),
           Doomed(out) \/ Ends(Outlook(pair_info, b, total_supply, out))
    PROVE  Kept
  <1>1. committed.pair_info = pair_info /\ Paired(pair_info)
    BY FoundLemma
  <1>2. Leaves(pair_info, b, total_supply, out)
    BY <1>1 DEF Leaves
  <1> QED BY <1>1, <1>2, StepLemma DEF Step

(***************************************************************************)
(* The handlers.                                                           *)
(***************************************************************************)
\* Creating a pool.
LEMMA InstantiateLemma ==
    ASSUME IInv, NEW infos \in Pools, instantiate(infos)
    PROVE  Kept
  <1> DEFINE p == [asset_infos |-> infos, liquidity_token |-> NoToken]
             out == [x \in {1} |-> Msg("Instantiate", LpToken, Pair, Pair, 0)]
  <1>1. Become(p, bal, total_supply, out)
    BY DEF instantiate
  <1>2. infos \in Assets \X Assets /\ infos[1] # infos[2]
    BY PoolAssumption
  <1>3. /\ infos \in Seq(Assets) /\ Len(infos) = 2 /\ infos # << >>
        /\ \A k, l \in 1..2 : infos[k] = infos[l] => k = l
    <2>1. PICK x \in Assets, y \in Assets : infos = << x, y >>
      BY <1>2
    <2>2. << x, y >> \in Seq(Assets) /\ Len(<< x, y >>) = 2 /\ << x, y >> # << >>
      OBVIOUS
    <2> QED BY <1>2, <2>1, <2>2
  <1>4. /\ p.asset_infos = infos /\ p.liquidity_token = NoToken
        /\ {"asset_infos", "liquidity_token"} \subseteq DOMAIN p
    OBVIOUS
  <1>5. pair_info.asset_infos = << >> /\ TxInv
    BY DEF IInv, instantiate, NoPair
  <1> HIDE DEF p
  <1>6. /\ p.asset_infos \in Seq(Assets) /\ p.asset_infos # << >>
        /\ \A k, l \in Slots(p) : p.asset_infos[k] = p.asset_infos[l] => k = l
        /\ Paired(p)
    BY <1>3, <1>4 DEF Slots, Paired
  <1>7. /\ TxOK(p, bal, total_supply, out)
        /\ Outlook(p, bal, total_supply, out).supply = 0
        /\ View(committed).supply = 0
        /\ committed.pair_info.asset_infos = << >>
    BY <1>4, <1>5, <1>6, CreateLemma
  <1> HIDE DEF out
  <1>8. Leaves(p, bal, total_supply, out)
    BY <1>1, <1>7 DEF Leaves
  <1>9. Backed(Outlook(p, bal, total_supply, out)) /\ Ends(Outlook(p, bal, total_supply, out))
    BY <1>7 DEF Backed, Ends
  <1> QED BY <1>6, <1>8, <1>9, StepLemma DEF Step

\* A transfer with no call.
LEMMA GiftLemma ==
    ASSUME IInv, NEW token \in Tokens, NEW user \in Users, NEW to \in Accounts,
           NEW amount \in Nat, transfer(token, user, to, amount)
    PROVE  Kept
  <1>1. TxInv /\ Idle /\ Paired(pair_info)
    BY DEF IInv, transfer
  <1>2. PICK b \in Ledgers : /\ Leaves(pair_info, b, total_supply, NoMsgs)
                             /\ \A a \in Assets : b[a][Pair] >= bal[a][Pair]
    BY <1>1, TransferLemma
  <1>3. StateOK(pair_info, b, total_supply) /\ DOMAIN NoMsgs = {}
    BY <1>2 DEF Leaves, TxOK, NoMsgs
  <1> DEFINE end == Outlook(pair_info, b, total_supply, NoMsgs)
             mine(k) == pair_info.asset_infos[k]
  <1>4. end = [reserves |-> [k \in Slots(pair_info) |-> b[mine(k)][Pair]],
               supply |-> total_supply]
    BY <1>3, QuietLemma DEF View, Reserves, Slots
  <1>5. /\ StateOK(pair_info, bal, total_supply)
        /\ committed.pair_info = pair_info
        /\ View(committed) = [reserves |-> [k \in Slots(pair_info) |-> bal[mine(k)][Pair]],
                              supply |-> total_supply]
    BY <1>1, ReadyLemma
  <1>6. \A k \in Slots(pair_info) :
           /\ bal[mine(k)][Pair] \in Nat /\ b[mine(k)][Pair] \in Nat
           /\ b[mine(k)][Pair] >= bal[mine(k)][Pair]
    BY <1>2, <1>3, <1>5, InfosLemma
  <1> HIDE DEF mine, end
  <1>7. Scarce => Backed(end)
    <2>1. Scarce => Backed(View(committed))
      BY DEF IInv
    <2> QED BY <1>4, <1>5, <1>6, <2>1 DEF Backed
  <1>8. Ends(end)
    <2>1. CASE pair_info.asset_infos = << >>
      BY <1>4, <1>5, <2>1 DEF Ends, StateOK
    <2>2. CASE Len(pair_info.asset_infos) = 2
      <3>1. Slots(pair_info) = 1..2 /\ pair_info.asset_infos # << >>
        BY <2>2 DEF Slots
      <3> QED BY <1>4, <1>5, <1>6, <3>1 DEF Ends, Given
    <2> QED BY <1>1, <2>1, <2>2 DEF Paired
  <1> QED BY <1>1, <1>2, <1>7, <1>8, StepLemma DEF Step, end

\* Every LP token keeps what is behind it when share is no more than what the
\* smaller part of the deposit is worth at the pool's ratio.
LEMMA CreditLemma ==
    ASSUME NEW pool \in Nat, NEW deposit \in Nat, NEW supply \in Nat, NEW share \in Nat,
           pool > 0, share <= (deposit * supply) \div pool
    PROVE  (pool + deposit) * supply >= pool * (supply + share)
           /\ (share > 0 => deposit > 0)
  <1> DEFINE worth == (deposit * supply) \div pool
  <1>1. deposit * supply \in Nat
    BY ProductLemma
  <1>2. worth \in Nat /\ pool * worth <= deposit * supply
    BY <1>1, DivLemma
  <1> HIDE DEF worth
  <1>3. share <= worth
    BY DEF worth
  <1>4. pool * share <= pool * worth /\ pool * share \in Nat /\ pool * worth \in Nat
    BY <1>2, <1>3, ProductLemma
  <1>5. /\ (pool + deposit) * supply = pool * supply + deposit * supply
        /\ pool * (supply + share) = pool * supply + pool * share
        /\ pool * supply \in Nat
    <2>1. /\ supply * (pool + deposit) = supply * pool + supply * deposit
          /\ supply * pool = pool * supply /\ supply * deposit = deposit * supply
          /\ (pool + deposit) * supply = supply * (pool + deposit)
      BY ProductLemma
    <2> QED BY <2>1, ProductLemma
  <1>6. share > 0 => deposit > 0
    <2> SUFFICES ASSUME deposit = 0 PROVE share = 0
      OBVIOUS
    <2>1. pool * share <= 0
      BY <1>2, <1>4
    <2>2. pool * share = pool * 0
      BY <1>4, <2>1
    <2> QED BY <2>2, ProductLemma
  <1> QED BY <1>1, <1>2, <1>4, <1>5, <1>6

\* The share of a first deposit: nothing, unless something of both assets came.
LEMMA FirstLemma ==
    ASSUME NEW deposits, deposits[1] \in Nat, deposits[2] \in Nat,
           InitialShare(deposits) \notin {None, 0}
    PROVE  /\ InitialShare(deposits) \in Nat /\ InitialShare(deposits) > 0
           /\ deposits[1] > 0 /\ deposits[2] > 0
  <1> DEFINE n == deposits[1] * deposits[2]
  <1>1. n \in Nat
    BY ProductLemma
  <1>2. InitialShare(deposits) = integer_sqrt(n)
    BY DEF InitialShare
  <1>3. /\ deposits[1] = 0 => n = 0
        /\ deposits[2] = 0 => n = 0
    <2>1. /\ deposits[2] * 0 = 0 /\ deposits[1] * 0 = 0
          /\ deposits[1] * deposits[2] = deposits[2] * deposits[1]
      BY ProductLemma
    <2> QED BY <2>1
  <1> HIDE DEF n
  <1>4. integer_sqrt(n) \in Nat /\ (n = 0 => integer_sqrt(n) = 0)
    BY <1>1, RootLemma
  <1> QED BY <1>2, <1>3, <1>4

\* The share of a later deposit: at most what either part of it is worth.
LEMMA LaterLemma ==
    ASSUME NEW deposits, NEW pools, ProRata(deposits, pools) \notin {None, 0},
           NEW k \in 1..2
    PROVE  /\ ProRata(deposits, pools) \in Nat /\ pools[k] # 0
           /\ ProRata(deposits, pools) > 0
           /\ ProRata(deposits, pools) <= (deposits[k] * total_supply) \div pools[k]
  <1> DEFINE share(l) == (deposits[l] * total_supply) \div pools[l]
  <1>1. /\ pools[1] # 0 /\ pools[2] # 0 /\ share(1) \in U128 /\ share(2) \in U128
        /\ ProRata(deposits, pools) = Lesser(share(1), share(2))
    BY Zenon DEF ProRata
  <1>2. share(1) \in Nat /\ share(2) \in Nat
    BY <1>1, WidthLemma
  <1>3. ProRata(deposits, pools) # 0
    OBVIOUS
  <1> HIDE DEF share
  <1>4. k = 1 \/ k = 2
    OBVIOUS
  <1>5. ProRata(deposits, pools) \in Nat /\ ProRata(deposits, pools) <= share(k)
    BY <1>1, <1>2, <1>4 DEF Lesser
  <1> QED BY <1>1, <1>3, <1>4, <1>5 DEF share

\* A deposit.
LEMMA ProvideLemma ==
    ASSUME IInv, NEW user \in Users, NEW deposits \in [1..2 -> Nat],
           NEW slippage_tolerance, NEW receiver \in Accounts,
           NEW funds \in [NativeTokens -> Nat],
           provide_liquidity(user, deposits, slippage_tolerance, receiver, funds)
    PROVE  Kept
  <1> DEFINE b == WithFunds(user, funds)
             pools == [k \in 1..NCoins |->
                          Sub(query_pools(b)[k],
                              IF is_native_token(Infos[k]) THEN deposits[k] ELSE 0)]
             share == IF total_supply = 0 THEN InitialShare(deposits)
                                          ELSE ProRata(deposits, pools)
             out == Intake(user, deposits, share, receiver)
             end == Outlook(pair_info, b, total_supply, out)
  <1>1. Ready /\ CanFund(user, funds)
    BY DEF provide_liquidity
  <1>2. /\ TxInv /\ StateOK(pair_info, bal, total_supply)
        /\ total_supply \in Nat /\ bal \in Ledgers
        /\ committed.total_supply = total_supply
        /\ NCoins = 2 /\ committed.pair_info.asset_infos # << >>
        /\ \A k \in 1..2 : /\ Infos[k] \in Assets /\ Infos[k] \in Tokens
                           /\ Reserves(committed)[k] = bal[Infos[k]][Pair]
                           /\ bal[Infos[k]][Pair] \in Nat
    BY <1>1, FoundLemma
  <1>3. /\ \A k \in 1..NCoins : /\ is_native_token(Infos[k]) => funds[Infos[k]] = deposits[k]
                                /\ pools[k] # None
        /\ share \notin {None, 0}
        /\ Become(pair_info, b, total_supply, out)
    BY Zenon DEF provide_liquidity, TakeDeposit, Intake, assert_sent_native_token_balance
  <1>4. /\ b \in Ledgers /\ StateOK(pair_info, b, total_supply)
        /\ \A a \in Tokens : b[a][Pair] = bal[a][Pair]
                                + IF a \in NativeTokens THEN funds[a] ELSE 0
    <2>1. /\ b \in Ledgers /\ Keeps(b, bal)
          /\ \A a \in Tokens : b[a][Pair] = bal[a][Pair]
                                + IF a \in NativeTokens THEN funds[a] ELSE 0
      BY <1>1, <1>2, FundsLemma
    <2> QED BY <1>2, <2>1, KeepsLemma
  <1> HIDE DEF b
  <1>5. ASSUME NEW k \in 1..2
        PROVE  /\ deposits[k] \in Nat
               /\ Fed(b, deposits)[k] = bal[Infos[k]][Pair] + deposits[k]
               /\ pools[k] = bal[Infos[k]][Pair]
    <2> DEFINE n == b[Infos[k]][Pair]
               less == IF is_native_token(Infos[k]) THEN deposits[k] ELSE 0
    <2>1. n = bal[Infos[k]][Pair] + less
      BY <1>2, <1>3, <1>4 DEF is_native_token
    <2>2. n \in Nat /\ less \in Nat
      BY <1>2, <2>1
    <2>3. pools[k] = Sub(n, less) /\ pools[k] # None
      BY <1>2, <1>3 DEF query_pools
    <2>4. Fed(b, deposits)[k] = n + IF is_native_token(Infos[k]) THEN 0 ELSE deposits[k]
      BY <1>2 DEF Fed
    <2> HIDE DEF n, pools
    <2>5. n \in OptNat /\ less \in OptNat
      BY <2>2 DEF OptNat, Option
    <2> HIDE DEF less
    <2>6. pools[k] = n - less
      BY <2>3, <2>5, AddSubLemma
    <2> QED BY <1>2, <2>1, <2>2, <2>4, <2>6 DEF less
  <1>6. /\ share \in Nat /\ share > 0
        /\ \A k \in 1..2 :
              LET pool == bal[Infos[k]][Pair]
              IN  /\ deposits[k] > 0
                  /\ total_supply > 0 =>
                        (pool + deposits[k]) * total_supply >= pool * (total_supply + share)
    <2> HIDE DEF pools
    <2>1. CASE total_supply = 0
      <3>1. share = InitialShare(deposits)
        BY <2>1
      <3>2. InitialShare(deposits) \notin {None, 0}
        BY <1>3, <3>1
      <3>3. 1 \in 1..2 /\ 2 \in 1..2 /\ deposits[1] \in Nat /\ deposits[2] \in Nat
        BY <1>5
      <3> QED BY <2>1, <3>1, <3>2, <3>3, FirstLemma
    <2>2. CASE total_supply # 0
      <3>1. share = ProRata(deposits, pools)
        BY <2>2
      <3> HIDE DEF share
      <3>2. ProRata(deposits, pools) \notin {None, 0}
        BY <1>3, <3>1
      <3>3. 1 \in 1..2
        OBVIOUS
      <3>4. share \in Nat /\ share > 0
        BY <3>1, <3>2, <3>3, LaterLemma
      <3>5. ASSUME NEW k \in 1..2
            PROVE  LET pool == bal[Infos[k]][Pair]
                   IN  /\ deposits[k] > 0
                       /\ (pool + deposits[k]) * total_supply
                             >= pool * (total_supply + share)
        <4> DEFINE pool == bal[Infos[k]][Pair]
        <4>1. /\ pools[k] # 0
              /\ share <= (deposits[k] * total_supply) \div pools[k]
          BY <3>1, <3>2, LaterLemma
        <4>2. pool \in Nat /\ deposits[k] \in Nat /\ pools[k] = pool
          BY <1>2, <1>5
        <4> HIDE DEF pool
        <4>3. pool > 0 /\ share <= (deposits[k] * total_supply) \div pool
          BY <4>1, <4>2
        <4>4. /\ (pool + deposits[k]) * total_supply >= pool * (total_supply + share)
              /\ deposits[k] > 0
          BY <1>2, <3>4, <4>2, <4>3, CreditLemma
        <4> QED BY <4>4 DEF pool
      <3> QED BY <3>4, <3>5
    <2> QED BY <2>1, <2>2
  <1> HIDE DEF share, pools, out
  <1>7. /\ TxOK(pair_info, b, total_supply, out)
        /\ end = [reserves |-> Fed(b, deposits), supply |-> total_supply + share]
    <2>1. \A k \in 1..NCoins : deposits[k] \in Nat
      BY <1>2, <1>5
    <2>2. TxInv /\ Ready /\ StateOK(pair_info, b, total_supply) /\ share \in Nat
      BY <1>1, <1>2, <1>4, <1>6
    <2> HIDE DEF end
    <2> QED BY <2>1, <2>2, TakeDepositLemma, Zenon DEF out, end
  <1> HIDE DEF end
  <1>8. Backed(end)
    <2>1. \A k \in 1..2 : Fed(b, deposits)[k] > 0
      BY <1>2, <1>5, <1>6
    <2> QED BY <1>2, <1>7, <2>1 DEF Backed, Fed
  <1>9. Ends(end)
    <2>1. \A k \in 1..2 : /\ end.reserves[k] = bal[Infos[k]][Pair] + deposits[k]
                          /\ View(committed).reserves[k] = bal[Infos[k]][Pair]
                          /\ bal[Infos[k]][Pair] \in Nat
                          /\ deposits[k] \in Nat /\ deposits[k] > 0
      BY <1>2, <1>5, <1>6, <1>7 DEF View
    <2>2. end.supply = total_supply + share /\ View(committed).supply = total_supply
      BY <1>2, <1>7 DEF View
    <2>3. \A k \in 1..2 : /\ end.reserves[k] >= View(committed).reserves[k]
                          /\ end.reserves[k] > View(committed).reserves[k]
      BY <2>1
    <2>4. total_supply > 0 =>
            \A k \in 1..2 : end.reserves[k] * total_supply
                               >= View(committed).reserves[k] * (total_supply + share)
      BY <1>6, <2>1
    <2>5. 1 \in 1..2 /\ total_supply + share > total_supply
      BY <1>2, <1>6
    <2>6. Deposited(View(committed), end)
      BY <2>2, <2>3, <2>4, <2>5 DEF Deposited
    <2> QED BY <1>2, <2>6 DEF Ends
  <1> QED BY <1>1, <1>3, <1>7, <1>8, <1>9, HandledLemma DEF end

\* Of a trade that takes at most gross out of ask, against offer: the product
\* of the reserves is kept, and something of ask is left.
LEMMA KeptLemma ==
    ASSUME NEW o \in Nat, NEW a \in Nat, NEW n \in Nat, NEW r \in Nat, NEW left \in Nat,
           o > 0, r <= a, a - GrossReturn(o, a, n) <= left, o + n <= DECIMAL_FRACTION
    PROVE  /\ (o + n) * left >= o * r
           /\ r > 0 => left > 0
  <1> DEFINE gross == GrossReturn(o, a, n)
             rest == a - gross
  <1>1. gross \in Nat /\ gross <= a /\ (o + n) * rest >= o * a
    BY GrossLemma
  <1> HIDE DEF gross
  <1>2. rest \in Nat /\ rest <= left
    BY <1>1 DEF gross
  <1> HIDE DEF rest
  <1>3. (o + n) * rest <= (o + n) * left /\ o * r <= o * a
    BY <1>2, ProductLemma
  <1>4. /\ (o + n) * rest \in Nat /\ (o + n) * left \in Nat
        /\ o * r \in Nat /\ o * a \in Nat
    BY <1>2, ProductLemma
  <1>5. (o + n) * left >= o * r
    BY <1>1, <1>3, <1>4
  <1>6. ASSUME r > 0 PROVE left > 0
    <2>1. o * 0 < o * r
      BY <1>6, ProductLemma
    <2>2. (o + n) * 0 = 0 /\ o * 0 = 0
      BY ProductLemma
    <2>3. left # 0
      BY <1>4, <1>5, <2>1, <2>2
    <2> QED BY <2>3
  <1> QED BY <1>5, <1>6

\* What a payout costs its payer does not depend on the payee.
LEMMA CostLemma ==
    ASSUME NEW info, NEW amount, NEW to
    PROVE  Cost(into_msg(info, amount, Pair, to)) = Taken(info, amount)
  <1>1. CASE is_native_token(info)
    <2> DEFINE n == deduct_tax(info, amount)
    <2>1. \A c : LET m == Msg("BankSend", info, Pair, c, n)
                 IN  m.type = "BankSend" /\ m.asset = info /\ m.amount = n
      BY DEF Msg
    <2> HIDE DEF n
    <2>2. \A c : Cost(Msg("BankSend", info, Pair, c, n)) = n + TaxDue(info, n)
      BY <2>1 DEF Cost
    <2> QED BY <1>1, <2>2 DEF Taken, into_msg, n
  <1>2. CASE ~is_native_token(info)
    <2>1. \A c : LET m == Msg("Transfer", info, Pair, c, amount)
                 IN  m.type # "BankSend" /\ m.amount = amount
      BY DEF Msg
    <2>2. \A c : Cost(Msg("Transfer", info, Pair, c, amount)) = amount + 0
      BY <2>1 DEF Cost
    <2> QED BY <1>2, <2>2 DEF Taken, into_msg
  <1> QED BY <1>1, <1>2

\* A swap: the ledger b holds the offer already.
LEMMA SwapLemma ==
    ASSUME IInv, Ready, NEW b \in Ledgers, Keeps(b, bal),
           NEW offer \in Assets, NEW offer_amount \in Nat, NEW limit, NEW to \in Accounts,
           b[offer][Pair] = bal[offer][Pair] + offer_amount,
           \A x \in Assets : b[x][Pair] >= bal[x][Pair],
           NoStrays => /\ to # Pair
                       /\ \A x \in Assets : InPool(x) /\ x # offer => b[x][Pair] = bal[x][Pair],
           swap(b, offer, offer_amount, limit, to)
    PROVE  Kept
  <1> DEFINE i == IndexOf(offer)
             j == 3 - i
             o == OfferPool(b, i, offer_amount)
             a == query_pools(b)[j]
             gross == GrossReturn(o, a, offer_amount)
             return_amount == gross - Commission(gross)
             m == into_msg(Infos[j], return_amount, Pair, to)
             out == IF return_amount = 0 THEN NoMsgs ELSE [x \in {j} |-> m]
             end == Outlook(pair_info, b, total_supply, out)
             r(k) == bal[Infos[k]][Pair]
  <1>1. /\ TxInv /\ StateOK(pair_info, bal, total_supply)
        /\ total_supply \in Nat /\ bal \in Ledgers
        /\ committed.total_supply = total_supply
        /\ NCoins = 2 /\ 1..NCoins = 1..2
        /\ pair_info.liquidity_token = LpToken
        /\ committed.pair_info = pair_info /\ committed.pair_info.asset_infos # << >>
        /\ \A k \in 1..2 : /\ Infos[k] \in Assets /\ Infos[k] \in Tokens
                           /\ Reserves(committed)[k] = r(k) /\ r(k) \in Nat
                           /\ Scarce /\ total_supply > 0 => r(k) > 0
                           /\ Infos[k] # Infos[3 - k]
    BY FoundLemma
  <1>2. StateOK(pair_info, b, total_supply)
    BY <1>1, KeepsLemma
  <1>3. /\ InPool(offer) /\ o # None /\ o > 0 /\ CanSwap(o, a, offer_amount)
        /\ Become(pair_info, b, total_supply, out)
        /\ return_amount = compute_swap(o, a, offer_amount).return_amount
    <2>1. compute_swap(o, a, offer_amount).return_amount = return_amount
      BY DEF compute_swap
    <2>2. /\ InPool(offer) /\ o # None /\ CanSwap(o, a, offer_amount)
          /\ PayReturn(b, j, compute_swap(o, a, offer_amount).return_amount, to)
      BY Zenon DEF swap, Trade
    <2>3. o > 0
      BY <2>2, Zenon DEF CanSwap
    <2> HIDE DEF return_amount
    <2>4. PayReturn(b, j, return_amount, to)
      BY <2>1, <2>2
    <2>5. Become(pair_info, b, total_supply, out)
      BY <2>4, Zenon DEF PayReturn
    <2> QED BY <2>1, <2>2, <2>3, <2>5
  <1>4. i \in 1..2 /\ j \in 1..2 /\ i # j /\ j = 3 - i /\ Infos[i] = offer
    <2>1. i \in 1..NCoins /\ Infos[i] = offer
      BY <1>3, Zenon DEF InPool, IndexOf
    <2> HIDE DEF i
    <2> QED BY <1>1, <2>1
  <1> HIDE DEF i, j
  <1>5. /\ \A k \in 1..2 : /\ b[Infos[k]][Pair] \in Nat /\ b[Infos[k]][Pair] >= r(k)
                           /\ query_pools(b)[k] = b[Infos[k]][Pair]
        /\ b[Infos[i]][Pair] = r(i) + offer_amount
    <2>1. \A k \in 1..2 : b[Infos[k]][Pair] \in Nat
      BY <1>1, LedgerLemma, AccountsLemma
    <2>2. \A k \in 1..2 : b[Infos[k]][Pair] >= r(k)
      BY <1>1
    <2>3. \A k \in 1..2 : query_pools(b)[k] = b[Infos[k]][Pair]
      BY <1>1 DEF query_pools
    <2> QED BY <1>4, <2>1, <2>2, <2>3
  <1> HIDE DEF r
  <1>6. a \in Nat /\ a = b[Infos[j]][Pair] /\ r(j) <= a /\ r(i) \in Nat /\ r(j) \in Nat
    BY <1>1, <1>4, <1>5
  <1>7. o = r(i)
    <2> DEFINE n == b[Infos[i]][Pair]
    <2>1. o = Sub(n, offer_amount)
      BY <1>4, <1>5 DEF OfferPool
    <2>2. n \in OptNat /\ offer_amount \in OptNat /\ n = r(i) + offer_amount
      BY <1>4, <1>5 DEF OptNat, Option
    <2> HIDE DEF n, o
    <2>3. o = n - offer_amount
      BY <1>3, <2>1, <2>2, AddSubLemma
    <2> QED BY <1>6, <2>2, <2>3
  <1> HIDE DEF o, a
  <1>8. /\ gross \in Nat /\ gross <= a
        /\ offer_amount = 0 => gross = 0
    BY <1>3, <1>6, <1>7, GrossLemma
  <1> HIDE DEF gross
  <1>9. return_amount \in Nat /\ return_amount <= gross
    <2>1. Commission(gross) \in Nat /\ Commission(gross) <= gross
      BY <1>8, CommissionLemma
    <2> QED BY <1>8, <2>1
  <1> HIDE DEF return_amount
  \* Nothing is returned, and so nothing is left to do.
  <1>10. CASE return_amount = 0
    <2>1. out = NoMsgs /\ DOMAIN out = {}
      BY <1>10 DEF NoMsgs
    <2> HIDE DEF out
    <2>2. TxOK(pair_info, b, total_supply, out)
      BY <1>1, <1>2, <2>1, QuietLemma
    <2>3. end = [reserves |-> [k \in 1..2 |-> b[Infos[k]][Pair]], supply |-> total_supply]
      <3>1. end = View([pair_info |-> pair_info, bal |-> b,
                        total_supply |-> total_supply])
        BY <1>2, <2>1, QuietLemma
      <3>2. 1..Len(pair_info.asset_infos) = 1..2
        BY <1>1 DEF NCoins, Infos
      <3> QED BY <3>1, <3>2 DEF View, Reserves, Infos
    <2> HIDE DEF end
    <2>4. Scarce => Backed(end)
      BY <1>1, <1>5, <2>3 DEF Backed
    <2>5. Given(View(committed), end)
      BY <1>1, <1>5, <2>3 DEF Given, View
    <2> QED BY <1>1, <1>3, <2>2, <2>4, <2>5, HandledLemma DEF Ends, end
  \* Something is paid, out of the other reserve.
  <1>11. CASE return_amount # 0
    <2>1. offer_amount > 0 /\ out = [x \in {j} |-> m]
      BY <1>8, <1>9, <1>11
    <2>2. /\ m \in Messages /\ m.amount \in Nat
          /\ m.type \in Payouts /\ m.asset = Infos[j] /\ m.from = Pair
          /\ Cost(m) \in Nat /\ Cost(m) <= return_amount
          /\ m.to = to /\ Cost(m) = Taken(Infos[j], return_amount)
      <3>1. Infos[j] \in Assets
        BY <1>1, <1>4
      <3>2. Cost(m) = Taken(Infos[j], return_amount)
        BY CostLemma
      <3> HIDE DEF return_amount
      <3> QED BY <1>9, <3>1, <3>2, PayoutLemma
    <2> HIDE DEF m
    <2>3. out[j] = m /\ out \in [{j} -> Messages]
      BY <2>1, <2>2
    <2> HIDE DEF out
    <2>4. /\ TxOK(pair_info, b, total_supply, out)
          /\ end = [reserves |-> Paid(b, {j}, out), supply |-> total_supply]
      <3>1. b[LpToken][Pair] \in Nat
        BY LedgerLemma, AccountsLemma
      <3>2. Cost(m) <= b[Infos[j]][Pair]
        BY <1>6, <1>8, <1>9, <2>2
      <3>3. Paying(b, {j}, {}, 0, out)
        BY <1>1, <1>4, <2>2, <2>3, <3>1, <3>2 DEF Paying
      <3>4. total_supply - 0 = total_supply
        BY <1>1
      <3> QED BY <1>1, <1>2, <3>3, <3>4, PayLemma
    <2> HIDE DEF end
    <2> DEFINE left == Paid(b, {j}, out)[j]
    <2>5. /\ Paid(b, {j}, out)[i] = r(i) + offer_amount
          /\ left \in Nat /\ a - gross <= left
          /\ m.to # Pair => left = a - Cost(m)
      <3>1. Paid(b, {j}, out)[i] = b[Infos[i]][Pair] + 0
        BY <1>1, <1>4 DEF Paid
      <3>2. left = a + ((IF m.to = Pair THEN m.amount ELSE 0) - Cost(m))
        BY <1>1, <1>4, <1>6, <2>3 DEF Paid
      <3> HIDE DEF left
      <3>3. left >= a - Cost(m) /\ left \in Int /\ (m.to # Pair => left = a - Cost(m))
        BY <1>6, <2>2, <3>2
      <3> QED BY <1>4, <1>5, <1>6, <1>8, <1>9, <2>2, <3>1, <3>3
    <2> HIDE DEF left
    <2>6. Scarce => /\ (r(i) + offer_amount) * left >= r(i) * r(j)
                    /\ r(j) > 0 => left > 0
      <3> SUFFICES ASSUME Scarce
                   PROVE  /\ (r(i) + offer_amount) * left >= r(i) * r(j)
                          /\ r(j) > 0 => left > 0
        OBVIOUS
      <3>1. o + offer_amount <= DECIMAL_FRACTION
        <4>1. Held(b, offer) <= Circulation
          BY <1>2 DEF StateOK
        <4>2. \A c \in Accounts : b[offer][c] \in Nat
          BY LedgerLemma, AccountsLemma
        <4>3. b[offer][Pair] <= Held(b, offer)
          BY <4>2, AccountsLemma DEF Held
        <4>4. /\ Circulation \in Nat /\ DECIMAL_FRACTION \in Nat /\ Held(b, offer) \in Nat
              /\ b[offer][Pair] \in Nat
          BY <4>2, HeldLemma, AccountsLemma, AssetAssumption
        <4> QED BY <1>4, <1>5, <1>7, <4>1, <4>3, <4>4 DEF Scarce
      <3> QED BY <1>3, <1>6, <1>7, <2>5, <3>1, KeptLemma DEF gross
    <2>7. /\ end.supply = total_supply /\ View(committed).supply = total_supply
          /\ end.reserves[i] = r(i) + offer_amount /\ end.reserves[j] = left
          /\ View(committed).reserves[i] = r(i) /\ View(committed).reserves[j] = r(j)
      BY <1>1, <1>4, <2>4, <2>5 DEF View, left
    <2>8. Scarce => Backed(end)
      <3> SUFFICES ASSUME Scarce, total_supply > 0, NEW k \in 1..2
                   PROVE  end.reserves[k] > 0
        BY <1>1, <2>4 DEF Backed, Paid
      <3>1. r(i) > 0 /\ r(j) > 0
        BY <1>1, <1>4
      <3>2. k = i \/ k = j
        BY <1>4
      <3> QED BY <1>6, <2>5, <2>6, <2>7, <3>1, <3>2
    <2>9. CASE left >= r(j)
      <3>1. \A k \in 1..2 : k = i \/ k = j
        BY <1>4
      <3>2. Given(View(committed), end)
        BY <1>6, <2>7, <2>9, <3>1 DEF Given
      <3> QED BY <1>1, <1>3, <2>4, <2>8, <3>2, HandledLemma DEF Ends, end
    <2>10. CASE left < r(j)
      <3>1. end.reserves[i] > View(committed).reserves[i]
            /\ end.reserves[3 - i] < View(committed).reserves[3 - i]
        BY <1>4, <1>6, <2>1, <2>7, <2>10
      <3>2. Scarce => end.reserves[1] * end.reserves[2]
                        >= View(committed).reserves[1] * View(committed).reserves[2]
        <4>1. /\ (r(i) + offer_amount) * left = left * (r(i) + offer_amount)
              /\ r(i) * r(j) = r(j) * r(i)
          BY <1>6, <2>5, ProductLemma
        <4>2. (i = 1 /\ j = 2) \/ (i = 2 /\ j = 1)
          BY <1>4
        <4> QED BY <2>6, <2>7, <4>1, <4>2
      <3>3. Traded(View(committed), end)
        BY <1>4, <2>7, <3>1, <3>2 DEF Traded
      <3>4. NoStrays => Honoured(View(committed), committed.pair_info.asset_infos, end)
        <4> SUFFICES ASSUME NoStrays, NEW k \in 1..2,
                            end.reserves[k] - View(committed).reserves[k] > 0,
                            end.reserves[3 - k] < View(committed).reserves[3 - k]
                     PROVE  LET n == end.reserves[k] - View(committed).reserves[k]
                            IN  /\ CanSwap(View(committed).reserves[k],
                                           View(committed).reserves[3 - k], n)
                                /\ View(committed).reserves[3 - k] - end.reserves[3 - k]
                                      = Taken(committed.pair_info.asset_infos[3 - k],
                                              compute_swap(View(committed).reserves[k],
                                                           View(committed).reserves[3 - k],
                                                           n).return_amount)
          BY DEF Honoured
        <4>1. k = i /\ 3 - k = j
          BY <1>4, <1>6, <2>5, <2>7, <2>10
        <4>2. to # Pair /\ a = r(j)
          <5>1. Infos[j] \in Assets /\ InPool(Infos[j]) /\ Infos[j] # offer
            BY <1>1, <1>4 DEF InPool
          <5> QED BY <1>6, <5>1 DEF r
        <4>3. r(j) - left = Taken(Infos[j], return_amount)
          BY <1>6, <2>2, <2>5, <4>2
        <4>4. /\ end.reserves[k] - View(committed).reserves[k] = offer_amount
              /\ committed.pair_info.asset_infos = Infos
          BY <1>1, <1>6, <2>7, <4>1 DEF Infos
        <4>5. CanSwap(r(i), r(j), offer_amount)
              /\ return_amount = compute_swap(r(i), r(j), offer_amount).return_amount
          BY <1>3, <1>7, <4>2
        <4> QED BY <2>7, <4>1, <4>3, <4>4, <4>5
      <3> QED BY <1>1, <1>3, <2>4, <2>8, <3>3, <3>4, HandledLemma DEF Ends, end
    <2> QED BY <1>6, <2>5, <2>9, <2>10
  <1> QED BY <1>10, <1>11

\* A withdrawal.
LEMMA WithdrawLemma ==
    ASSUME IInv, NEW token, NEW user \in Users, NEW amount \in Nat,
           withdraw_liquidity(token, user, amount)
    PROVE  Kept
  <1> DEFINE b == Moved(bal, token, user, Pair, amount)
             out == Redemption(b, user, amount)
             end == Outlook(pair_info, b, total_supply, out)
  <1>1. Send(token, user, amount) /\ token = pair_info.liquidity_token
        /\ Become(pair_info, b, total_supply, out)
    BY Zenon DEF withdraw_liquidity, Redemption
  <1>2. Ready
    BY <1>1 DEF Send
  <1>3. /\ TxInv /\ total_supply \in Nat
        /\ committed.total_supply = total_supply
        /\ NCoins = 2 /\ 1..NCoins = 1..2
        /\ committed.pair_info.asset_infos # << >>
        /\ \A k \in 1..2 : /\ Reserves(committed)[k] = bal[Infos[k]][Pair]
                           /\ bal[Infos[k]][Pair] \in Nat
                           /\ Scarce /\ total_supply > 0 => bal[Infos[k]][Pair] > 0
    BY <1>2, FoundLemma
  <1> HIDE DEF b
  <1>4. TxOK(pair_info, b, total_supply, out) /\ Redeemed(end, out)
    BY <1>1, <1>3, RedeemLemma, Zenon DEF b
  <1> HIDE DEF out, end
  <1>5. /\ end.reserves = [k \in 1..2 |-> end.reserves[k]]
        /\ end.supply \in Nat /\ end.supply < total_supply
        /\ \A k \in 1..2 :
              LET pool == bal[Infos[k]][Pair]
              IN  /\ end.reserves[k] \in Nat /\ end.reserves[k] <= pool
                  /\ end.reserves[k] * total_supply >= pool * end.supply
                  /\ end.supply > 0 /\ pool > 0 => end.reserves[k] > 0
                  /\ end.reserves[k] < pool \/ Doomed(out)
    BY <1>3, <1>4 DEF Redeemed
  <1>6. Scarce => Backed(end)
    <2> SUFFICES ASSUME Scarce, end.supply > 0, NEW k \in DOMAIN end.reserves
                 PROVE  end.reserves[k] > 0
      BY DEF Backed
    <2>1. k \in 1..2
      BY <1>5
    <2>2. total_supply > 0
      BY <1>3, <1>5
    <2>3. bal[Infos[k]][Pair] > 0
      BY <1>3, <2>1, <2>2
    <2> QED BY <1>5, <2>1, <2>3
  <1>7. ASSUME ~Doomed(out) PROVE Withdrawn(View(committed), end)
    <2>1. /\ \A k \in 1..2 : View(committed).reserves[k] = bal[Infos[k]][Pair]
          /\ View(committed).supply = total_supply
      BY <1>3 DEF View
    <2>2. 1 \in 1..2 /\ end.reserves[1] < View(committed).reserves[1]
      BY <1>5, <1>7, <2>1
    <2> QED BY <1>5, <2>1, <2>2 DEF Withdrawn
  <1> QED BY <1>1, <1>2, <1>3, <1>4, <1>6, <1>7, HandledLemma DEF end, Ends

\* The chain executes a message, or fails the transaction.
LEMMA ChainLemma ==
    ASSUME IInv, NEW x \in DOMAIN msgs, Execute(x) \/ Abort(x)
    PROVE  Kept
  <1>1. /\ TxInv /\ Paired(pair_info) /\ Paired(committed.pair_info)
        /\ Scarce => /\ Backed(Outlook(pair_info, bal, total_supply, msgs))
                     /\ Backed(View(committed))
        /\ Doomed(msgs) \/ Ends(Outlook(pair_info, bal, total_supply, msgs))
    BY DEF IInv
  <1>2. CASE Execute(x)
    <2>1. PICK p, b, s, out :
             /\ Leaves(p, b, s, out)
             /\ p \in {pair_info, reply(LpToken)}
             /\ Outlook(p, b, s, out) = Outlook(pair_info, bal, total_supply, msgs)
             /\ Doomed(msgs) => Doomed(out)
      BY <1>1, <1>2, ExecuteLemma
    <2>2. Paired(reply(LpToken))
      <3>1. "asset_infos" \in DOMAIN pair_info
        BY <1>1 DEF TxInv, TxOK, StateOK
      <3>2. reply(LpToken).asset_infos = pair_info.asset_infos
        BY <3>1 DEF reply
      <3> QED BY <1>1, <3>2 DEF Paired
    <2> QED BY <1>1, <2>1, <2>2, StepLemma DEF Step
  <1>3. CASE Abort(x)
    <2>1. /\ Leaves(committed.pair_info, committed.bal, committed.total_supply, NoMsgs)
          /\ Outlook(committed.pair_info, committed.bal, committed.total_supply, NoMsgs)
                = View(committed)
      BY <1>1, <1>3, AbortLemma
    <2>2. Ends(View(committed))
      BY <1>1, AgainLemma
    <2> QED BY <1>1, <2>1, <2>2, StepLemma DEF Step
  <1> QED BY <1>2, <1>3

(***************************************************************************)
(* The theorems.                                                           *)
(***************************************************************************)
\* A pool starts in a state of which the invariant holds.
LEMMA InitLemma == Init => IInv
  <1> SUFFICES ASSUME Init PROVE IInv
    OBVIOUS
  <1>1. /\ pair_info = NoPair /\ total_supply = 0 /\ msgs = NoMsgs
        /\ committed = [pair_info |-> pair_info, bal |-> bal, total_supply |-> total_supply]
        /\ bal = [a \in Tokens |-> [c \in Accounts |->
                     IF a \in Assets /\ c \in Users THEN Endowment[c] ELSE 0]]
    BY DEF Init
  <1>2. {"asset_infos", "liquidity_token"} \subseteq DOMAIN NoPair
        /\ NoPair.asset_infos = << >> /\ NoPair.liquidity_token = NoToken
    BY DEF NoPair
  <1>3. TxInv /\ View(committed).supply = 0
    BY <1>1, <1>2, EmptyLemma
  <1>4. DOMAIN NoMsgs = {} /\ StateOK(pair_info, bal, total_supply)
    BY <1>3 DEF NoMsgs, TxInv, TxOK
  <1>5. Outlook(pair_info, bal, total_supply, msgs) = View(committed)
    BY <1>1, <1>4, QuietLemma
  <1>6. Backed(View(committed)) /\ Ends(View(committed))
    BY <1>1, <1>2, <1>3 DEF Backed, Ends
  <1> QED BY <1>1, <1>2, <1>3, <1>5, <1>6 DEF IInv, Paired

\* Every step keeps the invariant, and ends a transaction as it may end.
LEMMA NextLemma == IInv /\ [Next]_vars => Kept
  <1> SUFFICES ASSUME IInv, [Next]_vars PROVE Kept
    OBVIOUS
  <1> USE ChainAssumption
  <1>1. ASSUME NEW infos \in Pools, instantiate(infos) PROVE Kept
    BY <1>1, InstantiateLemma
  <1>2. ASSUME NEW user \in Users, Call(user) PROVE Kept
    <2>0. \A funds \in Funds : funds \in [NativeTokens -> Nat]
      BY DEF Funds
    <2>1. ASSUME NEW deposits \in [1..2 -> Amounts], NEW tolerance \in Tolerances,
                 NEW receiver \in Receivers, NEW funds \in Funds,
                 provide_liquidity(user, deposits, tolerance, receiver, funds)
          PROVE  Kept
      <3>1. deposits \in [1..2 -> Nat] /\ receiver \in Accounts
        OBVIOUS
      <3> QED BY <1>2, <2>0, <2>1, <3>1, ProvideLemma
    <2>2. ASSUME NEW offer \in Assets, NEW amount \in Amounts, NEW limit \in Limits,
                 NEW to \in Receivers, NEW funds \in Funds,
                 execute_swap(user, offer, amount, limit, to, funds)
          PROVE  Kept
      <3> DEFINE b == WithFunds(user, funds)
      <3>1. /\ Ready /\ CanFund(user, funds) /\ offer \in NativeTokens
            /\ funds[offer] = amount
            /\ swap(b, offer, amount, limit, to)
        BY <2>2 DEF execute_swap, assert_sent_native_token_balance, is_native_token
      <3>2. bal \in Ledgers /\ funds \in [NativeTokens -> Nat]
        BY <2>0, <3>1, FoundLemma
      <3>3. /\ b \in Ledgers /\ Keeps(b, bal)
            /\ \A a \in Tokens : b[a][Pair] = bal[a][Pair]
                                    + IF a \in NativeTokens THEN funds[a] ELSE 0
        BY <3>1, <3>2, FundsLemma
      <3> HIDE DEF b
      <3>4. \A a \in Assets : b[a][Pair] >= bal[a][Pair]
        <4>1. \A a \in Assets : a \in Tokens /\ bal[a][Pair] \in Nat
          BY <3>2, LedgerLemma, AccountsLemma
        <4> QED BY <3>2, <3>3, <4>1
      <3>5. b[offer][Pair] = bal[offer][Pair] + amount
        BY <3>1, <3>3, AccountsLemma
      <3>6. amount \in Nat /\ to \in Accounts
        OBVIOUS
      <3>7. NoStrays =>
              /\ to # Pair
              /\ \A x \in Assets : InPool(x) /\ x # offer => b[x][Pair] = bal[x][Pair]
        <4> SUFFICES ASSUME NoStrays
                     PROVE  /\ to # Pair
                            /\ \A x \in Assets :
                                  InPool(x) /\ x # offer => b[x][Pair] = bal[x][Pair]
          OBVIOUS
        <4>1. to # Pair
          BY DEF NoStrays
        <4>2. ASSUME NEW x \in Assets, InPool(x), x # offer PROVE x \notin NativeTokens
          <5>1. /\ InPool(offer) /\ NCoins = 2 /\ 1..NCoins = 1..2 /\ Infos \in Pools
            BY <3>1, FoundLemma DEF swap
          <5>2. /\ \E k \in 1..2 : Infos[k] = x
                /\ \E k \in 1..2 : Infos[k] = offer
            BY <4>2, <5>1 DEF InPool
          <5>3. Infos[1] \notin NativeTokens \/ Infos[2] \notin NativeTokens
            BY <5>1 DEF NoStrays
          <5> QED BY <3>1, <4>2, <5>2, <5>3
        <4>3. \A x \in Assets : x \in Tokens /\ bal[x][Pair] \in Nat
          BY <3>2, LedgerLemma, AccountsLemma
        <4> QED BY <3>3, <4>1, <4>2, <4>3
      <3> QED BY <3>1, <3>3, <3>4, <3>5, <3>6, <3>7, SwapLemma
    <2>3. ASSUME NEW token \in Assets, NEW amount \in Amounts, NEW limit \in Limits,
                 NEW to \in Receivers,
                 receive_swap(token, user, amount, limit, to)
          PROVE  Kept
      <3> DEFINE b == Moved(bal, token, user, Pair, amount)
      <3>1. /\ Ready /\ amount \in 1..bal[token][user]
            /\ swap(b, token, amount, limit, to)
        BY <2>3 DEF receive_swap, Send
      <3>2. bal \in Ledgers
        BY <3>1, FoundLemma
      <3>3. amount \in Nat /\ to \in Accounts /\ token \in Tokens /\ Pair \in Accounts
        BY AccountsLemma
      <3>4. amount <= bal[token][user]
        <4>1. bal[token][user] \in Nat
          BY <1>2, <3>2, <3>3, LedgerLemma, AccountsLemma
        <4> QED BY <3>1, <4>1
      <3>5. /\ b \in Ledgers /\ Keeps(b, bal)
            /\ b[token][Pair] = bal[token][Pair] + amount
            /\ \A a \in Tokens : a # token => b[a] = bal[a]
        BY <1>2, <3>2, <3>3, <3>4, UserMoveLemma
      <3> HIDE DEF b
      <3>6. \A a \in Assets : b[a][Pair] >= bal[a][Pair]
        <4>1. \A a \in Assets : a \in Tokens /\ bal[a][Pair] \in Nat
          BY <3>2, LedgerLemma, AccountsLemma
        <4> QED BY <3>3, <3>5, <4>1
      <3>7. NoStrays =>
              /\ to # Pair
              /\ \A x \in Assets : InPool(x) /\ x # token => b[x][Pair] = bal[x][Pair]
        BY <3>5, AccountsLemma DEF NoStrays
      <3> QED BY <3>1, <3>3, <3>5, <3>6, <3>7, SwapLemma
    <2>4. \A amount \in Amounts \cup {bal[LpToken][user]} : amount \in Nat
      <3>1. bal \in Ledgers
        BY DEF IInv, TxInv, TxOK, StateOK
      <3>2. bal[LpToken][user] \in Nat
        BY <1>2, <3>1, LedgerLemma, AccountsLemma
      <3> QED BY <3>2
    <2>5. ASSUME NEW token \in Tokens, NEW amount \in Amounts \cup {bal[LpToken][user]},
                 withdraw_liquidity(token, user, amount)
          PROVE  Kept
      BY <1>2, <2>4, <2>5, WithdrawLemma
    <2> QED BY <1>2, <2>1, <2>2, <2>3, <2>5 DEF Call
  <1>3. ASSUME NEW token \in Tokens, NEW user \in Users, NEW to \in Receivers,
               NEW amount \in Gifts, transfer(token, user, to, amount)
        PROVE  Kept
    <2>1. to \in Accounts /\ amount \in Nat
      OBVIOUS
    <2> QED BY <1>3, <2>1, GiftLemma
  <1>4. ASSUME NEW x \in DOMAIN msgs, Execute(x) \/ Abort(x) PROVE Kept
    BY <1>4, ChainLemma
  <1>5. CASE UNCHANGED vars
    <2>1. TxInv'
      BY <1>5 DEF vars, IInv, TxInv, CommittedOK, Idle
    <2> QED BY <1>5, <2>1 DEF vars, IInv, Ends, Kept, Scarce, Circulation
  <1> QED BY <1>1, <1>2, <1>3, <1>4, <1>5 DEF Next

\* The invariant holds throughout.
THEOREM Inductive == Spec => []IInv
  <1>1. IInv /\ [Next]_vars => IInv'
    BY NextLemma DEF Kept
  <1> QED BY <1>1, InitLemma, PTL DEF Spec

\* Whatever a handler decides to pay or to burn is still there, tax included,
\* when the chain comes to execute it.
THEOREM PayoutsAreCovered == Spec => []PayoutsCovered
  <1>1. IInv => PayoutsCovered
    BY CoveredLemma DEF IInv
  <1> QED BY <1>1, Inductive, PTL

\* While LP tokens exist no reserve of the pool is empty after a transaction.
THEOREM ReservesRemain == Scarce /\ Spec => []NeverDrained
  <1>1. Scarce /\ IInv => NeverDrained
    BY DEF IInv, Backed, View, NeverDrained, Reserves
  <1>2. Scarce => Scarce'
    BY DEF Scarce, Circulation
  <1> QED BY <1>1, <1>2, Inductive, PTL

\* The product of larger numbers is larger.
LEMMA MonotoneLemma ==
    ASSUME NEW a \in Nat, NEW b \in Nat, NEW c \in Nat, NEW d \in Nat, a >= c, b >= d
    PROVE  a * b >= c * d
  <1>1. a * d <= a * b /\ d * c <= d * a
    BY ProductLemma
  <1>2. d * c = c * d /\ d * a = a * d
    BY ProductLemma
  <1>3. a * b \in Nat /\ a * d \in Nat /\ c * d \in Nat
    BY ProductLemma
  <1> QED BY <1>1, <1>2, <1>3

\* A committed pool of two assets has two reserves, natural numbers, and one
\* that is not there has no LP tokens.
Seen ==
    /\ committed.total_supply \in Nat
    /\ committed.pair_info.asset_infos = << >> =>
          committed.total_supply = 0 /\ Reserves(committed) = << >>
    /\ committed.pair_info.asset_infos # << >> =>
          /\ Len(Reserves(committed)) = 2 /\ Reserves(committed) # << >>
          /\ \A k \in 1..2 : Reserves(committed)[k] \in Nat

LEMMA SeenLemma == IInv => Seen
  <1> SUFFICES ASSUME IInv PROVE Seen
    OBVIOUS
  <1>1. StateOK(committed.pair_info, committed.bal, committed.total_supply)
    BY DEF IInv, TxInv, CommittedOK, TxOK
  <1>2. committed.total_supply \in Nat
    BY <1>1 DEF StateOK
  <1>3. CASE committed.pair_info.asset_infos = << >>
    <2>1. committed.total_supply = 0
      BY <1>1, <1>3 DEF StateOK
    <2>2. Reserves(committed) = << >>
      BY <1>3 DEF Reserves
    <2> QED BY <1>3, <2>1, <2>2, <1>2 DEF Seen
  <1>4. CASE committed.pair_info.asset_infos # << >>
    <2>1. Len(committed.pair_info.asset_infos) = 2
      BY <1>4 DEF IInv, Paired
    <2> DEFINE r == Reserves(committed)
    <2>2. r = [k \in 1..2 |-> committed.bal[committed.pair_info.asset_infos[k]][Pair]]
      BY <2>1 DEF Reserves
    <2>3. \A k \in 1..2 : committed.bal[committed.pair_info.asset_infos[k]][Pair] \in Nat
      BY <1>1, <2>1, InfosLemma DEF Slots
    <2> HIDE DEF r
    <2>4. \A k \in 1..2 : r[k] \in Nat
      BY <2>2, <2>3
    <2>5. r \in Seq(Nat) /\ DOMAIN r = 1..2
      BY <2>2, <2>3
    <2>6. Len(r) \in Nat /\ DOMAIN r = 1..Len(r)
      <3>1. \A t \in Seq(Nat) : Len(t) \in Nat /\ DOMAIN t = 1..Len(t)
        OBVIOUS
      <3> QED BY <2>5, <3>1
    <2>7. Len(r) = 2
      <3>1. 1..Len(r) = 1..2
        BY <2>5, <2>6
      <3> QED BY <2>6, <3>1
    <2>8. r # << >>
      BY <2>7
    <2> QED BY <1>2, <1>4, <2>4, <2>7, <2>8 DEF Seen, r
  <1> QED BY <1>3, <1>4

\* What a step does to what was committed.
LEMMA EndLemma ==
    ASSUME IInv, [Next]_vars, committed' # committed
    PROVE  /\ Seen /\ Seen' /\ (Scarce => Backed(View(committed'))) /\ Ends(View(committed'))
           /\ committed.pair_info.asset_infos
                 \in {committed'.pair_info.asset_infos, << >>}
  <1>1. Kept
    BY NextLemma
  <1>2. IInv' => Seen'
    BY SeenLemma, PTL
  <1> QED BY <1>1, <1>2, SeenLemma DEF Kept, IInv

\* Whoever deposits or withdraws leaves at least as much of each asset behind
\* every LP token as was there, whatever the shares are rounded to.
THEOREM NoDilution == Spec => NobodyDiluted
  <1>1. IInv /\ [Next]_vars =>
          [/\ 0 < committed.total_supply /\ 0 < committed'.total_supply
           /\ committed.total_supply # committed'.total_supply
           => \A k \in 1..2 :
                  Reserves(committed')[k] * committed.total_supply
                      >= Reserves(committed)[k] * committed'.total_supply]_committed
    <2> SUFFICES ASSUME IInv, [Next]_vars, committed' # committed,
                        0 < committed.total_supply, 0 < committed'.total_supply,
                        committed.total_supply # committed'.total_supply,
                        NEW k \in 1..2
                 PROVE  Reserves(committed')[k] * committed.total_supply
                            >= Reserves(committed)[k] * committed'.total_supply
      OBVIOUS
    <2>1. Seen /\ Seen' /\ Ends(View(committed'))
      BY EndLemma
    <2> QED BY <2>1 DEF Seen, Ends, Given, Traded, Deposited, Withdrawn, View
  <1> QED BY <1>1, Inductive, PTL DEF Spec, NobodyDiluted

\* No swap and no transfer lowers the product of the reserves, whatever the
\* return, the commission and the tax are rounded to.
THEOREM ProductIsKept == Scarce /\ Spec => ProductKept
  <1>1. Scarce /\ IInv /\ [Next]_vars =>
          [committed.total_supply = committed'.total_supply
              /\ committed.pair_info.asset_infos # << >>
           => Reserves(committed')[1] * Reserves(committed')[2]
                  >= Reserves(committed)[1] * Reserves(committed)[2]]_committed
    <2> SUFFICES ASSUME Scarce, IInv, [Next]_vars, committed' # committed,
                        committed.total_supply = committed'.total_supply,
                        committed.pair_info.asset_infos # << >>
                 PROVE  Reserves(committed')[1] * Reserves(committed')[2]
                            >= Reserves(committed)[1] * Reserves(committed)[2]
      OBVIOUS
    <2>1. Seen /\ Seen' /\ Ends(View(committed'))
          /\ committed'.pair_info.asset_infos # << >>
      BY EndLemma
    <2>2. /\ committed.total_supply \in Nat /\ committed'.total_supply \in Nat
          /\ \A k \in 1..2 : Reserves(committed)[k] \in Nat /\ Reserves(committed')[k] \in Nat
      BY <2>1 DEF Seen
    <2>3. \/ Given(View(committed), View(committed'))
          \/ Traded(View(committed), View(committed'))
      BY <2>1, <2>2 DEF Ends, Deposited, Withdrawn, View
    <2>4. CASE Given(View(committed), View(committed'))
      <3>1. 1 \in 1..2 /\ 2 \in 1..2
        OBVIOUS
      <3>2. /\ Reserves(committed')[1] >= Reserves(committed)[1]
            /\ Reserves(committed')[2] >= Reserves(committed)[2]
        BY <2>4, <3>1 DEF Given, View
      <3> QED BY <2>1, <2>2, <3>1, <3>2, MonotoneLemma
    <2>5. CASE Traded(View(committed), View(committed'))
      BY <2>5 DEF Traded, View
    <2> QED BY <2>3, <2>4, <2>5
  <1>2. Scarce => Scarce'
    BY DEF Scarce, Circulation
  <1> QED BY <1>1, <1>2, Inductive, PTL DEF Spec, ProductKept

\* The pool holds no more than there is.
LEMMA HoldsLemma ==
    ASSUME IInv, committed.pair_info.asset_infos # << >>, NEW k \in 1..2
    PROVE  Reserves(committed)[k] \in Nat /\ Reserves(committed)[k] <= Circulation
  <1> DEFINE infos == committed.pair_info.asset_infos
             b == committed.bal
  <1>1. /\ StateOK(committed.pair_info, b, committed.total_supply)
        /\ Len(infos) = 2 /\ Slots(committed.pair_info) = 1..2
    BY DEF IInv, TxInv, CommittedOK, TxOK, Paired, Slots
  <1>2. infos[k] \in Assets /\ infos[k] \in Tokens /\ b \in Ledgers
        /\ Held(b, infos[k]) <= Circulation
    BY <1>1, InfosLemma DEF StateOK
  <1>3. Reserves(committed)[k] = b[infos[k]][Pair]
    BY <1>1 DEF Reserves
  <1>4. ASSUME NEW f \in Ledgers, NEW x \in Tokens
        PROVE  f[x][Pair] \in Nat /\ f[x][Pair] <= Held(f, x) /\ Held(f, x) \in Nat
    <2>1. \A c \in Accounts : f[x][c] \in Nat
      BY LedgerLemma
    <2>2. f[x][Pair] <= Held(f, x)
      BY <2>1, AccountsLemma DEF Held
    <2> QED BY <2>1, <2>2, HeldLemma, AccountsLemma
  <1> HIDE DEF infos, b
  <1>5. Circulation \in Nat
    BY <1>2, HeldLemma
  <1>6. b[infos[k]][Pair] \in Nat /\ b[infos[k]][Pair] <= Circulation
    BY <1>2, <1>4, <1>5
  <1> QED BY <1>3, <1>6

\* Each asset of the pool is found at its place.
LEMMA PlaceLemma ==
    ASSUME IInv, committed.pair_info.asset_infos # << >>, NEW k \in 1..2
    PROVE  InPool(Infos[k]) /\ IndexOf(Infos[k]) = k
  <1>1. StateOK(pair_info, bal, total_supply) /\ Len(Infos) = 2
    BY DEF IInv, TxInv, CommittedOK, TxOK, Paired, Infos
  <1>2. NCoins = 2 /\ \A l \in 1..NCoins : Infos[l] = Infos[k] => l = k
    BY <1>1 DEF StateOK, Slots, NCoins, Infos
  <1>3. k \in 1..NCoins
    BY <1>2
  <1>4. InPool(Infos[k])
    BY <1>3, Zenon DEF InPool
  <1>5. IndexOf(Infos[k]) \in 1..NCoins /\ Infos[IndexOf(Infos[k])] = Infos[k]
    BY <1>3, Zenon DEF IndexOf
  <1> QED BY <1>2, <1>4, <1>5

\* The simulation of an offer of the pool's asset k.
LEMMA SimulatedLemma ==
    ASSUME IInv, committed.pair_info.asset_infos # << >>, NEW k \in 1..2, NEW n,
           CanSwap(Reserves(committed)[k], Reserves(committed)[3 - k], n)
    PROVE  /\ Infos = committed.pair_info.asset_infos
           /\ query_simulation(Infos[k], n)
                 = compute_swap(Reserves(committed)[k], Reserves(committed)[3 - k], n)
  <1>1. committed.pair_info = pair_info /\ InPool(Infos[k]) /\ IndexOf(Infos[k]) = k
    BY PlaceLemma DEF IInv, TxInv, CommittedOK
  <1>2. query_pool.assets = Reserves(committed)
    BY DEF query_pool
  <1> QED BY <1>1, <1>2, Zenon DEF query_simulation, Infos


\* The integers hold the square of what there is of an asset, a Decimal fraction
\* of it too, and nobody asks for more than the digits of the commission.
Ample ==
    /\ Scarce
    /\ Circulation * Circulation <= U128Max
    /\ Circulation * Circulation * DECIMAL_FRACTION <= U256Max
    /\ \A amount \in Amounts : amount <= COMMISSION_RATE

\* What the reverse simulation quotes, and one unit more, buys what was asked
\* for, at the reserves of the moment.
THEOREM QuotesSuffice == Ample /\ Spec => []QuoteSuffices
  <1> SUFFICES ASSUME Ample PROVE Spec => []QuoteSuffices
    OBVIOUS
  <1>1. IInv => QuoteSuffices
    <2> SUFFICES ASSUME IInv, query_pair_info.asset_infos # << >>,
                        NEW ask_amount \in Amounts, NEW k \in 1..2,
                        query_reverse_simulation(Infos[3 - k], ask_amount) # NoOffer
                 PROVE  query_simulation(Infos[k],
                           query_reverse_simulation(Infos[3 - k], ask_amount).offer_amount
                              + 1).return_amount >= ask_amount
      BY DEF QuoteSuffices
    <2> DEFINE j == 3 - k
               o == Reserves(committed)[k]
               a == Reserves(committed)[j]
               c == Circulation
               F == DECIMAL_FRACTION
    <2>1. Seen /\ committed.pair_info.asset_infos # << >> /\ j \in 1..2 /\ 3 - j = k
          /\ committed.pair_info = pair_info
      BY SeenLemma DEF query_pair_info, IInv, TxInv, CommittedOK
    <2>2. InPool(Infos[j]) /\ IndexOf(Infos[j]) = j
      BY <2>1, PlaceLemma
    <2>3. query_reverse_simulation(Infos[j], ask_amount)
             = compute_offer_amount(o, a, ask_amount)
      BY <2>1, <2>2 DEF query_reverse_simulation, query_pool
    <2>4. /\ o \in Nat /\ a \in Nat /\ c \in Nat /\ o <= c /\ a <= c /\ F \in Nat
      <3>1. \A l \in 1..2 : Reserves(committed)[l] \in Nat /\ Reserves(committed)[l] <= c
        BY <2>1, HoldsLemma
      <3>2. c \in Nat
        BY HeldLemma DEF IInv, TxInv, TxOK, StateOK
      <3> QED BY <2>1, <3>1, <3>2, AssetAssumption
    <2>5. ask_amount \in Nat /\ ask_amount <= COMMISSION_RATE
      BY ChainAssumption DEF Ample
    <2> HIDE DEF o, a, c, j
    <2>6. /\ o <= F /\ o * a * F <= U256Max
          /\ a * a <= U128Max /\ a * a * F <= U256Max
      <3>1. /\ c <= F /\ c * c <= U128Max /\ c * c * F <= U256Max
        BY DEF Ample, Scarce, c
      <3>2. /\ o * a <= c * c /\ a * a <= c * c
            /\ o * a \in Nat /\ a * a \in Nat /\ c * c \in Nat
        BY <2>4, MonotoneLemma, ProductLemma
      <3>3. o * a * F <= c * c * F /\ a * a * F <= c * c * F
            /\ o * a * F \in Nat /\ a * a * F \in Nat /\ c * c * F \in Nat
        <4>1. \A x, y \in Nat : x <= y => x * F <= y * F /\ x * F \in Nat /\ y * F \in Nat
          BY <2>4, MonotoneLemma, ProductLemma
        <4> QED BY <3>2, <4>1
      <3>4. U256Max \in Nat /\ U128Max \in Nat
        BY ProductAssumption, WidthAssumption
      <3> QED BY <2>4, <3>1, <3>2, <3>3, <3>4
    <2> DEFINE n == compute_offer_amount(o, a, ask_amount).offer_amount + 1
    <2>7. CanSwap(o, a, n) /\ compute_swap(o, a, n).return_amount >= ask_amount
      <3>1. compute_offer_amount(o, a, ask_amount) # NoOffer
        BY <2>3 DEF j
      <3> QED BY <2>4, <2>5, <2>6, <3>1, QuoteLemma
    <2> HIDE DEF n
    <2>8. query_simulation(Infos[k], n) = compute_swap(o, a, n)
      BY <2>1, <2>7, SimulatedLemma DEF o, a, j
    <2> QED BY <2>3, <2>7, <2>8 DEF j, n
  <1> QED BY <1>1, Inductive, PTL

\* A trade that takes effect takes out of the pool what the simulation said just
\* before, where users leave nothing in it by mistake.
THEOREM TradesAreHonoured == NoStrays /\ Spec => SimulationHonoured
  <1> SUFFICES ASSUME NoStrays PROVE Spec => SimulationHonoured
    OBVIOUS
  <1>1. IInv /\ [Next]_vars =>
          [committed.total_supply = committed'.total_supply
              /\ query_pair_info.asset_infos # << >>
           => LET change(k) == Reserves(committed')[k] - Reserves(committed)[k]
              IN  \A k \in 1..2 :
                      change(k) > 0 /\ change(3 - k) < 0 =>
                          -change(3 - k) = Taken(Infos[3 - k],
                              query_simulation(Infos[k], change(k)).return_amount)]_committed
    <2> DEFINE r == Reserves(committed)
               r2 == Reserves(committed')
    <2> SUFFICES ASSUME IInv, [Next]_vars, committed' # committed,
                        committed.total_supply = committed'.total_supply,
                        query_pair_info.asset_infos # << >>,
                        NEW k \in 1..2, r2[k] - r[k] > 0, r2[3 - k] - r[3 - k] < 0
                 PROVE  -(r2[3 - k] - r[3 - k])
                            = Taken(Infos[3 - k],
                                    query_simulation(Infos[k], r2[k] - r[k]).return_amount)
      OBVIOUS
    <2>1. Seen /\ Seen' /\ Ends(View(committed'))
          /\ committed.pair_info.asset_infos # << >>
          /\ committed'.pair_info.asset_infos # << >>
      BY EndLemma DEF query_pair_info
    <2>2. /\ committed.total_supply \in Nat /\ committed'.total_supply \in Nat
          /\ \A l \in 1..2 : r[l] \in Nat /\ r2[l] \in Nat
      BY <2>1 DEF Seen
    <2>3. View(committed).reserves = r /\ View(committed').reserves = r2
          /\ View(committed).supply = View(committed').supply
      BY DEF View
    <2>4. 3 - k \in 1..2 /\ r2[k] - r[k] > 0 /\ r2[3 - k] < r[3 - k]
      BY <2>2
    <2> HIDE DEF r, r2
    <2>5. Honoured(View(committed), committed.pair_info.asset_infos, View(committed'))
      <3>1. ~Given(View(committed), View(committed'))
        BY <2>2, <2>3, <2>4 DEF Given
      <3>2. View(committed).supply \in Nat /\ View(committed').supply \in Nat
        BY <2>2 DEF View
      <3>3. ~Deposited(View(committed), View(committed'))
            /\ ~Withdrawn(View(committed), View(committed'))
        BY <2>3, <3>2 DEF Deposited, Withdrawn
      <3> QED BY <2>1, <3>1, <3>3 DEF Ends
    <2>6. /\ CanSwap(r[k], r[3 - k], r2[k] - r[k])
          /\ r[3 - k] - r2[3 - k]
                = Taken(committed.pair_info.asset_infos[3 - k],
                        compute_swap(r[k], r[3 - k], r2[k] - r[k]).return_amount)
      BY <2>3, <2>4, <2>5 DEF Honoured
    <2>7. /\ Infos = committed.pair_info.asset_infos
          /\ query_simulation(Infos[k], r2[k] - r[k])
                = compute_swap(r[k], r[3 - k], r2[k] - r[k])
      BY <2>1, <2>6, SimulatedLemma DEF r
    <2>8. -(r2[3 - k] - r[3 - k]) = r[3 - k] - r2[3 - k]
      BY <2>2, <2>4
    <2> QED BY <2>6, <2>7, <2>8 DEF r, r2
  <1> QED BY <1>1, Inductive, PTL DEF Spec, SimulationHonoured

\* What each LP token is worth, by the product, follows from what it has of each
\* asset behind it.
LEMMA WorthLemma ==
    ASSUME NEW x \in Nat, NEW y \in Nat, NEW s \in Nat,
           NEW x2 \in Nat, NEW y2 \in Nat, NEW s2 \in Nat,
           x2 * s >= x * s2, y2 * s >= y * s2
    PROVE  x2 * y2 * s * s >= x * y * s2 * s2
  <1>1. x2 * s \in Nat /\ y2 * s \in Nat /\ x * s2 \in Nat /\ y * s2 \in Nat
    BY ProductLemma
  <1>2. (x2 * s) * (y2 * s) >= (x * s2) * (y * s2)
    BY <1>1, MonotoneLemma
  <1>3. (x2 * s) * (y2 * s) = x2 * y2 * s * s /\ (x * s2) * (y * s2) = x * y * s2 * s2
    BY SMT
  <1> QED BY <1>2, <1>3

\* Seen from outside, the pair is a Vault: whatever messages a transaction
\* takes, it is one deposit, withdrawal, trade or gift, after which no LP token
\* is worth less.
THEOREM ImplementsAVault == Scarce /\ Spec => ImplementsVault
  <1>1. Init => V!Init
    <2> SUFFICES ASSUME Init PROVE V!Init
      OBVIOUS
    <2>1. /\ committed.pair_info.asset_infos = << >> /\ committed.total_supply = 0
      BY DEF Init, NoPair
    <2>2. Reserves(committed) = << >>
      BY <2>1 DEF Reserves
    <2> QED BY <2>1, <2>2 DEF V!Init
  <1>2. Scarce /\ IInv /\ [Next]_vars => [V!Next]_V!vars
    <2> SUFFICES ASSUME Scarce, IInv, [Next]_vars PROVE [V!Next]_V!vars
      OBVIOUS
    <2>1. CASE committed' = committed
      BY <2>1 DEF V!vars
    <2>2. CASE committed' # committed
      <3> DEFINE r == Reserves(committed)
                 r2 == Reserves(committed')
                 s == committed.total_supply
                 s2 == committed'.total_supply
      <3>1. /\ Seen /\ Seen' /\ Backed(View(committed')) /\ Ends(View(committed'))
            /\ committed.pair_info.asset_infos
                  \in {committed'.pair_info.asset_infos, << >>}
        BY <2>2, EndLemma
      <3>2. CASE committed.pair_info.asset_infos = << >>
        <4>1. s = 0 /\ r = << >>
          BY <3>1, <3>2 DEF Seen
        <4>2. s2 = 0
          BY <3>1, <3>2 DEF Ends, View
        <4>3. CASE r2 = << >>
          BY <4>1, <4>2, <4>3 DEF V!vars
        <4>4. CASE r2 # << >>
          BY <4>1, <4>2, <4>4 DEF V!Next, V!Open
        <4> QED BY <4>3, <4>4
      <3>3. CASE committed.pair_info.asset_infos # << >>
        <4>1. /\ s \in Nat /\ s2 \in Nat /\ Len(r) = 2 /\ Len(r2) = 2
              /\ r[1] \in Nat /\ r[2] \in Nat /\ r2[1] \in Nat /\ r2[2] \in Nat
          BY <3>1, <3>3 DEF Seen
        <4>2. \/ Given(View(committed), View(committed'))
              \/ Traded(View(committed), View(committed'))
              \/ Deposited(View(committed), View(committed'))
              \/ Withdrawn(View(committed), View(committed'))
          BY <3>1, <3>3 DEF Ends
        <4>3. V!Coins = {1, 2}
          BY <4>1 DEF V!Coins
        <4>4. s2 > 0 => r2[1] > 0 /\ r2[2] > 0
          BY <3>1, <4>1 DEF Backed, View
        <4>5. ASSUME s > 0 => ProductPerShareKept("x * y = k", r, s, r2, s2),
                     V!Deposit \/ V!Withdraw \/ V!Trade \/ V!Gift
              PROVE  V!Next
          BY <4>1, <4>3, <4>4, <4>5 DEF V!Next, V!Sound
        <4>6. CASE Given(View(committed), View(committed'))
          <5>1. r2[1] >= r[1] /\ r2[2] >= r[2] /\ s2 = s
            BY <4>6 DEF Given, View
          <5>2. r2[1] * s >= r[1] * s2 /\ r2[2] * s >= r[2] * s2
            BY <4>1, <5>1, MonotoneLemma
          <5>3. ProductPerShareKept("x * y = k", r, s, r2, s2)
            BY <4>1, <5>2, WorthLemma DEF ProductPerShareKept
          <5>4. V!Gift
            BY <4>1, <4>3, <5>1 DEF V!Gift, V!Shrinks
          <5> QED BY <4>5, <5>3, <5>4
        <4>7. CASE Traded(View(committed), View(committed'))
          <5>1. /\ s2 = s /\ r2[1] * r2[2] >= r[1] * r[2]
                /\ \/ r2[1] > r[1] /\ r2[2] < r[2]
                   \/ r2[2] > r[2] /\ r2[1] < r[1]
            BY <4>7 DEF Traded, View
          <5>2. ProductPerShareKept("x * y = k", r, s, r2, s2)
            <6> DEFINE p == r[1] * r[2]
                       p2 == r2[1] * r2[2]
            <6>1. p \in Nat /\ p2 \in Nat /\ p2 >= p
              BY <4>1, <5>1, ProductLemma
            <6> HIDE DEF p, p2
            <6>2. p2 * s >= p * s /\ p2 * s \in Nat /\ p * s \in Nat
              BY <4>1, <6>1, MonotoneLemma, ProductLemma
            <6>3. p2 * s * s >= p * s * s
              BY <4>1, <6>2, MonotoneLemma
            <6> QED BY <5>1, <6>3 DEF ProductPerShareKept, p, p2
          <5>3. V!Trade
            BY <4>1, <4>3, <5>1 DEF V!Trade, V!Shrinks, V!Grows
          <5> QED BY <4>5, <5>2, <5>3
        <4>8. CASE Deposited(View(committed), View(committed'))
          <5>1. /\ r2[1] >= r[1] /\ r2[2] >= r[2] /\ s2 > s
                /\ r2[1] > r[1] \/ r2[2] > r[2]
                /\ s > 0 => r2[1] * s >= r[1] * s2 /\ r2[2] * s >= r[2] * s2
            BY <4>8 DEF Deposited, View
          <5>2. s > 0 => ProductPerShareKept("x * y = k", r, s, r2, s2)
            BY <4>1, <5>1, WorthLemma DEF ProductPerShareKept
          <5>3. V!Deposit
            BY <4>1, <4>3, <5>1 DEF V!Deposit, V!Shrinks, V!Grows
          <5> QED BY <4>5, <5>2, <5>3
        <4>9. CASE Withdrawn(View(committed), View(committed'))
          <5>1. /\ r2[1] <= r[1] /\ r2[2] <= r[2] /\ s2 < s
                /\ r2[1] < r[1] \/ r2[2] < r[2]
                /\ r2[1] * s >= r[1] * s2 /\ r2[2] * s >= r[2] * s2
            BY <4>9 DEF Withdrawn, View
          <5>2. ProductPerShareKept("x * y = k", r, s, r2, s2)
            BY <4>1, <5>1, WorthLemma DEF ProductPerShareKept
          <5>3. V!Withdraw
            BY <4>1, <4>3, <5>1 DEF V!Withdraw, V!Shrinks, V!Grows
          <5> QED BY <4>5, <5>2, <5>3
        <4> QED BY <4>2, <4>6, <4>7, <4>8, <4>9
      <3> QED BY <3>2, <3>3
    <2> QED BY <2>1, <2>2
  <1>3. Scarce => Scarce'
    BY DEF Scarce, Circulation
  <1> QED BY <1>1, <1>2, <1>3, Inductive, PTL DEF Spec, ImplementsVault, V!Spec

=============================================================================
