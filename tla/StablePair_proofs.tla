-------------------------- MODULE StablePair_proofs --------------------------
(***************************************************************************)
(* TypeOK, PayoutsCovered, NeverDrained, NeverUndervalued and WithdrawFair *)
(* hold of StablePair for every pool, every tax, every width and every set *)
(* of inputs; TakenOnCurve does of pools of two assets, WithdrawsBalanced  *)
(* without tax, and AcceptsDeposits of pools nobody gives anything.        *)
(*                                                                         *)
(* What the chain does with messages is in Chain_proofs; here each handler *)
(* is shown to leave messages whose outlook is one that may be committed.  *)
(***************************************************************************)
EXTENDS StablePair, Curve_proofs, Chain_proofs

(***************************************************************************)
(* The inductive invariant.                                                *)
(***************************************************************************)
\* What the contract may have stored: nothing, or one of the pools created.
Stored == {p \in PairInfos :
              \/ p.asset_infos = << >>
              \/ \E msg \in InstantiateMsgs : /\ p.asset_infos = msg.asset_infos
                                              /\ p.amplification = msg.amplification}

\* How a transaction from the state st may end, in v.  If it burns LP tokens and
\* takes from every reserve, each remaining one has what it had behind it.
FairEnd(st, v) ==
    \/ Len(st.pair_info.asset_infos) = 1
    \/ ~(v.supply < st.total_supply)
    \/ \E k \in Slots(st.pair_info) : ~(v.reserves[k] < Reserves(st)[k])
    \/ \A k \in Slots(st.pair_info) :
          v.reserves[k] * st.total_supply >= Reserves(st)[k] * v.supply

\* Of a pool of two assets one is always offered for the other, and not both can
\* come as funds with the offer.
Paired ==
    \A msg \in InstantiateMsgs : Len(msg.asset_infos) = 2 =>
        /\ \E k \in 1..2 : ~is_native_token(msg.asset_infos[k])
        /\ \A pair \in SwapPairs : \E k \in 1..2 :
              pair[1] = msg.asset_infos[k] /\ pair[2] = msg.asset_infos[3 - k]

\* If it takes from one of two reserves only, and mints nothing, it takes at most
\* a unit more than leaves on the curve what belongs to the LP tokens that remain.
CurveEnd(st, v) ==
    LET info == st.pair_info
        d_0 == Invariant(st)
    IN  Len(info.asset_infos) = 2 /\ st.total_supply \in U64
            /\ v.supply <= st.total_supply =>
           \A k \in 1..2 :
              /\ v.reserves[k] < Reserves(st)[k]
              /\ v.reserves[3 - k] >= Reserves(st)[3 - k]
              => \A d \in 0..d_0 :
                    d * st.total_supply <= d_0 * v.supply =>
                       UpTo(CurveOf(info).amp, d, v.reserves[3 - k], v.reserves[k] + 1)

\* No tax is due, and a Decimal tells shares of a reserve apart.
Precise == Untaxed /\ Circulation <= DECIMAL_FRACTION

\* If it burns LP tokens and takes from every reserve, it takes their share of it,
\* rounded down, or a unit less.
BalancedEnd(st, v) ==
    LET burnt == st.total_supply - v.supply
    IN  /\ Len(st.pair_info.asset_infos) # 1 /\ burnt > 0
        /\ \A k \in Slots(st.pair_info) : v.reserves[k] < Reserves(st)[k]
        => \A k \in Slots(st.pair_info) :
              LET due == (Reserves(st)[k] * burnt) \div st.total_supply
              IN  Reserves(st)[k] - v.reserves[k] \in {due - 1, due}

\* All of this, where it applies.
Ends(st, v) ==
    FairEnd(st, v) /\ (Paired => CurveEnd(st, v)) /\ (Precise => BalancedEnd(st, v))

\* Nobody may give the pair anything, so that its reserves are what was deposited.
Undonated == Gifts = {} \/ Pair \notin Receivers

\* There is some of every asset in the pool, or of none.
Whole(p, v) == \/ \A k \in Slots(p) : v.reserves[k] > 0
               \/ \A k \in Slots(p) : v.reserves[k] = 0

\* Before the pool is created the pair has nothing.
Unfunded(p, b) == p.asset_infos = << >> => \A a \in Assets : b[a][Pair] = 0

\* The transaction in progress may end as it is about to, or is bound to fail.
IInv ==
    /\ TxInv
    /\ pair_info \in Stored
    /\ committed.pair_info \in Stored
    /\ Backed(Outlook(pair_info, bal, total_supply, msgs))
    /\ Backed(View(committed))
    /\ Doomed(msgs) \/ Ends(committed, Outlook(pair_info, bal, total_supply, msgs))
    /\ Undonated => Unfunded(committed.pair_info, committed.bal)
    /\ Undonated /\ Untaxed =>
          /\ Whole(pair_info, Outlook(pair_info, bal, total_supply, msgs))
          /\ Whole(committed.pair_info, View(committed))

\* A step to the state p, b, s with the messages out left, whose outlook may be
\* committed.
Step(p, b, s, out) ==
    /\ Leaves(p, b, s, out)
    /\ p \in Stored
    /\ Backed(Outlook(p, b, s, out))
    /\ Doomed(out) \/ Ends(committed, Outlook(p, b, s, out))
    /\ Undonated => Unfunded(p, b)
    /\ Undonated /\ Untaxed => Whole(p, Outlook(p, b, s, out))

\* What such a step keeps.
Kept == /\ IInv'
        /\ \/ committed' = committed
           \/ /\ Ends(committed, View(committed'))
              /\ committed'.total_supply = total_supply'
              /\ committed.pair_info.asset_infos \in {committed'.pair_info.asset_infos, << >>}

\* What there is in a state of a pool, such as the one committed last.
LEMMA StateLemma ==
    ASSUME NEW st, StateOK(st.pair_info, st.bal, st.total_supply)
    PROVE  LET infos == st.pair_info.asset_infos
           IN  /\ st.total_supply \in Nat
               /\ Len(infos) \in Nat /\ infos \in Seq(Assets)
               /\ Slots(st.pair_info) = 1..Len(infos)
               /\ Pool(Reserves(st), Len(infos))
               /\ \A k \in Slots(st.pair_info) :
                     /\ infos[k] \in Assets
                     /\ Reserves(st)[k] = st.bal[infos[k]][Pair]
                     /\ Reserves(st)[k] \in Nat
                     /\ Reserves(st)[k] <= Circulation
  <1> DEFINE infos == st.pair_info.asset_infos
  <1>1. /\ Len(infos) \in Nat /\ infos \in Seq(Assets)
        /\ st.bal \in Ledgers /\ st.total_supply \in Nat
        /\ \A k \in Slots(st.pair_info) : /\ infos[k] \in Assets
                                          /\ st.bal[infos[k]][Pair] \in Nat
    BY InfosLemma
  <1>2. \A a \in Assets : st.bal[a][Pair] <= Circulation
    <2> SUFFICES ASSUME NEW a \in Assets PROVE st.bal[a][Pair] <= Circulation
      OBVIOUS
    <2>1. Held(st.bal, a) <= Circulation /\ a \in Tokens /\ Circulation \in Nat
      BY AccountsLemma, HeldLemma DEF StateOK
    <2>2. \A c \in Accounts : st.bal[a][c] \in Nat
      BY <1>1, <2>1, LedgerLemma
    <2> QED BY <2>1, <2>2, AccountsLemma DEF Held
  <1>3. \A k \in Slots(st.pair_info) :
           Reserves(st)[k] = st.bal[infos[k]][Pair]
    BY DEF Reserves, Slots
  <1>4. Len(Reserves(st)) = Len(infos)
    BY <1>1 DEF Reserves
  <1> QED BY <1>1, <1>2, <1>3, <1>4 DEF Pool, Slots

\* A transaction may end in anything that burns nothing and takes nothing.
LEMMA GrownLemma ==
    ASSUME NEW st, StateOK(st.pair_info, st.bal, st.total_supply), NEW v, v.supply \in Nat,
           \/ v.supply > st.total_supply
           \/ /\ v.supply = st.total_supply
              /\ \A k \in Slots(st.pair_info) :
                    v.reserves[k] >= Reserves(st)[k] /\ v.reserves[k] \in Nat
    PROVE  Ends(st, v)
  <1>1. /\ st.total_supply \in Nat
        /\ Slots(st.pair_info) = 1..Len(st.pair_info.asset_infos)
        /\ \A k \in Slots(st.pair_info) : Reserves(st)[k] \in Nat
    BY StateLemma
  <1>2. FairEnd(st, v)
    BY <1>1 DEF FairEnd
  <1>3. CurveEnd(st, v)
    <2> SUFFICES ASSUME Len(st.pair_info.asset_infos) = 2,
                        v.supply <= st.total_supply, NEW k \in 1..2,
                        v.reserves[k] < Reserves(st)[k]
                 PROVE  FALSE
      BY DEF CurveEnd
    <2> QED BY <1>1
  <1>4. BalancedEnd(st, v)
    BY <1>1 DEF BalancedEnd
  <1> QED BY <1>2, <1>3, <1>4 DEF Ends

\* A transaction may end where it began.
LEMMA StayLemma ==
    ASSUME TxInv
    PROVE  Ends(committed, View(committed))
  <1>1. StateOK(committed.pair_info, committed.bal, committed.total_supply)
    BY DEF TxInv, CommittedOK, TxOK
  <1>2. /\ committed.total_supply \in Nat
        /\ \A k \in Slots(committed.pair_info) : Reserves(committed)[k] \in Nat
    BY <1>1, StateLemma
  <1>3. /\ View(committed).supply = committed.total_supply
        /\ View(committed).reserves = Reserves(committed)
    BY DEF View
  <1> QED BY <1>1, <1>2, <1>3, GrownLemma

\* A step that may be taken keeps the invariant.
LEMMA StepLemma ==
    ASSUME IInv, NEW p, NEW b, NEW s, NEW out, Step(p, b, s, out)
    PROVE  Kept
  <1> DEFINE end == Outlook(p, b, s, out)
             now == Outlook(pair_info, bal, total_supply, msgs)
  <1>1. /\ TxInv /\ Leaves(p, b, s, out) /\ p \in Stored /\ Backed(end)
        /\ Doomed(out) \/ Ends(committed, end)
        /\ Undonated => Unfunded(p, b)
        /\ Undonated /\ Untaxed => Whole(p, end)
    BY DEF IInv, Step
  <1>2. /\ TxInv'
        /\ pair_info' = p /\ bal' = b /\ total_supply' = s /\ msgs' = out
        /\ \/ DOMAIN out # {} /\ committed' = committed
           \/ DOMAIN out = {} /\ View(committed') = end /\ committed'.pair_info = p
    BY <1>1, LeavesLemma
  <1>3. now' = end
    BY <1>2
  <1>4. /\ (Undonated <=> Undonated') /\ (Untaxed <=> Untaxed')
        /\ (Paired <=> Paired') /\ (Precise <=> Precise')
        /\ Whole(pair_info, now)' <=> Whole(p, end)
    BY <1>2, <1>3 DEF Undonated, Untaxed, Paired, Precise, Circulation, Whole
  <1> HIDE DEF end, now
  <1>5. CASE DOMAIN out # {} /\ committed' = committed
    <2>1. Doomed(msgs)' \/ Ends(committed, now)'
      <3>1. Doomed(out) => Doomed(msgs)'
        BY <1>2
      <3>2. Ends(committed, end) => Ends(committed, now)'
        BY <1>3, <1>4, <1>5 DEF Ends
      <3> QED BY <1>1, <3>1, <3>2
    <2> QED BY <1>1, <1>2, <1>3, <1>4, <1>5, <2>1 DEF IInv, Kept, now
  <1>6. CASE DOMAIN out = {} /\ View(committed') = end /\ committed'.pair_info = p
    <2>1. Ends(committed, end)
      BY <1>1, <1>6 DEF Doomed
    <2>2. committed'.total_supply = total_supply' /\ committed'.bal = bal'
          /\ committed.pair_info.asset_infos \in {p.asset_infos, << >>}
      BY <1>1, <1>2, <1>6 DEF Leaves, Become
    <2>3. StateOK(committed'.pair_info, committed'.bal, committed'.total_supply)
      BY <1>2 DEF TxInv, CommittedOK, TxOK
    <2>4. Ends(committed', View(committed'))
      <3>1. /\ committed'.total_supply \in Nat
            /\ \A k \in Slots(committed'.pair_info) : Reserves(committed')[k] \in Nat
        BY <2>3, StateLemma
      <3> QED BY <2>3, <3>1, GrownLemma DEF View
    <2>5. Ends(committed, now)'
      BY <1>3, <1>4, <1>6, <2>4 DEF Ends
    <2> QED BY <1>1, <1>2, <1>3, <1>4, <1>6, <2>1, <2>2, <2>5 DEF IInv, Kept, now
  <1> QED BY <1>2, <1>5, <1>6

\* What a handler finds: reserves behind the LP tokens, as committed last.
LEMMA FoundLemma ==
    ASSUME IInv, Ready
    PROVE  /\ TxInv /\ Idle /\ StateOK(pair_info, bal, total_supply)
           /\ StateOK(committed.pair_info, committed.bal, committed.total_supply)
           /\ Backed(View(committed))
           /\ total_supply \in Nat /\ bal \in Ledgers
           /\ pair_info \in Stored /\ pair_info \in PairInfos
           /\ pair_info.asset_infos # << >>
           /\ committed.pair_info = pair_info
           /\ committed.total_supply = total_supply
           /\ \A k \in 1..NCoins :
                 /\ Infos[k] \in Assets /\ Infos[k] \in Tokens
                 /\ Reserves(committed)[k] = bal[Infos[k]][Pair]
                 /\ bal[Infos[k]][Pair] \in Nat
                 /\ total_supply > 0 => bal[Infos[k]][Pair] > 0
           /\ pair_info.liquidity_token = LpToken
           /\ NCoins \in Nat \ {0} /\ 1..NCoins = Slots(pair_info)
           /\ LpPosition = NCoins + 1
           /\ Len(pair_info.asset_infos) = NCoins
  <1>1. TxInv /\ Idle /\ pair_info \in Stored
    BY DEF IInv, Ready
  <1>2. /\ StateOK(pair_info, bal, total_supply)
        /\ committed.pair_info = pair_info
        /\ View(committed) = [reserves |-> [k \in Slots(pair_info) |->
                                             bal[pair_info.asset_infos[k]][Pair]],
                              supply |-> total_supply]
        /\ pair_info.liquidity_token = LpToken
        /\ NCoins \in Nat \ {0} /\ 1..NCoins = Slots(pair_info)
        /\ LpPosition = NCoins + 1
    BY <1>1, ReadyLemma
  <1>3. total_supply \in Nat /\ bal \in Ledgers
    BY <1>2 DEF StateOK
  <1>4. /\ committed.total_supply = total_supply
        /\ Reserves(committed) = [k \in 1..NCoins |-> bal[Infos[k]][Pair]]
    BY <1>2 DEF View, Infos
  <1>5. \A k \in 1..NCoins : /\ Infos[k] \in Assets /\ Infos[k] \in Tokens
                             /\ bal[Infos[k]][Pair] \in Nat
    BY <1>2, InfosLemma DEF Infos
  <1>6. total_supply > 0 => \A k \in 1..NCoins : bal[Infos[k]][Pair] > 0
    <2>1. Backed(View(committed))
      BY DEF IInv
    <2> QED BY <1>2, <2>1 DEF Backed, Infos
  <1>7. StateOK(committed.pair_info, committed.bal, committed.total_supply)
    BY <1>1 DEF TxInv, CommittedOK, TxOK
  <1> QED BY <1>1, <1>2, <1>3, <1>4, <1>5, <1>6, <1>7
          DEF IInv, Ready, Stored, NCoins, Infos

\* Handlers of a pool that is there change the ledger and leave messages.
LEMMA HandledLemma ==
    ASSUME IInv, Ready, NEW b, NEW out,
           Become(pair_info, b, total_supply, out),
           TxOK(pair_info, b, total_supply, out),
           Backed(Outlook(pair_info, b, total_supply, out)),
           Doomed(out) \/ Ends(committed, Outlook(pair_info, b, total_supply, out)),
           Undonated /\ Untaxed =>
              Whole(pair_info, Outlook(pair_info, b, total_supply, out))
    PROVE  Kept
  <1>1. /\ committed.pair_info = pair_info /\ pair_info \in Stored
        /\ pair_info.asset_infos # << >>
    BY FoundLemma
  <1>2. Leaves(pair_info, b, total_supply, out) /\ Unfunded(pair_info, b)
    BY <1>1 DEF Leaves, Unfunded
  <1> QED BY <1>1, <1>2, StepLemma DEF Step

(***************************************************************************)
(* The handlers.                                                           *)
(***************************************************************************)
\* Creating a pool.
LEMMA InstantiateLemma ==
    ASSUME IInv, NEW msg \in InstantiateMsgs, instantiate(msg)
    PROVE  Kept
  <1> DEFINE p == [asset_infos |-> msg.asset_infos,
                   amplification |-> msg.amplification,
                   fee |-> msg.fee, liquidity_token |-> NoToken]
             out == [x \in {1} |-> Msg("Instantiate", LpToken, Pair, Pair, 0)]
  <1>1. Become(p, bal, total_supply, out)
    BY DEF instantiate
  <1>2. /\ msg \in [asset_infos : Seq(Assets), amplification : Nat, fee : Nat]
        /\ Len(msg.asset_infos) > 0
        /\ \A k, l \in 1..Len(msg.asset_infos) :
              msg.asset_infos[k] = msg.asset_infos[l] => k = l
    BY InstantiateAssumption
  <1>3. p \in PairInfos /\ p.asset_infos = msg.asset_infos
        /\ p.amplification = msg.amplification
        /\ p.liquidity_token = NoToken
        /\ {"asset_infos", "liquidity_token"} \subseteq DOMAIN p
    BY <1>2 DEF PairInfos
  <1>4. p \in Stored
    BY <1>3 DEF Stored
  <1>5. pair_info.asset_infos = << >> /\ TxInv
    BY DEF IInv, instantiate, NoPair
  <1>6. msg.asset_infos \in Seq(Assets) /\ msg.asset_infos # << >>
    BY <1>2
  <1> HIDE DEF p
  <1>7. /\ p.asset_infos \in Seq(Assets) /\ p.asset_infos # << >>
        /\ \A k, l \in Slots(p) : p.asset_infos[k] = p.asset_infos[l] => k = l
    BY <1>2, <1>3, <1>6 DEF Slots
  <1>8. /\ TxOK(p, bal, total_supply, out)
        /\ Outlook(p, bal, total_supply, out).supply = 0
        /\ \A k \in Slots(p) : Outlook(p, bal, total_supply, out).reserves[k]
                                  = bal[p.asset_infos[k]][Pair]
        /\ View(committed).supply = 0
        /\ committed.pair_info.asset_infos = << >>
    BY <1>3, <1>5, <1>7, CreateLemma
  <1> HIDE DEF out
  <1>9. committed.total_supply = 0
    BY <1>8 DEF View
  <1>10. Leaves(p, bal, total_supply, out)
    BY <1>1, <1>8 DEF Leaves
  <1>11. Backed(Outlook(p, bal, total_supply, out))
    BY <1>8, <1>9 DEF Backed
  <1>12. Ends(committed, Outlook(p, bal, total_supply, out))
    <2>1. StateOK(committed.pair_info, committed.bal, committed.total_supply)
      BY <1>5 DEF TxInv, CommittedOK, TxOK
    <2>2. Slots(committed.pair_info) = {}
      BY <1>8 DEF Slots
    <2> QED BY <1>8, <1>9, <2>1, <2>2, GrownLemma
  <1>13. ASSUME Undonated PROVE Whole(p, Outlook(p, bal, total_supply, out))
    <2>1. Idle
      BY <1>5, UncreatedLemma
    <2>2. committed.bal = bal
      BY <1>5, <2>1 DEF TxInv, CommittedOK
    <2>3. \A a \in Assets : bal[a][Pair] = 0
      BY <1>8, <1>13, <2>2 DEF IInv, Unfunded
    <2>4. \A k \in Slots(p) : p.asset_infos[k] \in Assets
      BY <1>7 DEF Slots
    <2> QED BY <1>8, <2>3, <2>4 DEF Whole
  <1>14. Unfunded(p, bal)
    BY <1>7 DEF Unfunded
  <1> QED BY <1>4, <1>10, <1>11, <1>12, <1>13, <1>14, StepLemma DEF Step

\* A transfer with no call.
LEMMA GiftLemma ==
    ASSUME IInv, NEW token \in Tokens, NEW user \in Users, NEW to \in Accounts,
           NEW amount \in Nat, transfer(token, user, to, amount), Undonated => to # Pair
    PROVE  Kept
  <1>1. TxInv /\ Idle /\ pair_info \in Stored /\ Backed(View(committed))
    BY DEF IInv, transfer
  <1>2. PICK b \in Ledgers : /\ Leaves(pair_info, b, total_supply, NoMsgs)
                             /\ \A a \in Assets :
                                   /\ b[a][Pair] >= bal[a][Pair]
                                   /\ to # Pair => b[a][Pair] = bal[a][Pair]
    BY <1>1, TransferLemma
  <1>3. TxOK(pair_info, b, total_supply, NoMsgs)
    BY <1>2 DEF Leaves
  <1>4. StateOK(pair_info, b, total_supply) /\ DOMAIN NoMsgs = {}
    BY <1>3 DEF TxOK, NoMsgs
  <1> DEFINE end == Outlook(pair_info, b, total_supply, NoMsgs)
  <1>5. end = View([pair_info |-> pair_info, bal |-> b, total_supply |-> total_supply])
    BY <1>4, QuietLemma
  <1>6. end = [reserves |-> [k \in Slots(pair_info) |-> b[pair_info.asset_infos[k]][Pair]],
               supply |-> total_supply]
    BY <1>5 DEF View, Reserves, Slots
  <1>7. /\ StateOK(pair_info, bal, total_supply)
        /\ View(committed) = [reserves |-> [k \in Slots(pair_info) |->
                                             bal[pair_info.asset_infos[k]][Pair]],
                              supply |-> total_supply]
    BY <1>1, ReadyLemma
  <1>8. Backed(end)
    <2> SUFFICES ASSUME total_supply > 0, NEW k \in Slots(pair_info)
                 PROVE  b[pair_info.asset_infos[k]][Pair] > 0
      BY <1>6 DEF Backed
    <2>1. /\ pair_info.asset_infos[k] \in Assets
          /\ bal[pair_info.asset_infos[k]][Pair] \in Nat
      BY <1>7, InfosLemma
    <2>2. b[pair_info.asset_infos[k]][Pair] \in Nat
      BY <1>4, InfosLemma
    <2>3. bal[pair_info.asset_infos[k]][Pair] > 0
      BY <1>1, <1>7 DEF Backed
    <2> QED BY <1>2, <2>1, <2>2, <2>3
  <1>9. /\ total_supply \in Nat /\ committed.total_supply = total_supply
        /\ committed.pair_info = pair_info /\ committed.bal = bal
        /\ \A k \in Slots(pair_info) :
              /\ pair_info.asset_infos[k] \in Assets
              /\ Reserves(committed)[k] = bal[pair_info.asset_infos[k]][Pair]
    <2>1. committed.bal = bal
      BY <1>1 DEF TxInv, CommittedOK
    <2> QED BY <1>1, <1>7, <2>1, InfosLemma, ReadyLemma DEF View, StateOK
  <1>10. Ends(committed, end)
    <2>1. \A k \in Slots(pair_info) : b[pair_info.asset_infos[k]][Pair] \in Nat
      BY <1>4, InfosLemma
    <2>2. \A k \in Slots(pair_info) : end.reserves[k] >= Reserves(committed)[k]
                                        /\ end.reserves[k] \in Nat
      BY <1>2, <1>6, <1>9, <2>1
    <2>3. end.supply = committed.total_supply /\ end.supply \in Nat
      BY <1>6, <1>9
    <2> HIDE DEF end
    <2> QED BY <1>7, <1>9, <2>2, <2>3, GrownLemma
  <1>11. ASSUME Undonated PROVE Unfunded(pair_info, b)
    BY <1>2, <1>9, <1>11 DEF IInv, Unfunded
  <1>12. ASSUME Undonated, Untaxed PROVE Whole(pair_info, end)
    <2>1. Whole(pair_info, View(committed))
      BY <1>9, <1>12 DEF IInv
    <2>2. \A k \in Slots(pair_info) : end.reserves[k] = View(committed).reserves[k]
      BY <1>2, <1>6, <1>9, <1>12 DEF View
    <2> HIDE DEF end
    <2> QED BY <2>1, <2>2 DEF Whole
  <1> QED BY <1>1, <1>2, <1>8, <1>10, <1>11, <1>12, StepLemma DEF Step

\* The curve of the pair is one of u64 fields.
LEMMA PairCurveLemma ==
    ASSUME pair_info \in PairInfos
    PROVE  PairCurve \in Curves
  <1>1. pair_info.amplification \in Int /\ pair_info.fee \in Int
    BY DEF PairInfos
  <1> QED BY <1>1, WidthLemma DEF PairCurve, Curves

\* A deposit.  That get_d finds a D means that no reserve is empty after it.
LEMMA ProvideLemma ==
    ASSUME IInv, NEW user \in Users, NEW amounts \in [1..NCoins -> Nat],
           NEW min_out_amount, NEW receiver \in Accounts,
           NEW funds \in [NativeTokens -> Nat],
           provide_liquidity(user, amounts, min_out_amount, receiver, funds)
    PROVE  Kept
  <1> DEFINE b == WithFunds(user, funds)
             pools == query_pools(b)
             old_balances ==
               [k \in 1..NCoins |->
                 Sub(pools[k], IF is_native_token(Infos[k]) THEN amounts[k] ELSE 0)]
             new_balances == [k \in 1..NCoins |-> Add(old_balances[k], amounts[k])]
             mint_amount == deposit(PairCurve, old_balances, new_balances,
                                    AsU64(total_supply))
             out == Intake(user, amounts, mint_amount, receiver)
             end == Outlook(pair_info, b, total_supply, out)
  <1>1. Ready /\ CanFund(user, funds)
    BY DEF provide_liquidity
  <1>2. /\ TxInv /\ StateOK(pair_info, bal, total_supply)
        /\ StateOK(committed.pair_info, committed.bal, committed.total_supply)
        /\ total_supply \in Nat /\ bal \in Ledgers
        /\ committed.total_supply = total_supply
        /\ NCoins \in Nat \ {0} /\ 1..NCoins = Slots(pair_info)
        /\ \A k \in 1..NCoins : Infos[k] \in Assets /\ Infos[k] \in Tokens
    BY <1>1, FoundLemma
  <1>3. /\ \A k \in 1..NCoins : new_balances[k] # None
        /\ mint_amount # None /\ mint_amount # 0
        /\ Become(pair_info, b, total_supply, out)
    BY Zenon DEF provide_liquidity, TakeDeposit, Intake
  <1>4. b \in Ledgers /\ StateOK(pair_info, b, total_supply)
    <2>1. b \in Ledgers /\ Keeps(b, bal)
      BY <1>1, <1>2, FundsLemma
    <2> QED BY <1>2, <2>1, KeepsLemma
  <1> HIDE DEF b
  <1>5. \A k \in 1..NCoins : /\ b[Infos[k]][Pair] \in Nat
                             /\ amounts[k] \in Nat
                             /\ pools[k] = b[Infos[k]][Pair]
    BY <1>2, <1>4, LedgerLemma, AccountsLemma DEF query_pools
  <1>6. mint_amount \in Nat /\ \A k \in 1..Len(new_balances) : new_balances[k] # 0
    BY <1>3, DepositLemma, WidthLemma DEF Option
  <1>7. Len(new_balances) = NCoins
    BY <1>2
  <1>8. \A k \in 1..NCoins :
          /\ is_native_token(Infos[k]) => b[Infos[k]][Pair] > 0
          /\ ~is_native_token(Infos[k]) => b[Infos[k]][Pair] + amounts[k] > 0
    <2> SUFFICES ASSUME NEW k \in 1..NCoins
                 PROVE  /\ is_native_token(Infos[k]) => b[Infos[k]][Pair] > 0
                        /\ ~is_native_token(Infos[k]) => b[Infos[k]][Pair] + amounts[k] > 0
      OBVIOUS
    <2> DEFINE a == amounts[k]
               n == b[Infos[k]][Pair]
               less == IF is_native_token(Infos[k]) THEN a ELSE 0
               old == Sub(n, less)
               new == Add(old, a)
    <2>1. new_balances[k] = new
      BY <1>5
    <2>2. new # None /\ new # 0
      BY <1>3, <1>6, <1>7, <2>1
    <2>3. n \in Nat /\ a \in Nat /\ less \in Nat
      BY <1>5
    <2> HIDE DEF n, a, less, mint_amount, new_balances
    <2>4. n \in OptNat /\ a \in OptNat /\ less \in OptNat
      BY <2>3 DEF OptNat, Option
    <2>5. old \in Option(U128) /\ (old # None => old = n - less)
      BY <2>4, AddSubLemma
    <2>6. old \in OptNat
      BY <2>5, WidthLemma DEF OptNat, Option
    <2> HIDE DEF old
    <2>7. new \in Option(U128) /\ old \in Nat /\ new = old + a
      BY <2>2, <2>4, <2>6, AddSubLemma
    <2>8. new = n - less + a
      BY <2>3, <2>5, <2>7, WidthLemma
    <2>9. n - less + a > 0
      BY <2>2, <2>3, <2>7, <2>8, WidthLemma DEF Option
    <2> QED BY <2>3, <2>9 DEF n, a, less
  <1> HIDE DEF mint_amount, old_balances, new_balances, pools, out
  <1>9. /\ TxOK(pair_info, b, total_supply, out)
        /\ end = [reserves |-> Fed(b, amounts), supply |-> total_supply + mint_amount]
    <2>1. \A k \in 1..NCoins : amounts[k] \in Nat
      BY <1>5
    <2>2. mint_amount \in Nat
      BY <1>6
    <2> HIDE DEF end
    <2>3. TxInv /\ Ready /\ StateOK(pair_info, b, total_supply)
      BY <1>1, <1>2, <1>4
    <2> QED BY <2>1, <2>2, <2>3, TakeDepositLemma, Zenon DEF out, end
  <1> HIDE DEF end
  <1>10. \A k \in 1..NCoins : Fed(b, amounts)[k] > 0
    BY <1>5, <1>8 DEF Fed
  <1>11. Backed(end)
    BY <1>9, <1>10 DEF Backed, Fed
  <1>12. Ends(committed, end)
    <2>1. end.supply \in Nat /\ end.supply > committed.total_supply
      BY <1>2, <1>3, <1>6, <1>9
    <2> QED BY <1>2, <2>1, GrownLemma
  <1>13. Whole(pair_info, end)
    BY <1>2, <1>9, <1>10 DEF Whole, Fed
  <1> QED BY <1>1, <1>3, <1>9, <1>11, <1>12, <1>13, HandledLemma DEF end

\* Two numbers are a sequence.
LEMMA CoupleLemma ==
    ASSUME NEW f \in [1..2 -> Nat]
    PROVE  f \in Seq(Nat)
  <1>1. [1..2 -> Nat] \in {[1..n -> Nat] : n \in Nat}
    OBVIOUS
  <1>2. f \in UNION {[1..n -> Nat] : n \in Nat}
    BY <1>1, Zenon
  <1> QED BY <1>2, SeqDef, Zenon

\* A pool asset is found at its position.
LEMMA IndexLemma ==
    ASSUME StateOK(pair_info, bal, total_supply), NEW k \in 1..NCoins
    PROVE  InPool(Infos[k]) /\ IndexOf(Infos[k]) = k
  <1>1. \A l \in 1..NCoins : Infos[l] = Infos[k] => l = k
    BY DEF StateOK, Slots, Infos, NCoins
  <1> QED BY <1>1, Zenon DEF InPool, IndexOf

\* Of two assets one is offered for the other, on the ledger b that it has been
\* added to.
Offered(b, offer, offer_amount, ask) ==
    \E k \in 1..2 :
       /\ offer = Infos[k] /\ ask = Infos[3 - k]
       /\ \A l \in 1..2 : b[Infos[l]][Pair]
                              = bal[Infos[l]][Pair] + IF l = k THEN offer_amount ELSE 0

\* A swap, whatever is offered and asked for.  exchange keeps back a unit.
LEMMA SwapLemma ==
    ASSUME IInv, Ready, NEW b \in Ledgers, Keeps(b, bal),
           \A a \in Assets : b[a][Pair] >= bal[a][Pair],
           NEW offer, NEW offer_amount \in Nat, NEW ask, NEW min_out_amount,
           NEW to \in Accounts,
           swap(b, offer, offer_amount, ask, min_out_amount, to),
           Paired /\ NCoins = 2 => Offered(b, offer, offer_amount, ask)
    PROVE  Kept
  <1> DEFINE i == IF InPool(offer) THEN IndexOf(offer) ELSE 1
             j == IF InPool(ask) /\ ask # offer THEN IndexOf(ask) ELSE 1
             balances == [k \in 1..NCoins |->
                           Sub(query_pools(b)[k],
                               IF Infos[k] = offer THEN offer_amount ELSE 0)]
             return_amount == exchange(PairCurve, i, j, AsU64(offer_amount), balances)
             m == into_msg(Infos[j], return_amount, Pair, to)
             out == [x \in {j} |-> m]
             end == Outlook(pair_info, b, total_supply, out)
  <1>1. /\ TxInv /\ StateOK(pair_info, bal, total_supply)
        /\ total_supply \in Nat /\ pair_info \in PairInfos
        /\ committed.total_supply = total_supply /\ committed.pair_info = pair_info
        /\ NCoins \in Nat \ {0} /\ 1..NCoins = Slots(pair_info)
        /\ Len(pair_info.asset_infos) = NCoins
        /\ \A k \in 1..NCoins : /\ Infos[k] \in Assets /\ Infos[k] \in Tokens
                                /\ Reserves(committed)[k] = bal[Infos[k]][Pair]
                                /\ bal[Infos[k]][Pair] \in Nat
                                /\ total_supply > 0 => bal[Infos[k]][Pair] > 0
    BY FoundLemma
  <1>2. StateOK(pair_info, b, total_supply)
    BY <1>1, KeepsLemma
  <1>3. j \in 1..NCoins
    <2>1. 1 \in 1..NCoins
      BY <1>1
    <2>2. InPool(ask) => IndexOf(ask) \in 1..NCoins
      BY Zenon DEF InPool, IndexOf
    <2> QED BY <2>1, <2>2, Zenon
  <1>4. /\ return_amount # None /\ Become(pair_info, b, total_supply, out)
        /\ \A k \in 1..NCoins : balances[k] # None
    BY Zenon DEF swap, PayReturn
  <1>5. ASSUME NEW o \in 1..2, NCoins = 2, offer = Infos[o], ask = Infos[3 - o]
        PROVE  i = o /\ j = 3 - o
    <2>1. o \in 1..NCoins /\ 3 - o \in 1..NCoins /\ o # 3 - o
      BY <1>5
    <2>2. /\ InPool(offer) /\ IndexOf(offer) = o
          /\ InPool(ask) /\ IndexOf(ask) = 3 - o
      BY <1>5, <1>1, <2>1, IndexLemma
    <2>3. ask # offer
      BY <2>1, <2>2
    <2> QED BY <2>2, <2>3
  <1> HIDE DEF i, j
  <1>6. \A k \in 1..NCoins : /\ b[Infos[k]][Pair] \in Nat
                             /\ query_pools(b)[k] = b[Infos[k]][Pair]
                             /\ total_supply > 0 => b[Infos[k]][Pair] > 0
    <2>1. \A k \in 1..NCoins : b[Infos[k]][Pair] \in Nat
      BY <1>1, LedgerLemma, AccountsLemma
    <2> QED BY <1>1, <2>1, SMTT(30) DEF query_pools
  <1> DEFINE n == b[Infos[j]][Pair]
             less == IF Infos[j] = offer THEN offer_amount ELSE 0
  <1>7. balances[j] = Sub(n, less) /\ n \in Nat /\ less \in Nat
    BY <1>3, <1>6
  <1>8. balances[j] \in OptNat /\ (balances[j] \in Nat => balances[j] <= n)
    <2> HIDE DEF n, less, balances
    <2>1. n \in OptNat /\ less \in OptNat
      BY <1>7 DEF OptNat, Option
    <2>2. Sub(n, less) \in Option(U128) /\ (Sub(n, less) # None => Sub(n, less) = n - less)
      BY <2>1, AddSubLemma
    <2> QED BY <1>7, <2>2, WidthLemma DEF OptNat, Option
  <1>9. return_amount \in Nat /\ return_amount < n
    <2>1. PairCurve \in Curves
      BY <1>1, PairCurveLemma
    <2> HIDE DEF n, less, balances
    <2>2. /\ return_amount \in Option(U128)
          /\ return_amount # None => balances[j] \in Nat /\ return_amount < balances[j]
      BY <1>8, <2>1, ExchangeLemma
    <2> HIDE DEF return_amount
    <2>3. return_amount \in Nat /\ balances[j] \in Nat /\ return_amount < balances[j]
      BY <1>4, <2>2, WidthLemma DEF Option
    <2> QED BY <1>7, <1>8, <2>3
  <1> DEFINE there == \A k \in 1..NCoins : b[Infos[k]][Pair] > 0
  <1>10. there
    <2>1. /\ PairCurve \in Curves /\ Pool(balances, NCoins)
          /\ \A k \in 1..NCoins : balances[k] <= b[Infos[k]][Pair]
      <3>1. PairCurve \in Curves
        BY <1>1, PairCurveLemma
      <3>2. ASSUME NEW k \in 1..NCoins
            PROVE  balances[k] \in Nat /\ balances[k] <= b[Infos[k]][Pair]
        <4> DEFINE u == b[Infos[k]][Pair]
                   w == IF Infos[k] = offer THEN offer_amount ELSE 0
        <4>1. balances[k] = Sub(u, w) /\ u \in OptNat /\ w \in OptNat /\ balances[k] # None
              /\ u \in Nat /\ w \in Nat
          BY <1>4, <1>6 DEF OptNat, Option
        <4> HIDE DEF u, w, balances
        <4>2. Sub(u, w) = u - w /\ w <= u
          BY <4>1, AddSubLemma
        <4> QED BY <4>1, <4>2 DEF u
      <3>3. Len(balances) = NCoins
        BY <1>1
      <3> HIDE DEF balances
      <3> QED BY <1>1, <3>1, <3>2, <3>3 DEF Pool
    <2> HIDE DEF balances
    <2>2. \A k \in 1..NCoins : balances[k] > 0
      BY <1>3, <1>4, <2>1, ExchangedLemma
    <2>3. \A k \in 1..NCoins : balances[k] \in Nat
      BY <2>1 DEF Pool
    <2> QED BY <1>6, <2>1, <2>2, <2>3
  <1>11. ASSUME NEW o \in 1..2, NCoins = 2, offer = Infos[o], ask = Infos[3 - o],
                \A l \in 1..2 : b[Infos[l]][Pair] =
                    bal[Infos[l]][Pair] + IF l = o THEN offer_amount ELSE 0
         PROVE  /\ j = 3 - o
                /\ \A e \in 0..Invariant(committed) : \A x, y \in Nat :
                      /\ x >= bal[Infos[o]][Pair] + offer_amount
                      /\ y >= bal[Infos[j]][Pair] - return_amount + 1
                      => UpTo(CurveOf(pair_info).amp, e, x, y)
    <2>1. i = o /\ j = 3 - o /\ i \in 1..2 /\ j \in 1..2 /\ i # j
      BY <1>5, <1>11
    <2>2. \A k \in 1..2 : balances[k] = bal[Infos[k]][Pair] /\ bal[Infos[k]][Pair] \in Nat
      <3> SUFFICES ASSUME NEW k \in 1..2
                   PROVE  balances[k] = bal[Infos[k]][Pair] /\ bal[Infos[k]][Pair] \in Nat
        OBVIOUS
      <3> DEFINE u == b[Infos[k]][Pair]
                 v == bal[Infos[k]][Pair]
                 w == IF Infos[k] = offer THEN offer_amount ELSE 0
      <3>1. o \in 1..NCoins /\ k \in 1..NCoins
        BY <1>11
      <3>2. Infos[k] = offer <=> k = o
        BY <1>1, <1>11, <3>1, IndexLemma
      <3>3. u = v + w /\ v \in Nat /\ w \in Nat /\ u \in Nat
        BY <1>1, <1>11, <3>1, <3>2
      <3>4. balances[k] = Sub(u, w) /\ balances[k] # None
        BY <1>4, <1>6, <3>1
      <3> HIDE DEF u, v, w, balances
      <3>5. u \in OptNat /\ w \in OptNat
        BY <3>3 DEF OptNat, Option
      <3>6. Sub(u, w) = u - w
        BY <3>4, <3>5, AddSubLemma
      <3> QED BY <3>3, <3>4, <3>6 DEF v
    <2>3. balances = Reserves(committed) /\ Pool(balances, 2) /\ balances \in Seq(Nat)
      <3>1. balances = [k \in 1..2 |-> balances[k]] /\ Len(balances) = 2
        BY <1>11
      <3>2. Reserves(committed) = [k \in 1..2 |-> Reserves(committed)[k]]
        BY <1>1, <1>11 DEF Reserves
      <3>3. \A k \in 1..2 : Reserves(committed)[k] = bal[Infos[k]][Pair]
        BY <1>1, <1>11
      <3> HIDE DEF balances
      <3>4. balances \in [1..2 -> Nat]
        BY <2>2, <3>1
      <3>5. balances \in Seq(Nat)
        BY <3>4, CoupleLemma
      <3> QED BY <2>2, <3>1, <3>2, <3>3, <3>5 DEF Pool
    <2>4. PairCurve \in Curves /\ PairCurve = CurveOf(pair_info)
      BY <1>1, PairCurveLemma DEF PairCurve, CurveOf
    <2>5. get_d(PairCurve, balances, None) = Invariant(committed)
      BY <1>1, <2>3, <2>4 DEF Invariant, Worth
    <2>6. AsU64(offer_amount) \in Nat /\ AsU64(offer_amount) <= offer_amount
      BY WidthAssumption, SMT DEF AsU64
    <2> HIDE DEF balances
    <2>7. \A e \in 0..Invariant(committed) : \A x, y \in Nat :
             x >= balances[i] + AsU64(offer_amount) /\ y >= balances[j] - return_amount + 1 =>
                UpTo(PairCurve.amp, e, x, y)
      BY <1>4, <2>1, <2>3, <2>4, <2>5, <2>6, SwapOnCurveLemma
    <2> HIDE DEF return_amount
    <2>8. \A x \in Nat : x >= bal[Infos[o]][Pair] + offer_amount =>
                             x >= balances[i] + AsU64(offer_amount)
      BY <2>1, <2>2, <2>6
    <2> QED BY <2>1, <2>2, <2>4, <2>7, <2>8
  <1> HIDE DEF return_amount, balances, less, there
  <1>12. /\ m \in Messages /\ m.amount \in Nat
         /\ m.type \in Payouts /\ m.asset = Infos[j] /\ m.from = Pair
         /\ Cost(m) \in Nat /\ Cost(m) < n /\ Cost(m) <= return_amount
    <2>1. Infos[j] \in Assets
      BY <1>1, <1>3
    <2>2. /\ m \in Messages /\ m.amount \in Nat
          /\ m.type \in Payouts /\ m.asset = Infos[j] /\ m.from = Pair
          /\ Cost(m) \in Nat /\ Cost(m) <= return_amount
      BY <1>9, <2>1, PayoutLemma
    <2> HIDE DEF n, m
    <2> QED BY <1>7, <1>9, <2>2
  <1> HIDE DEF m
  <1>13. out[j] = m /\ out \in [{j} -> Messages]
    BY <1>12
  <1> HIDE DEF out
  <1>14. /\ TxOK(pair_info, b, total_supply, out)
         /\ end = [reserves |-> Paid(b, {j}, out), supply |-> total_supply]
    <2>1. b[LpToken][Pair] \in Nat
      BY LedgerLemma, AccountsLemma
    <2>2. Paying(b, {j}, {}, 0, out)
      BY <1>3, <1>7, <1>12, <1>13, <2>1 DEF Paying
    <2>3. total_supply - 0 = total_supply
      BY <1>1
    <2> QED BY <1>1, <1>2, <2>2, <2>3, PayLemma
  <1> HIDE DEF end
  <1>15. ASSUME NEW k \in 1..NCoins
         PROVE  /\ Paid(b, {j}, out)[k] \in Nat /\ Paid(b, {j}, out)[k] > 0
                /\ k # j => Paid(b, {j}, out)[k] = b[Infos[k]][Pair]
                /\ k = j => Paid(b, {j}, out)[k] >= n - return_amount
    <2>1. b[Infos[k]][Pair] \in Nat /\ b[Infos[k]][Pair] > 0
      BY <1>6, <1>10 DEF there
    <2>2. CASE k = j
      <3>1. Paid(b, {j}, out)[k] = n + ((IF m.to = Pair THEN m.amount ELSE 0) - Cost(m))
        BY <1>13, <2>2 DEF Paid
      <3> HIDE DEF n
      <3> QED BY <1>7, <1>9, <1>12, <2>2, <3>1
    <2>3. CASE k # j
      <3>1. Paid(b, {j}, out)[k] = b[Infos[k]][Pair] + 0
        BY <2>3 DEF Paid
      <3> QED BY <2>1, <2>3, <3>1
    <2> QED BY <2>2, <2>3
  <1>16. \A k \in 1..NCoins : end.reserves[k] = Paid(b, {j}, out)[k]
    BY <1>14
  <1>17. Backed(end) /\ Whole(pair_info, end)
    BY <1>1, <1>14, <1>15 DEF Backed, Whole, Paid
  <1>18. ASSUME Paired PROVE CurveEnd(committed, end)
    <2> SUFFICES ASSUME NCoins = 2, NEW k \in 1..2,
                        end.reserves[k] < Reserves(committed)[k],
                        NEW d \in 0..Invariant(committed)
                 PROVE  UpTo(CurveOf(pair_info).amp, d, end.reserves[3 - k],
                             end.reserves[k] + 1)
      BY <1>1, Zenon DEF CurveEnd
    <2>1. PICK o \in 1..2 :
             /\ offer = Infos[o] /\ ask = Infos[3 - o]
             /\ \A l \in 1..2 : b[Infos[l]][Pair] =
                    bal[Infos[l]][Pair] + IF l = o THEN offer_amount ELSE 0
      BY <1>18 DEF Offered
    <2>2. /\ j = 3 - o
          /\ \A e \in 0..Invariant(committed) : \A x, y \in Nat :
                /\ x >= bal[Infos[o]][Pair] + offer_amount
                /\ y >= bal[Infos[j]][Pair] - return_amount + 1
                => UpTo(CurveOf(pair_info).amp, e, x, y)
      BY <1>11, <2>1
    <2>3. /\ k \in 1..NCoins /\ o \in 1..NCoins /\ j \in 1..NCoins /\ o # j
          /\ j # o /\ (k # j => k = o) /\ 3 - j = o
      BY <1>3, <2>2
    <2>4. \A l \in 1..2 : bal[Infos[l]][Pair] \in Nat
      BY <1>1
    <2>5. k = j
      <3>1. SUFFICES ASSUME k # j PROVE FALSE
        OBVIOUS
      <3>2. end.reserves[k] = bal[Infos[k]][Pair] + offer_amount
        BY <1>15, <1>16, <2>1, <2>3, <3>1
      <3> QED BY <1>1, <2>3, <2>4, <3>2
    <2>6. end.reserves[o] \in Nat /\ end.reserves[o] = bal[Infos[o]][Pair] + offer_amount
      BY <1>15, <1>16, <2>1, <2>3
    <2>7. n = bal[Infos[j]][Pair]
      BY <2>1, <2>3, <2>4
    <2> HIDE DEF n
    <2>8. /\ end.reserves[j] + 1 \in Nat
          /\ end.reserves[j] + 1 >= bal[Infos[j]][Pair] - return_amount + 1
      BY <1>7, <1>9, <1>15, <1>16, <2>3, <2>7
    <2> QED BY <2>2, <2>3, <2>5, <2>6, <2>8
  <1>19. Ends(committed, end)
    <2>1. end.supply = committed.total_supply /\ end.supply \in Nat
      BY <1>1, <1>14
    <2>2. FairEnd(committed, end) /\ BalancedEnd(committed, end)
      BY <2>1 DEF FairEnd, BalancedEnd
    <2> QED BY <1>18, <2>2 DEF Ends
  <1> QED BY <1>4, <1>14, <1>17, <1>19, HandledLemma DEF end

\* A balanced withdrawal.
LEMMA BalancedLemma ==
    ASSUME IInv, NEW token, NEW user \in Users, NEW amount \in Nat,
           withdraw_liquidity(token, user, amount)
    PROVE  Kept
  <1> DEFINE b == Moved(bal, token, user, Pair, amount)
             out == Redemption(b, user, amount)
             end == Outlook(pair_info, b, total_supply, out)
  <1>1. Send(token, user, amount) /\ token = pair_info.liquidity_token
        /\ Become(pair_info, b, total_supply, out)
    BY Zenon DEF withdraw_liquidity, Redemption
  <1>2. Ready
    BY <1>1 DEF Send
  <1>3. /\ TxInv /\ total_supply \in Nat
        /\ committed.total_supply = total_supply
        /\ committed.pair_info = pair_info
        /\ NCoins \in Nat \ {0} /\ 1..NCoins = Slots(pair_info)
        /\ Len(pair_info.asset_infos) = NCoins
        /\ \A k \in 1..NCoins : /\ Reserves(committed)[k] = bal[Infos[k]][Pair]
                                /\ Reserves(committed)[k] <= Circulation
                                /\ bal[Infos[k]][Pair] \in Nat
                                /\ total_supply > 0 => bal[Infos[k]][Pair] > 0
    BY <1>2, FoundLemma, StateLemma
  <1> HIDE DEF b
  <1>4. /\ TxOK(pair_info, b, total_supply, out)
        /\ end.reserves = [k \in 1..NCoins |-> end.reserves[k]]
        /\ end.supply \in Nat /\ end.supply < total_supply
        /\ \A k \in 1..NCoins :
              /\ end.reserves[k] * total_supply >= bal[Infos[k]][Pair] * end.supply
              /\ end.supply > 0 /\ bal[Infos[k]][Pair] > 0 => end.reserves[k] > 0
              /\ end.reserves[k] < bal[Infos[k]][Pair] \/ Doomed(out)
              /\ end.reserves[k] \in Nat
              /\ Untaxed =>
                    end.reserves[k] = bal[Infos[k]][Pair]
                       - Scaled(bal[Infos[k]][Pair],
                                FromRatio(total_supply - end.supply, total_supply))
    <2>1. TxOK(pair_info, b, total_supply, out) /\ Redeemed(end, out)
      BY <1>1, <1>3, RedeemLemma, Zenon DEF b
    <2> HIDE DEF out, end
    <2> QED BY <2>1 DEF Redeemed
  <1> HIDE DEF out, end
  <1>5. Backed(end)
    BY <1>3, <1>4 DEF Backed
  <1>6. FairEnd(committed, end)
    BY <1>3, <1>4 DEF FairEnd
  <1>7. ~Doomed(out) => CurveEnd(committed, end)
    <2> SUFFICES ASSUME ~Doomed(out), NCoins = 2, NEW k \in 1..2,
                        end.reserves[3 - k] >= Reserves(committed)[3 - k]
                 PROVE  FALSE
      BY <1>3, Zenon DEF CurveEnd
    <2>1. 3 - k \in 1..NCoins
      OBVIOUS
    <2> QED BY <1>3, <1>4, <2>1
  <1> DEFINE burnt == total_supply - end.supply
  <1>8. burnt \in Nat /\ burnt > 0 /\ burnt <= total_supply
    BY <1>3, <1>4
  <1>9. ASSUME NEW k \in 1..NCoins, Untaxed
        PROVE  LET pool == Reserves(committed)[k]
                   due == (pool * burnt) \div total_supply
               IN  /\ pool <= DECIMAL_FRACTION => pool - end.reserves[k] \in {due - 1, due}
                   /\ end.supply = 0 => end.reserves[k] = 0
    <2> DEFINE pool == bal[Infos[k]][Pair]
               refund == Scaled(pool, FromRatio(burnt, total_supply))
               due == (pool * burnt) \div total_supply
    <2>1. pool \in Nat /\ pool = Reserves(committed)[k] /\ end.reserves[k] \in Nat
          /\ end.reserves[k] = pool - refund
      BY <1>3, <1>4, <1>9
    <2> HIDE DEF pool, burnt
    <2>2. refund \in Nat
      <3>1. total_supply > 0
        BY <1>3, <1>8
      <3> QED BY <1>3, <1>8, <2>1, <3>1, RefundLemma
    <2>3. /\ pool <= DECIMAL_FRACTION => refund \in {due - 1, due}
          /\ burnt = total_supply => refund = pool
      <3>1. /\ pool \in Nat /\ burnt \in Nat /\ total_supply \in Nat
            /\ total_supply > 0 /\ burnt <= total_supply
        BY <1>3, <1>8, <2>1
      <3> QED BY <3>1, ShareLemma, Zenon
    <2> HIDE DEF refund, due
    <2>4. end.supply = 0 => burnt = total_supply
      BY <1>3 DEF burnt
    <2>5. pool - end.reserves[k] = refund
      BY <2>1, <2>2
    <2> QED BY <2>1, <2>2, <2>3, <2>4, <2>5 DEF due
  <1>10. Precise => BalancedEnd(committed, end)
    <2> SUFFICES ASSUME Precise, NEW k \in 1..NCoins
                 PROVE  LET due == (Reserves(committed)[k] * burnt) \div total_supply
                        IN  Reserves(committed)[k] - end.reserves[k] \in {due - 1, due}
      BY <1>3, Zenon DEF BalancedEnd
    <2>1. Untaxed /\ Reserves(committed)[k] <= DECIMAL_FRACTION
      <3>1. Circulation \in Nat /\ DECIMAL_FRACTION \in Nat /\ Reserves(committed)[k] \in Nat
        BY <1>3, HeldLemma, AssetAssumption
      <3> QED BY <1>3, <3>1 DEF Precise
    <2> QED BY <1>9, <2>1
  <1>11. Untaxed => Whole(pair_info, end)
    <2>1. CASE end.supply > 0
      <3>1. total_supply > 0
        BY <1>3, <1>4, <2>1
      <3> QED BY <1>3, <1>4, <2>1, <3>1 DEF Whole
    <2>2. CASE end.supply = 0
      BY <1>3, <1>9, <2>2 DEF Whole
    <2> QED BY <1>4, <2>1, <2>2
  <1>12. Doomed(out) \/ Ends(committed, end)
    BY <1>6, <1>7, <1>10 DEF Ends
  <1> QED BY <1>1, <1>2, <1>4, <1>5, <1>11, <1>12, HandledLemma DEF end

\* A withdrawal in one asset.
LEMMA SingleLemma ==
    ASSUME IInv, NEW token, NEW user \in Users, NEW amount \in Nat, NEW asset,
           NEW min_out_amount,
           withdraw_single_liquidity(token, user, amount, asset, min_out_amount)
    PROVE  Kept
  <1> DEFINE b == Moved(bal, token, user, Pair, amount)
             i == IndexOf(asset)
             out_amount == remove_liquidity_single_token(
                               PairCurve, query_pools(b), AsU64(amount), i,
                               AsU64(total_supply))
             m == into_msg(Infos[i], out_amount, Pair, pair_info.liquidity_token)
             out == [x \in {i, LpPosition} |->
                      IF x = LpPosition
                      THEN Msg("Burn", pair_info.liquidity_token, Pair, Pair, amount)
                      ELSE m]
             end == Outlook(pair_info, b, total_supply, out)
  <1>1. /\ Send(token, user, amount) /\ token = pair_info.liquidity_token
        /\ InPool(asset) /\ out_amount # None
        /\ Become(pair_info, b, total_supply, out)
    BY Zenon DEF withdraw_single_liquidity, PaySingle
  <1>2. Ready
    BY <1>1 DEF Send
  <1>3. /\ TxInv /\ total_supply \in Nat /\ pair_info \in PairInfos
        /\ pair_info.liquidity_token = LpToken
        /\ committed.total_supply = total_supply
        /\ committed.pair_info = pair_info
        /\ NCoins \in Nat \ {0} /\ 1..NCoins = Slots(pair_info)
        /\ LpPosition = NCoins + 1 /\ Len(pair_info.asset_infos) = NCoins
        /\ Reserves(committed) = [k \in 1..NCoins |-> Reserves(committed)[k]]
        /\ \A k \in 1..NCoins : /\ Infos[k] \in Assets
                                /\ Reserves(committed)[k] = bal[Infos[k]][Pair]
                                /\ bal[Infos[k]][Pair] \in Nat
                                /\ total_supply > 0 => bal[Infos[k]][Pair] > 0
    BY <1>2, FoundLemma, Zenon DEF Reserves
  <1>4. /\ StateOK(pair_info, b, total_supply)
        /\ amount <= b[LpToken][Pair] /\ amount > 0 /\ amount <= total_supply
        /\ \A a \in Assets : b[a] = bal[a]
    BY <1>1, <1>3, SentLemma
  <1>5. i \in 1..NCoins /\ Infos[i] = asset
    BY <1>1, Zenon DEF InPool, IndexOf
  <1> HIDE DEF b, i
  <1> DEFINE pool == b[asset][Pair]
  <1>6. /\ asset \in Assets /\ pool \in Nat /\ query_pools(b)[i] = pool
        /\ Len(query_pools(b)) = NCoins
    BY <1>3, <1>4, <1>5 DEF query_pools
  <1>7. out_amount \in Nat /\ out_amount < pool
    <2>1. PairCurve \in Curves
      BY <1>3, PairCurveLemma
    <2>2. out_amount \in Option(U64) /\ out_amount < query_pools(b)[i]
      BY <1>1, <1>3, <1>5, <1>6, <2>1, RemoveSingleLemma
    <2> QED BY <1>1, <1>6, <2>2, WidthLemma DEF Option
  <1>8. ASSUME NCoins = 2, total_supply \in U64
        PROVE  \A e, x, y \in Nat :
                  /\ e * total_supply <= Invariant(committed) * (total_supply - amount)
                  /\ x >= Reserves(committed)[3 - i] /\ y >= pool - out_amount + 1
                  => UpTo(CurveOf(pair_info).amp, e, x, y)
    <2>1. PairCurve \in Curves /\ PairCurve = CurveOf(pair_info)
      BY <1>3, PairCurveLemma DEF PairCurve, CurveOf
    <2>2. AsU64(total_supply) = total_supply /\ AsU64(amount) = amount
      <3>1. \A v \in U64 : AsU64(v) = v
        BY WidthAssumption, SMT DEF AsU64, U64
      <3>2. amount \in U64
        BY <1>3, <1>4, <1>8, WidthAssumption DEF U64
      <3> QED BY <1>8, <3>1, <3>2
    <2>3. /\ query_pools(b) = Reserves(committed) /\ query_pools(b) \in Seq(Nat)
          /\ Pool(query_pools(b), 2) /\ i \in 1..2
      <3>1. query_pools(b) = [k \in 1..2 |-> b[Infos[k]][Pair]]
        BY <1>8 DEF query_pools
      <3>2. \A k \in 1..2 : /\ b[Infos[k]][Pair] = Reserves(committed)[k]
                             /\ b[Infos[k]][Pair] \in Nat
        BY <1>3, <1>4, <1>8
      <3>3. query_pools(b) \in [1..2 -> Nat]
        BY <3>1, <3>2
      <3>4. query_pools(b) = Reserves(committed)
        BY <1>3, <1>8, <3>1, <3>2
      <3>5. query_pools(b) \in Seq(Nat)
        BY <3>3, CoupleLemma
      <3> QED BY <1>5, <1>8, <3>3, <3>4, <3>5 DEF Pool
    <2>4. get_d(PairCurve, query_pools(b), None) = Invariant(committed)
      BY <1>3, <2>1, <2>3 DEF Invariant, Worth
    <2>5. out_amount = remove_liquidity_single_token(PairCurve, query_pools(b), amount, i,
                                                     total_supply)
      BY <2>2
    <2> HIDE DEF out_amount
    <2>6. \A e, x, y \in Nat :
             /\ e * total_supply <= Invariant(committed) * (total_supply - amount)
             /\ x >= query_pools(b)[3 - i] /\ y >= query_pools(b)[i] - out_amount + 1
             => UpTo(PairCurve.amp, e, x, y)
      BY <1>1, <1>3, <2>1, <2>3, <2>4, <2>5, SingleOnCurveLemma
    <2> QED BY <1>6, <2>1, <2>3, <2>6
  <1> HIDE DEF out_amount, pool
  <1>9. /\ m \in Messages /\ m.type \in Payouts /\ m.asset = asset /\ m.from = Pair
        /\ m.amount \in Nat /\ Cost(m) \in Nat /\ Cost(m) <= out_amount
    <2>1. LpToken \in Accounts
      BY AccountsLemma
    <2>2. m = into_msg(asset, out_amount, Pair, LpToken)
      BY <1>3, <1>5
    <2> HIDE DEF m
    <2> QED BY <1>6, <1>7, <2>1, <2>2, PayoutLemma, SMTT(30)
  <1> HIDE DEF m
  <1>10. Cost(m) < pool /\ Cost(m) <= pool
    BY <1>6, <1>7, <1>9
  <1>11. /\ out[LpPosition] = Msg("Burn", LpToken, Pair, Pair, amount)
         /\ out[i] = m /\ LpPosition \notin 1..NCoins
    BY <1>1, <1>3, <1>5
  <1>12. out[LpPosition] \in Messages
    BY <1>11, AccountsLemma, MsgLemma
  <1>13. out \in [{i} \cup {LpPosition} -> Messages]
    BY <1>9, <1>11, <1>12
  <1> HIDE DEF out
  <1>14. /\ TxOK(pair_info, b, total_supply, out)
         /\ end = [reserves |-> Paid(b, {i}, out), supply |-> total_supply - amount]
    <2>1. Cost(out[i]) <= b[Infos[i]][Pair]
      BY <1>5, <1>10, <1>11 DEF pool
    <2>2. Paying(b, {i}, {LpPosition}, amount, out)
      BY <1>4, <1>5, <1>9, <1>11, <1>13, <2>1 DEF Paying
    <2> QED BY <1>2, <1>3, <1>4, <2>2, PayLemma
  <1> HIDE DEF end
  <1>15. ASSUME NEW k \in 1..NCoins, k # i
         PROVE  Paid(b, {i}, out)[k] = bal[Infos[k]][Pair]
    <2>1. Paid(b, {i}, out)[k] = bal[Infos[k]][Pair] + 0
      BY <1>3, <1>4, <1>15 DEF Paid
    <2> QED BY <1>3, <2>1
  <1>16. /\ Paid(b, {i}, out)[i] \in Nat /\ Paid(b, {i}, out)[i] > 0
         /\ Paid(b, {i}, out)[i] >= pool - out_amount
    <2>1. Paid(b, {i}, out)[i] = pool + ((IF m.to = Pair THEN m.amount ELSE 0) - Cost(m))
      BY <1>5, <1>11 DEF Paid, pool
    <2> QED BY <1>6, <1>7, <1>9, <1>10, <2>1
  <1>17. Backed(end) /\ Whole(pair_info, end)
    <2>1. total_supply > 0
      BY <1>3, <1>4
    <2> QED BY <1>3, <1>14, <1>15, <1>16, <2>1 DEF Backed, Whole, Paid
  <1>18. FairEnd(committed, end) /\ BalancedEnd(committed, end)
    <2> SUFFICES ASSUME NCoins # 1
                 PROVE  FairEnd(committed, end) /\ BalancedEnd(committed, end)
      BY <1>3, Zenon DEF FairEnd, BalancedEnd
    <2>1. 1 \in 1..NCoins /\ 2 \in 1..NCoins
      BY <1>3
    <2>2. PICK k \in 1..NCoins : k # i
      BY <2>1
    <2>3. end.reserves[k] = Reserves(committed)[k] /\ Reserves(committed)[k] \in Nat
      BY <1>3, <1>14, <1>15, <2>2
    <2>4. ~(end.reserves[k] < Reserves(committed)[k])
      BY <2>3
    <2> QED BY <1>3, <2>2, <2>4 DEF FairEnd, BalancedEnd
  <1>19. CurveEnd(committed, end)
    <2> DEFINE d_0 == Invariant(committed)
    <2> SUFFICES ASSUME NCoins = 2, total_supply \in U64, NEW k \in 1..2,
                        end.reserves[k] < Reserves(committed)[k],
                        NEW d \in 0..d_0,
                        d * total_supply <= d_0 * end.supply
                 PROVE  UpTo(CurveOf(pair_info).amp, d, end.reserves[3 - k],
                             end.reserves[k] + 1)
      BY <1>3, Zenon DEF CurveEnd
    <2>1. k = i
      BY <1>3, <1>14, <1>15
    <2>2. 3 - k \in 1..NCoins /\ 3 - k # i
      BY <2>1
    <2>3. end.reserves[3 - k] = Reserves(committed)[3 - k]
          /\ Reserves(committed)[3 - k] \in Nat
      BY <1>3, <1>14, <1>15, <2>2
    <2>4. end.reserves[k] + 1 \in Nat /\ end.reserves[k] + 1 >= pool - out_amount + 1
      BY <1>5, <1>6, <1>7, <1>14, <1>16, <2>1
    <2>5. d \in Nat /\ end.supply = total_supply - amount
      BY <1>14
    <2> QED BY <1>8, <2>1, <2>3, <2>4, <2>5
  <1>20. Ends(committed, end)
    BY <1>18, <1>19 DEF Ends
  <1> QED BY <1>1, <1>2, <1>14, <1>17, <1>20, HandledLemma DEF end

\* The chain executes a message, or fails the transaction.
LEMMA ChainLemma ==
    ASSUME IInv, NEW x \in DOMAIN msgs, Execute(x) \/ Abort(x)
    PROVE  Kept
  <1> DEFINE now == Outlook(pair_info, bal, total_supply, msgs)
  <1>1. /\ TxInv /\ pair_info \in Stored /\ committed.pair_info \in Stored
        /\ Backed(now) /\ Backed(View(committed))
        /\ Doomed(msgs) \/ Ends(committed, now)
        /\ Undonated => Unfunded(committed.pair_info, committed.bal)
        /\ Undonated /\ Untaxed => Whole(pair_info, now)
                                     /\ Whole(committed.pair_info, View(committed))
    BY DEF IInv
  <1>2. CASE Execute(x)
    <2>1. PICK p, b, s, out :
             /\ Leaves(p, b, s, out)
             /\ p \in {pair_info, reply(LpToken)}
             /\ Outlook(p, b, s, out) = now
             /\ Doomed(msgs) => Doomed(out)
      BY <1>1, <1>2, ExecuteLemma
    <2> HIDE DEF now
    <2>2. reply(LpToken) \in Stored
          /\ reply(LpToken).asset_infos = pair_info.asset_infos
      <3>1. pair_info \in PairInfos
            /\ \/ pair_info.asset_infos = << >>
               \/ \E msg \in InstantiateMsgs :
                     /\ pair_info.asset_infos = msg.asset_infos
                     /\ pair_info.amplification = msg.amplification
        BY <1>1 DEF Stored
      <3>2. /\ reply(LpToken) \in PairInfos
            /\ reply(LpToken).asset_infos = pair_info.asset_infos
            /\ reply(LpToken).amplification = pair_info.amplification
        BY <3>1 DEF reply, PairInfos
      <3> QED BY <3>1, <3>2 DEF Stored
    <2>3. pair_info.asset_infos # << >>
      BY <1>1, UncreatedLemma DEF Idle
    <2>4. p.asset_infos = pair_info.asset_infos /\ p \in Stored
      BY <1>1, <2>1, <2>2
    <2>5. Unfunded(p, b)
      BY <2>3, <2>4 DEF Unfunded
    <2>6. Whole(pair_info, now) => Whole(p, now)
      BY <2>4 DEF Whole, Slots
    <2>7. Step(p, b, s, out)
      BY <1>1, <2>1, <2>4, <2>5, <2>6 DEF Step
    <2> QED BY <2>7, StepLemma
  <1>3. CASE Abort(x)
    <2>1. /\ Leaves(committed.pair_info, committed.bal, committed.total_supply, NoMsgs)
          /\ Outlook(committed.pair_info, committed.bal, committed.total_supply, NoMsgs)
                = View(committed)
      BY <1>1, <1>3, AbortLemma
    <2>2. Ends(committed, View(committed))
      BY <1>1, StayLemma
    <2>3. Step(committed.pair_info, committed.bal, committed.total_supply, NoMsgs)
      BY <1>1, <2>1, <2>2 DEF Step
    <2> QED BY <2>3, StepLemma
  <1> QED BY <1>2, <1>3

(***************************************************************************)
(* The theorems.                                                           *)
(***************************************************************************)
\* A pool starts in a state of which the invariant holds.
LEMMA InitLemma == Init => IInv
  <1> SUFFICES ASSUME Init PROVE IInv
    OBVIOUS
  <1>1. /\ pair_info = NoPair /\ total_supply = 0 /\ msgs = NoMsgs
        /\ committed = [pair_info |-> pair_info, bal |-> bal, total_supply |-> total_supply]
        /\ bal = [a \in Tokens |-> [c \in Accounts |->
                     IF a \in Assets /\ c \in Users THEN Endowment[c] ELSE 0]]
    BY DEF Init
  <1>2. NoPair \in Stored /\ {"asset_infos", "liquidity_token"} \subseteq DOMAIN NoPair
        /\ NoPair.asset_infos = << >> /\ NoPair.liquidity_token = NoToken
    BY DEF NoPair, PairInfos, Stored
  <1>3. TxInv /\ View(committed).supply = 0
    BY <1>1, <1>2, EmptyLemma
  <1>4. DOMAIN NoMsgs = {} /\ StateOK(pair_info, bal, total_supply)
    BY <1>3 DEF NoMsgs, TxInv, TxOK
  <1>5. Outlook(pair_info, bal, total_supply, msgs) = View(committed)
    BY <1>1, <1>4, QuietLemma
  <1>6. Backed(View(committed))
    BY <1>1, <1>3 DEF Backed
  <1>7. Ends(committed, View(committed))
    BY <1>3, StayLemma
  <1>8. committed.pair_info.asset_infos = << >> /\ Slots(committed.pair_info) = {}
    BY <1>1, <1>2 DEF Slots
  <1>9. Unfunded(committed.pair_info, committed.bal)
    <2>1. \A a \in Assets : bal[a][Pair] = 0
      BY <1>1, AccountsLemma, ChainAssumption DEF Users
    <2> QED BY <1>1, <2>1 DEF Unfunded
  <1>10. Whole(pair_info, View(committed)) /\ Whole(committed.pair_info, View(committed))
    BY <1>1, <1>8 DEF Whole
  <1> QED BY <1>1, <1>2, <1>3, <1>5, <1>6, <1>7, <1>9, <1>10 DEF IInv

\* Of two assets one is offered for the other, and not both are native.
LEMMA PairedLemma ==
    ASSUME IInv, Ready, Paired, NCoins = 2
    PROVE  /\ \E k \in 1..2 : ~is_native_token(Infos[k])
           /\ \A pair \in SwapPairs : \E k \in 1..2 :
                 pair[1] = Infos[k] /\ pair[2] = Infos[3 - k]
  <1>1. pair_info \in Stored /\ pair_info.asset_infos # << >>
    BY FoundLemma
  <1>2. PICK msg \in InstantiateMsgs : Infos = msg.asset_infos
    BY <1>1 DEF Stored, Infos
  <1> QED BY <1>2 DEF Paired, NCoins

\* Every step keeps the invariant, and ends a transaction as it may end.
LEMMA NextLemma == IInv /\ [Next]_vars => Kept
  <1> SUFFICES ASSUME IInv, [Next]_vars PROVE Kept
    OBVIOUS
  <1> USE ChainAssumption, PairAssumption
  <1>1. ASSUME NEW msg \in InstantiateMsgs, instantiate(msg) PROVE Kept
    BY <1>1, InstantiateLemma
  <1>2. ASSUME NEW user \in Users, Call(user) PROVE Kept
    <2>1. \A funds \in Funds : funds \in [NativeTokens -> Nat]
      BY DEF Funds
    <2>2. ASSUME NEW amounts \in [1..NCoins -> Amounts], NEW min_out \in MinOuts,
                 NEW receiver \in Receivers, NEW funds \in Funds,
                 provide_liquidity(user, amounts, min_out, receiver, funds)
          PROVE  Kept
      <3>1. amounts \in [1..NCoins -> Nat] /\ receiver \in Accounts
        OBVIOUS
      <3> QED BY <1>2, <2>1, <2>2, <3>1, ProvideLemma
    <2>3. ASSUME NEW pair \in SwapPairs, NEW amount \in Amounts, NEW min_out \in MinOuts,
                 NEW to \in Receivers, NEW funds \in Funds,
                 execute_swap(user, pair[1], amount, pair[2], min_out, to, funds)
          PROVE  Kept
      <3> DEFINE b == WithFunds(user, funds)
      <3>1. /\ Ready /\ CanFund(user, funds)
            /\ swap(b, pair[1], amount, pair[2], min_out, to)
        BY <2>3 DEF execute_swap
      <3>2. bal \in Ledgers /\ funds \in [NativeTokens -> Nat]
        BY <2>1, <3>1, FoundLemma
      <3>3. /\ b \in Ledgers /\ Keeps(b, bal)
            /\ \A a \in Tokens : b[a][Pair] = bal[a][Pair]
                                    + IF a \in NativeTokens THEN funds[a] ELSE 0
        BY <3>1, <3>2, FundsLemma
      <3> HIDE DEF b
      <3>4. \A a \in Assets : b[a][Pair] >= bal[a][Pair]
        <4>1. \A a \in Assets : a \in Tokens /\ bal[a][Pair] \in Nat
          BY <3>2, LedgerLemma, AccountsLemma
        <4> QED BY <3>2, <3>3, <4>1
      <3>5. amount \in Nat /\ to \in Accounts
        OBVIOUS
      <3>6. Paired /\ NCoins = 2 => Offered(b, pair[1], amount, pair[2])
        <4> SUFFICES ASSUME Paired, NCoins = 2
                     PROVE  Offered(b, pair[1], amount, pair[2])
          OBVIOUS
        <4>1. /\ is_native_token(pair[1])
              /\ assert_sent_native_token_balance(pair[1], amount, funds)
          BY <2>3 DEF execute_swap
        <4>2. /\ \E k \in 1..2 : ~is_native_token(Infos[k])
              /\ \E k \in 1..2 : pair[1] = Infos[k] /\ pair[2] = Infos[3 - k]
          BY <3>1, PairedLemma
        <4>3. PICK k \in 1..2 : pair[1] = Infos[k] /\ pair[2] = Infos[3 - k]
          BY <4>2
        <4>4. Infos[k] \in NativeTokens /\ Infos[3 - k] \notin NativeTokens
              /\ funds[Infos[k]] = amount
          BY <4>1, <4>2, <4>3 DEF is_native_token, assert_sent_native_token_balance
        <4>5. \A l \in 1..2 : Infos[l] \in Tokens /\ bal[Infos[l]][Pair] \in Nat
          BY <3>1, FoundLemma
        <4>6. \A l \in 1..2 : b[Infos[l]][Pair]
                                = bal[Infos[l]][Pair] + IF l = k THEN amount ELSE 0
          BY <3>3, <4>4, <4>5
        <4> QED BY <4>3, <4>6 DEF Offered
      <3> QED BY <3>1, <3>3, <3>4, <3>5, <3>6, SwapLemma
    <2>4. ASSUME NEW pair \in SwapPairs, NEW amount \in Amounts, NEW min_out \in MinOuts,
                 NEW to \in Receivers,
                 receive_swap(pair[1], user, amount, pair[2], min_out, to)
          PROVE  Kept
      <3> DEFINE b == Moved(bal, pair[1], user, Pair, amount)
      <3>1. /\ Ready /\ amount \in 1..bal[pair[1]][user]
            /\ swap(b, pair[1], amount, pair[2], min_out, to)
        BY <2>4 DEF receive_swap, Send
      <3>2. bal \in Ledgers
        BY <3>1, FoundLemma
      <3>3. amount \in Nat /\ to \in Accounts /\ pair[1] \in Tokens /\ Pair \in Accounts
        BY AccountsLemma
      <3>4. amount <= bal[pair[1]][user]
        <4>1. bal[pair[1]][user] \in Nat
          BY <1>2, <3>2, <3>3, LedgerLemma, AccountsLemma
        <4> QED BY <3>1, <4>1
      <3>5. /\ b \in Ledgers /\ Keeps(b, bal)
            /\ b[pair[1]][Pair] = bal[pair[1]][Pair] + amount
            /\ \A a \in Tokens : a # pair[1] => b[a] = bal[a]
        BY <1>2, <3>2, <3>3, <3>4, UserMoveLemma
      <3> HIDE DEF b
      <3>6. \A a \in Assets : b[a][Pair] >= bal[a][Pair]
        <4>1. \A a \in Assets : a \in Tokens /\ bal[a][Pair] \in Nat
          BY <3>2, LedgerLemma, AccountsLemma
        <4> QED BY <3>3, <3>5, <4>1
      <3>7. Paired /\ NCoins = 2 => Offered(b, pair[1], amount, pair[2])
        <4> SUFFICES ASSUME Paired, NCoins = 2
                     PROVE  Offered(b, pair[1], amount, pair[2])
          OBVIOUS
        <4>1. PICK k \in 1..2 : pair[1] = Infos[k] /\ pair[2] = Infos[3 - k]
          BY <3>1, PairedLemma
        <4>2. \A l \in 1..2 : Infos[l] \in Tokens /\ bal[Infos[l]][Pair] \in Nat
          BY <3>1, FoundLemma
        <4>3. Infos[1] # Infos[2]
          <5>1. StateOK(pair_info, bal, total_supply) /\ 1 \in 1..NCoins /\ 2 \in 1..NCoins
            BY <3>1, FoundLemma
          <5> QED BY <5>1, IndexLemma
        <4>4. \A l \in 1..2 : b[Infos[l]][Pair]
                                = bal[Infos[l]][Pair] + IF l = k THEN amount ELSE 0
          BY <3>5, <4>1, <4>2, <4>3
        <4> QED BY <4>1, <4>4 DEF Offered
      <3> QED BY <3>1, <3>3, <3>5, <3>6, <3>7, SwapLemma
    <2>5. \A amount \in Amounts \cup {bal[LpToken][user]} : amount \in Nat
      <3>1. bal \in Ledgers
        BY DEF IInv, TxInv, TxOK, StateOK
      <3>2. bal[LpToken][user] \in Nat
        BY <1>2, <3>1, LedgerLemma, AccountsLemma
      <3> QED BY <3>2
    <2>6. ASSUME NEW token \in Tokens, NEW amount \in Amounts \cup {bal[LpToken][user]},
                 withdraw_liquidity(token, user, amount)
          PROVE  Kept
      BY <1>2, <2>5, <2>6, BalancedLemma
    <2>7. ASSUME NEW token \in Tokens, NEW amount \in Amounts \cup {bal[LpToken][user]},
                 NEW asset \in Assets, NEW min_out \in MinOuts,
                 withdraw_single_liquidity(token, user, amount, asset, min_out)
          PROVE  Kept
      BY <1>2, <2>5, <2>7, SingleLemma
    <2> QED BY <1>2, <2>2, <2>3, <2>4, <2>6, <2>7 DEF Call, ExecuteMsg, Cw20HookMsg
  <1>3. ASSUME NEW token \in Tokens, NEW user \in Users, NEW to \in Receivers,
               NEW amount \in Gifts, transfer(token, user, to, amount)
        PROVE  Kept
    <2>1. to \in Accounts /\ amount \in Nat
      OBVIOUS
    <2>2. Undonated => to # Pair
      BY DEF Undonated
    <2> QED BY <1>3, <2>1, <2>2, GiftLemma
  <1>4. ASSUME NEW x \in DOMAIN msgs, Execute(x) \/ Abort(x) PROVE Kept
    BY <1>4, ChainLemma
  <1>5. CASE UNCHANGED vars
    <2>1. /\ pair_info' = pair_info /\ bal' = bal /\ total_supply' = total_supply
          /\ msgs' = msgs /\ committed' = committed
      BY <1>5 DEF vars
    <2>2. IInv' <=> IInv
      BY <2>1 DEF IInv, TxInv, CommittedOK, Idle, Undonated, Untaxed, Ends, Paired,
                  Precise, Circulation
    <2> QED BY <2>1, <2>2 DEF Kept
  <1> QED BY <1>1, <1>2, <1>3, <1>4, <1>5 DEF Next

\* The invariant holds throughout.
THEOREM Inductive == Spec => []IInv
  <1>1. IInv /\ [Next]_vars => IInv'
    BY NextLemma DEF Kept
  <1> QED BY <1>1, InitLemma, PTL DEF Spec

\* Every variable has its type throughout: however calls, transfers, failures
\* and executions follow each other, no balance and no supply is negative.
THEOREM TypeCorrect == Spec => []TypeOK
  <1>1. IInv => TypeOK
    <2> SUFFICES ASSUME IInv PROVE TypeOK
      OBVIOUS
    <2>1. pair_info \in PairInfos /\ committed.pair_info \in PairInfos
      BY DEF IInv, Stored
    <2>2. bal \in Ledgers /\ total_supply \in Nat
          /\ DOMAIN msgs \subseteq Nat /\ msgs \in [DOMAIN msgs -> Messages]
      BY DEF IInv, TxInv, TxOK, StateOK, MsgsOK
    <2>3. committed.bal \in Ledgers /\ committed.total_supply \in Nat
          /\ committed = [pair_info |-> committed.pair_info, bal |-> committed.bal,
                          total_supply |-> committed.total_supply]
      BY DEF IInv, TxInv, CommittedOK, TxOK, StateOK
    <2>4. committed \in [pair_info : PairInfos, bal : Ledgers, total_supply : Nat]
      BY <2>1, <2>3
    <2> QED BY <2>1, <2>2, <2>4 DEF TypeOK
  <1> QED BY <1>1, Inductive, PTL

\* Whatever a handler decides to pay or to burn is still there, tax included,
\* when the chain comes to execute it.
THEOREM PayoutsAreCovered == Spec => []PayoutsCovered
  <1>1. IInv => PayoutsCovered
    BY CoveredLemma DEF IInv
  <1> QED BY <1>1, Inductive, PTL

\* While LP tokens exist no reserve of the pool is empty after a transaction.
THEOREM ReservesRemain == Spec => []NeverDrained
  <1>1. IInv => NeverDrained
    BY DEF IInv, Backed, View, NeverDrained, Reserves
  <1> QED BY <1>1, Inductive, PTL

\* Of several assets, as every pool the factory creates has.
SeveralAssets == \A msg \in InstantiateMsgs : Len(msg.asset_infos) # 1

\* Whoever withdraws every asset leaves at least as much of each behind every
\* LP token that remains as was there, whatever the share is rounded to.
THEOREM WithdrawalsAreFair == SeveralAssets /\ Spec => WithdrawFair
  <1> SUFFICES ASSUME SeveralAssets PROVE Spec => WithdrawFair
    OBVIOUS
  <1>1. IInv /\ [Next]_vars =>
          [/\ committed'.total_supply < committed.total_supply
           /\ \A k \in 1..Len(committed.pair_info.asset_infos) :
                 Reserves(committed')[k] < Reserves(committed)[k]
           => \A k \in 1..Len(committed.pair_info.asset_infos) :
                 Reserves(committed')[k] * committed.total_supply
                     >= Reserves(committed)[k] * committed'.total_supply]_committed
    <2>1. IInv /\ [Next]_vars =>
             committed' = committed \/ FairEnd(committed, View(committed'))
      BY NextLemma DEF Kept, Ends
    <2>2. SUFFICES ASSUME IInv, FairEnd(committed, View(committed')),
                          committed'.total_supply < committed.total_supply,
                          \A k \in 1..Len(committed.pair_info.asset_infos) :
                             Reserves(committed')[k] < Reserves(committed)[k],
                          NEW k \in 1..Len(committed.pair_info.asset_infos)
                   PROVE  Reserves(committed')[k] * committed.total_supply
                             >= Reserves(committed)[k] * committed'.total_supply
      BY <2>1
    <2>3. Len(committed.pair_info.asset_infos) # 1
      <3>1. committed.pair_info \in Stored
        BY <2>2 DEF IInv
      <3>2. Len(<< >>) # 1
        OBVIOUS
      <3> QED BY <3>1, <3>2 DEF Stored, SeveralAssets
    <2> QED BY <2>2, <2>3 DEF FairEnd, View, Slots
  <1> QED BY <1>1, Inductive, PTL DEF Spec, WithdrawFair

\* What there is in the state committed last.
LEMMA CommittedLemma ==
    ASSUME IInv
    PROVE  LET infos == committed.pair_info.asset_infos
           IN  /\ CurveOf(committed.pair_info) \in Curves
               /\ committed.total_supply \in Nat
               /\ Len(infos) \in Nat /\ (infos # << >> => Len(infos) > 0)
               /\ Pool(Reserves(committed), Len(infos))
               /\ \A k \in 1..Len(infos) : Reserves(committed)[k] <= Circulation
  <1>1. StateOK(committed.pair_info, committed.bal, committed.total_supply)
        /\ committed.pair_info \in PairInfos
    BY DEF IInv, TxInv, CommittedOK, TxOK, Stored
  <1>2. CurveOf(committed.pair_info) \in Curves
    <2>1. committed.pair_info.amplification \in Int /\ committed.pair_info.fee \in Int
      BY <1>1 DEF PairInfos
    <2> QED BY <2>1, WidthLemma DEF CurveOf, Curves
  <1> QED BY <1>1, <1>2, StateLemma, InfosLemma DEF Slots

\* It does not matter which balance comes first.
LEMMA MirrorLemma ==
    ASSUME NEW amp \in Nat, NEW d \in Nat, NEW x \in Nat, NEW y \in Nat,
           UpTo(amp, d, x, y)
    PROVE  UpTo(amp, d, y, x)
  <1>1. x * y = y * x /\ x + y - d = y + x - d
    BY SMT
  <1> QED BY <1>1 DEF UpTo

\* A reserve times an LP supply of 64 bits is a u128.
Roomy == Circulation * (Two64 - 1) <= U128Max

\* Whoever withdraws every asset is paid what the curve makes of the reserves and
\* the supply that the pair is queried for, or a unit less of each: the share goes
\* through a Decimal, which loses no more than that.
THEOREM WithdrawalsAreBalanced ==
    SeveralAssets /\ Precise /\ Roomy /\ Spec /\ []SupplyFitsU64 => WithdrawsBalanced
  <1> SUFFICES ASSUME SeveralAssets, Precise, Roomy
               PROVE  Spec /\ []SupplyFitsU64 => WithdrawsBalanced
    OBVIOUS
  <1> DEFINE burnt == committed.total_supply - committed'.total_supply
             taken(k) == Reserves(committed)[k] - Reserves(committed')[k]
             coins == 1..Len(query_pair_info.asset_infos)
             due == remove_balanced_liquidity(query_pool.assets, burnt,
                                              query_pool.total_share)
             A == burnt > 0 /\ (\A k \in coins : taken(k) > 0) =>
                     \A k \in coins : taken(k) \in {due[k] - 1, due[k]}
             Fitted == committed.total_supply \in U64
  <1>1. Init => Fitted
    BY WidthLemma, WidthAssumption DEF Init, U64
  <1>2. IInv /\ Fitted /\ SupplyFitsU64' /\ [Next]_vars => Fitted'
    BY NextLemma DEF Kept, SupplyFitsU64
  <1>3. IInv /\ Fitted /\ [Next]_vars => [A]_committed
    <2> DEFINE infos == committed.pair_info.asset_infos
               pool == Reserves(committed)
               left == Reserves(committed')
               total == committed.total_supply
    <2>1. ASSUME IInv, [Next]_vars
          PROVE  /\ IInv'
                 /\ \/ committed' = committed
                    \/ /\ BalancedEnd(committed, View(committed'))
                       /\ committed.pair_info.asset_infos
                             \in {committed'.pair_info.asset_infos, << >>}
      BY <2>1, NextLemma DEF Kept, Ends
    <2>2. SUFFICES ASSUME IInv, IInv', Fitted, BalancedEnd(committed, View(committed')),
                          committed.pair_info.asset_infos
                             \in {committed'.pair_info.asset_infos, << >>},
                          burnt > 0, \A k \in coins : taken(k) > 0, NEW k \in coins
                   PROVE  taken(k) \in {due[k] - 1, due[k]}
      BY <2>1
    <2>3. coins = 1..Len(infos)
          /\ due = [l \in 1..Len(pool) |-> Div(Mul(pool[l], burnt), total)]
      BY DEF query_pair_info, query_pool, query_supply, remove_balanced_liquidity
    <2>4. /\ Len(infos) \in Nat /\ Len(pool) = Len(infos) /\ total \in Nat
          /\ \A l \in coins : pool[l] \in Nat /\ pool[l] <= Circulation
      BY <2>2, <2>3, CommittedLemma DEF Pool
    <2>5. committed'.total_supply \in Nat
      BY <2>2 DEF IInv, TxInv, CommittedOK, TxOK, StateOK
    <2>6. Len(infos) # 1
      <3>1. committed.pair_info \in Stored
        BY <2>2 DEF IInv
      <3>2. Len(<< >>) # 1
        OBVIOUS
      <3> QED BY <3>1, <3>2 DEF Stored, SeveralAssets
    <2>7. \A l \in coins : left[l] < pool[l]
      <3> SUFFICES ASSUME NEW l \in coins PROVE left[l] < pool[l]
        OBVIOUS
      <3>1. taken(l) > 0 /\ pool[l] \in Nat
        BY <2>2, <2>4
      <3>2. left[l] \in Nat
        <4>1. StateOK(committed'.pair_info, committed'.bal, committed'.total_supply)
          BY <2>2 DEF IInv, TxInv, CommittedOK, TxOK
        <4>2. infos # << >>
          BY <2>3, <2>4
        <4>3. l \in Slots(committed'.pair_info)
          BY <2>2, <2>3, <4>2 DEF Slots
        <4> QED BY <4>1, <4>3, StateLemma
      <3> QED BY <3>1, <3>2
    <2>8. taken(k) \in {(pool[k] * burnt) \div total - 1, (pool[k] * burnt) \div total}
      BY <2>2, <2>3, <2>6, <2>7 DEF BalancedEnd, View, Slots
    <2>9. due[k] = (pool[k] * burnt) \div total
      <3> HIDE DEF coins, pool, due, A
      <3>1. /\ pool[k] \in Nat /\ pool[k] <= Circulation
            /\ burnt \in Nat /\ total \in Nat /\ total > 0 /\ burnt <= total
        BY <2>2, <2>4, <2>5
      <3>2. pool[k] * burnt <= U128Max
        <4>1. burnt <= Two64 - 1 /\ Two64 - 1 \in Nat
          BY <2>2, <3>1, WidthAssumption DEF U64
        <4>2. Circulation \in Nat /\ U128Max \in Nat
          BY HeldLemma, WidthAssumption
        <4> HIDE DEF burnt
        <4>3. pool[k] * burnt <= Circulation * burnt
          BY <3>1, <4>2, ProductLemma
        <4>4. Circulation * burnt <= Circulation * (Two64 - 1)
          BY <3>1, <4>1, <4>2, ProductLemma
        <4>5. /\ pool[k] * burnt \in Nat /\ Circulation * burnt \in Nat
              /\ Circulation * (Two64 - 1) \in Nat
          BY <3>1, <4>1, <4>2, ProductLemma
        <4> QED BY <4>2, <4>3, <4>4, <4>5 DEF Roomy
      <3>3. due[k] = Div(Mul(pool[k], burnt), total)
        BY <2>2, <2>3, <2>4
      <3> HIDE DEF burnt, total
      <3>4. /\ pool[k] \in OptNat /\ burnt \in OptNat /\ total \in OptNat
            /\ pool[k] * burnt \in Nat /\ pool[k] * burnt \in OptNat
        BY <3>1, ProductLemma DEF OptNat, Option
      <3>5. Mul(pool[k], burnt) = pool[k] * burnt
        BY <3>1, <3>2, <3>4, ExactLemma
      <3>6. Div(pool[k] * burnt, total) = (pool[k] * burnt) \div total
        BY <3>1, <3>4, ExactLemma
      <3> QED BY <3>3, <3>5, <3>6
    <2> QED BY <2>8, <2>9
  <1> QED BY <1>1, <1>2, <1>3, Inductive, PTL DEF Spec, WithdrawsBalanced

\* What belongs to everyone together is so little that get_d computes with it, and
\* the amplification is more than nothing.
Modest ==
    \A msg \in InstantiateMsgs :
        LET n == Len(msg.asset_infos)
            ann == AsU64(msg.amplification) * n
            most == 2 * (n * Circulation)
        IN  /\ n >= 2 /\ ann >= 2 /\ ann < Two64
            /\ ann * (most * most) + 2 * Power(most, n + 1) <= U128Max

\* A pool that nobody gives anything, in which get_d has room for all there is,
\* always has a D: it takes deposits however it has been traded with and emptied.
THEOREM DepositsAreAccepted ==
    Modest /\ Undonated /\ Untaxed /\ Spec => []AcceptsDeposits
  <1> SUFFICES ASSUME Modest, Undonated, Untaxed PROVE Spec => []AcceptsDeposits
    OBVIOUS
  <1>1. IInv => AcceptsDeposits
    <2> DEFINE info == committed.pair_info
               curve == CurveOf(info)
               reserves == Reserves(committed)
               n == Len(info.asset_infos)
               most == 2 * (n * Circulation)
    <2> SUFFICES ASSUME IInv PROVE get_d(curve, reserves, None) # None
      BY DEF AcceptsDeposits, Invariant, Worth
    <2>1. /\ curve \in Curves /\ Pool(reserves, n) /\ n \in Nat
          /\ \A k \in 1..n : reserves[k] <= Circulation
          /\ info.asset_infos # << >> => n > 0
      BY CommittedLemma
    <2>2. Circulation \in Nat
      BY HeldLemma
    <2>3. CASE info.asset_infos = << >>
      <3>1. n = 0
        BY <2>3
      <3>2. Len(reserves) = 0
        BY <2>1, <3>1 DEF Pool
      <3> HIDE DEF reserves, n, curve
      <3>3. SumOf(reserves) = 0
        <4>1. Pool(reserves, 0) /\ \A k \in 1..0 : reserves[k] <= 0
          BY <2>1, <3>1
        <4>2. Total(reserves) <= 0 * 0
          BY <4>1, TotalBoundsLemma
        <4>3. Total(reserves) \in Nat
          BY <4>1, TotalLemma
        <4>4. Total(reserves) = 0 /\ Total(reserves) <= U128Max
          BY <4>2, <4>3, WidthAssumption
        <4> QED BY <4>1, <4>4, SumOfLemma
      <3>4. 0 # None
        BY DEF None
      <3> QED BY <3>3, <3>4 DEF get_d
    <2>4. CASE info.asset_infos # << >>
      <3>1. PICK msg \in InstantiateMsgs : /\ info.asset_infos = msg.asset_infos
                                           /\ info.amplification = msg.amplification
        BY <2>4 DEF IInv, Stored
      <3>2. curve.amp = AsU64(msg.amplification) /\ n = Len(msg.asset_infos)
        BY <3>1 DEF CurveOf
      <3>3. /\ n >= 2 /\ curve.amp * n >= 2 /\ curve.amp * n < Two64
            /\ (curve.amp * n) * (most * most) + 2 * Power(most, n + 1) <= U128Max
        BY <3>2 DEF Modest
      <3>4. (\A k \in 1..n : reserves[k] > 0) \/ (\A k \in 1..n : reserves[k] = 0)
        BY DEF IInv, Whole, View, Slots
      <3> HIDE DEF curve, reserves, n
      <3>5. curve.amp \in Nat
        BY <2>1, WidthLemma DEF Curves, U64
      <3>6. /\ \A k \in 1..n : reserves[k] <= Total(reserves)
            /\ Total(reserves) <= n * Circulation /\ Total(reserves) \in Nat
        BY <2>1, <2>2, TotalBoundsLemma, TotalLemma
      <3>7. Fits(curve, reserves, n, most)
        <4> DEFINE all == n * Circulation
        <4>1. all \in Nat /\ most = 2 * all
          BY <2>1, <2>2
        <4>2. \A k \in 1..n : reserves[k] * n <= all
          <5> SUFFICES ASSUME NEW k \in 1..n PROVE reserves[k] * n <= all
            OBVIOUS
          <5>1. reserves[k] \in Nat /\ reserves[k] <= Circulation
            BY <2>1 DEF Pool
          <5> QED BY <2>1, <2>2, <5>1, ProductLemma
        <4>3. \A k \in 1..n : reserves[k] * n \in Nat
          BY <2>1 DEF Pool
        <4> HIDE DEF all, most
        <4>4. /\ most \in Nat /\ 2 * Total(reserves) <= most
              /\ \A k \in 1..n : reserves[k] * n <= most
          BY <3>6, <4>1, <4>2, <4>3 DEF all
        <4> QED BY <3>3, <4>4 DEF Fits
      <3> QED BY <2>1, <3>3, <3>4, <3>5, <3>7, FoundDLemma
    <2> QED BY <2>3, <2>4
  <1> QED BY <1>1, Inductive, PTL

\* Whatever reserves a pool has come to, the D it is priced by is not below the
\* root of the invariant.
THEOREM PoolsAreNotUndervalued == Spec => []NeverUndervalued
  <1>1. IInv => NeverUndervalued
    <2> DEFINE curve == CurveOf(committed.pair_info)
               reserves == Reserves(committed)
               n == Len(committed.pair_info.asset_infos)
               d == Invariant(committed)
    <2> SUFFICES ASSUME IInv, committed.pair_info.asset_infos # << >>, d # None,
                        Below(curve, d + 1, reserves)
                 PROVE  FALSE
      BY DEF NeverUndervalued
    <2>1. d # None
      OBVIOUS
    <2>2. curve \in Curves /\ Pool(reserves, n) /\ n > 0
      BY CommittedLemma
    <2>3. d = get_d(curve, reserves, None)
      BY DEF Invariant, Worth
    <2> HIDE DEF curve, reserves, n, d
    <2>4. d \in Nat
      <3>1. get_d(curve, reserves, None) \in Option(U128)
        BY GetDLemma
      <3> QED BY <2>1, <2>3, <3>1, WidthLemma DEF Option
    <2>5. None \in OptNat
      BY DEF OptNat, Option
    <2>6. d + 1 <= get_d(curve, reserves, None)
      BY <2>2, <2>3, <2>4, <2>5, AboveRootLemma
    <2> QED BY <2>3, <2>4, <2>6
  <1> QED BY <1>1, Inductive, PTL

\* Whoever swaps or withdraws in one asset takes at most a unit more than leaves
\* on the curve what belongs to the LP tokens that remain.
THEOREM TakesOnCurve == Paired /\ Spec => TakenOnCurve
  <1> SUFFICES ASSUME Paired PROVE Spec => TakenOnCurve
    OBVIOUS
  <1> DEFINE A == LET info == committed.pair_info
                      d_0 == Invariant(committed)
                      before == Reserves(committed)
                      after == Reserves(committed')
                  IN  /\ Len(info.asset_infos) = 2
                      /\ committed.total_supply \in U64
                      /\ committed'.total_supply <= committed.total_supply
                      => \A k \in 1..2 :
                            after[k] < before[k] /\ after[3 - k] >= before[3 - k] =>
                               \A d \in 0..d_0 :
                                  d * committed.total_supply
                                     <= d_0 * committed'.total_supply =>
                                     Below(CurveOf(info), d, [after EXCEPT ![k] = @ + 1])
  <1>1. IInv /\ [Next]_vars => [A]_committed
    <2> DEFINE d_0 == Invariant(committed)
               before == Reserves(committed)
               after == Reserves(committed')
               curve == CurveOf(committed.pair_info)
    <2>1. ASSUME IInv, [Next]_vars
          PROVE  /\ IInv'
                 /\ \/ committed' = committed
                    \/ /\ CurveEnd(committed, View(committed'))
                       /\ committed.pair_info.asset_infos
                             \in {committed'.pair_info.asset_infos, << >>}
      BY <2>1, NextLemma DEF Kept, Ends
    <2>2. SUFFICES ASSUME IInv, IInv', CurveEnd(committed, View(committed')),
                          committed.pair_info.asset_infos
                             \in {committed'.pair_info.asset_infos, << >>},
                          Len(committed.pair_info.asset_infos) = 2,
                          committed.total_supply \in U64,
                          committed'.total_supply <= committed.total_supply,
                          NEW k \in 1..2,
                          after[k] < before[k], after[3 - k] >= before[3 - k],
                          NEW d \in 0..d_0,
                          d * committed.total_supply <= d_0 * committed'.total_supply
                   PROVE  Below(curve, d, [after EXCEPT ![k] = @ + 1])
      BY <2>1
    <2>3. UpTo(curve.amp, d, after[3 - k], after[k] + 1)
      BY <2>2 DEF CurveEnd, View
    <2>4. Pool(after, 2) /\ curve \in Curves
      <3>1. Len(<< >>) # 2
        OBVIOUS
      <3>2. Len(committed'.pair_info.asset_infos) = 2
        BY <2>2, <3>1
      <3>3. Pool(Reserves(committed'), Len(committed'.pair_info.asset_infos))
        <4>1. StateOK(committed'.pair_info, committed'.bal, committed'.total_supply)
          BY <2>2 DEF IInv, TxInv, CommittedOK, TxOK
        <4> QED BY <4>1, StateLemma
      <3> QED BY <2>2, <3>2, <3>3, CommittedLemma
    <2>5. after = [l \in 1..2 |-> after[l]]
      <3>1. after = [l \in 1..Len(committed'.pair_info.asset_infos) |-> after[l]]
        BY DEF Reserves
      <3>2. Len(after) = Len(committed'.pair_info.asset_infos) /\ Len(after) = 2
        <4>1. Len(<< >>) # 2
          OBVIOUS
        <4>2. Len(committed'.pair_info.asset_infos) = 2
          BY <2>2, <4>1
        <4> QED BY <2>4, <4>2 DEF Pool
      <3> HIDE DEF after
      <3> QED BY <3>1, <3>2
    <2> DEFINE more == [after EXCEPT ![k] = @ + 1]
    <2> HIDE DEF after, curve, d_0, before
    <2>6. Pool(more, 2) /\ more[k] = after[k] + 1 /\ more[3 - k] = after[3 - k]
      <3>1. \A l \in 1..2 : after[l] \in Nat
        BY <2>4 DEF Pool
      <3>2. /\ more = [l \in 1..2 |-> IF l = k THEN after[k] + 1 ELSE after[l]]
            /\ Len(more) = 2
        BY <2>5
      <3> HIDE DEF more
      <3> QED BY <3>1, <3>2 DEF Pool
    <2> HIDE DEF more
    <2>7. curve.amp \in Nat /\ d \in Nat
      BY <2>4, WidthLemma DEF Curves, U64
    <2>8. UpTo(curve.amp, d, more[1], more[2])
      <3>1. \A l \in 1..2 : more[l] \in Nat
        BY <2>6 DEF Pool
      <3>2. CASE k = 2
        BY <2>3, <2>6, <3>2
      <3>3. CASE k = 1
        <4>1. UpTo(curve.amp, d, more[2], more[1])
          BY <2>3, <2>6, <3>3
        <4> QED BY <2>7, <3>1, <4>1, MirrorLemma
      <3> QED BY <3>2, <3>3
    <2>9. Below(curve, d, more)
      BY <2>6, <2>7, <2>8, BelowTwoLemma
    <2> QED BY <2>9 DEF more
  <1> QED BY <1>1, Inductive, PTL DEF Spec, TakenOnCurve

=============================================================================
