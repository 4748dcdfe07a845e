--------------------------- MODULE Factory_proofs ---------------------------
(***************************************************************************)
(* The directory is right for every instance: what it lists is what the    *)
(* pair contracts store, nothing listed is ever replaced, and a client     *)
(* that reads it page by page is given nothing twice.  If the names of the *)
(* assets tell their keys apart, it is a Directory.                        *)
(***************************************************************************)
EXTENDS Factory, FiniteSetTheorems, TLAPS

Twos == AssetInfos \X AssetInfos
RawInfos == {to_raw(info) : info \in AssetInfos}

PairInfos == [asset_infos : RawInfos \X RawInfos, contract_addr : Nat, liquidity_token : Int]

\* The pair contracts: each at an address of its own, below the next one.
ContractsOK(q) ==
    /\ IsFiniteSet(DOMAIN q)
    /\ q \in [DOMAIN q -> PairInfos]
    /\ \A addr \in DOMAIN q :
          /\ addr \in Nat /\ addr < 2 * Cardinality(DOMAIN q)
          /\ q[addr].contract_addr = addr

\* The token at the address after a pair's is its LP token, among the tokens l.
Mints(addr, l) ==
    /\ addr + 1 \in DOMAIN l
    /\ l[addr + 1].mint = [minter |-> addr, cap |-> Unset]

\* The directory p agrees with the contracts q and the tokens l.
Agrees(p, q, l) ==
    \A key \in DOMAIN p :
        /\ key = pair_key(p[key].asset_infos)
        /\ p[key].contract_addr \in DOMAIN q
        /\ q[p[key].contract_addr] = p[key]
        /\ p[key].liquidity_token = p[key].contract_addr + 1
        /\ Mints(p[key].contract_addr, l)

\* The stored record belongs to a pair that is not listed.
TmpOK ==
    /\ tmp_pair_info.asset_infos \in RawInfos \X RawInfos
    /\ tmp_pair_info.pair_key = pair_key(tmp_pair_info.asset_infos)
    /\ tmp_pair_info.pair_key \notin DOMAIN pairs

\* The contract being set up is the one the stored record is about, and is
\* not listed.
NewPair(addr) ==
    /\ addr \in DOMAIN pair_infos
    /\ pair_infos[addr].asset_infos = tmp_pair_info.asset_infos
    /\ \A key \in DOMAIN pairs : pairs[key].contract_addr # addr

PendingOK ==
    /\ pending.stage \in {"none", "pair", "token", "token reply", "reply"}
    /\ pending.stage = "none" => pending = NoTx
    /\ pending.stage # "none" => TmpOK
    /\ pending.stage = "pair" => Raw(pending.asset_infos) = tmp_pair_info.asset_infos
    /\ pending.stage \in {"token", "token reply", "reply"} => NewPair(pending.contract_addr)
    /\ pending.stage \in {"token reply", "reply"} => Mints(pending.contract_addr, token_infos)
    /\ pending.stage = "reply" =>
           pair_infos[pending.contract_addr].liquidity_token = pending.contract_addr + 1

CommittedOK ==
    /\ committed.pairs = pairs
    /\ ContractsOK(committed.pair_infos)
    /\ Agrees(committed.pairs, committed.pair_infos, committed.token_infos)

IInv ==
    /\ ContractsOK(pair_infos)
    /\ Agrees(pairs, pair_infos, token_infos)
    /\ PendingOK
    /\ CommittedOK

-----------------------------------------------------------------------------

\* At the start there is nothing in the directory.
LEMMA InitLemma == Init => IInv
<1> SUFFICES ASSUME Init PROVE IInv
    OBVIOUS
<1>1. DOMAIN pair_infos = {} /\ DOMAIN pairs = {}
    BY DEF Init, Empty
<1>2. ContractsOK(pair_infos)
    <2>1. IsFiniteSet(DOMAIN pair_infos)
        BY <1>1, FS_EmptySet
    <2>2. pair_infos \in [DOMAIN pair_infos -> PairInfos]
        BY <1>1 DEF Init, Empty
    <2> QED
        BY <1>1, <2>1, <2>2 DEF ContractsOK
<1>3. Agrees(pairs, pair_infos, token_infos)
    BY <1>1 DEF Agrees
<1>4. PendingOK
    BY DEF Init, NoTx, PendingOK
<1>5. CommittedOK
    BY <1>2, <1>3 DEF CommittedOK, Init, Snapshot
<1> QED
    BY <1>2, <1>3, <1>4, <1>5 DEF IInv

\* The call only stores its record and asks for the pair.
LEMMA CreateLemma ==
    ASSUME IInv, NEW asset_infos \in Twos, execute_create_pair(asset_infos)
    PROVE  IInv'
<1> USE DEF execute_create_pair
<1>1. TmpOK'
    <2>1. Raw(asset_infos) \in RawInfos \X RawInfos
        BY DEF Raw, RawInfos, Twos
    <2> QED
        BY <2>1 DEF TmpOK, TmpPairInfo, CanCreate, Registered
<1>2. PendingOK'
    BY <1>1 DEF PendingOK, NoTx, TmpOK, TmpPairInfo
<1>3. /\ ContractsOK(pair_infos)' /\ Agrees(pairs, pair_infos, token_infos)'
      /\ CommittedOK'
    BY DEF IInv, CommittedOK
<1> QED
    BY <1>2, <1>3 DEF IInv

\* A new contract gets an address no other has.
LEMMA InstantiateLemma == IInv /\ instantiate_pair => IInv'
<1> SUFFICES ASSUME IInv, instantiate_pair PROVE IInv'
    OBVIOUS
<1> DEFINE n == Cardinality(DOMAIN pair_infos)
           addr == 2 * n + 1
           info == [asset_infos |-> Raw(pending.asset_infos), contract_addr |-> addr,
                    liquidity_token |-> NoToken]
<1>1. /\ pending.stage = "pair"
      /\ pair_infos' = [x \in DOMAIN pair_infos \cup {addr} |->
                           IF x = addr THEN info ELSE pair_infos[x]]
      /\ pending' = [stage |-> "token", contract_addr |-> addr,
                     token_code_id |-> pending.token_code_id]
      /\ UNCHANGED <<config, pairs, tmp_pair_info, token_infos, committed>>
    BY DEF instantiate_pair
<1>2. /\ IsFiniteSet(DOMAIN pair_infos)
      /\ pair_infos \in [DOMAIN pair_infos -> PairInfos]
      /\ \A x \in DOMAIN pair_infos : /\ x \in Nat /\ x < 2 * n
                                      /\ pair_infos[x].contract_addr = x
    BY DEF IInv, ContractsOK
<1>3. n \in Nat
    BY <1>2, FS_CardinalityType
<1>4. TmpOK /\ Raw(pending.asset_infos) = tmp_pair_info.asset_infos
    BY <1>1 DEF IInv, PendingOK
<1>5. info \in PairInfos
    BY <1>3, <1>4 DEF TmpOK, PairInfos, NoToken
<1>6. addr \notin DOMAIN pair_infos
    BY <1>2, <1>3
<1>7. /\ IsFiniteSet(DOMAIN pair_infos')
      /\ Cardinality(DOMAIN pair_infos') = n + 1
    <2>1. DOMAIN pair_infos' = DOMAIN pair_infos \cup {addr}
        BY <1>1
    <2> QED
        BY <2>1, <1>2, <1>6, FS_AddElement
<1>8. ContractsOK(pair_infos')
    <2>1. pair_infos' \in [DOMAIN pair_infos' -> PairInfos]
        BY <1>1, <1>2, <1>5
    <2>2. ASSUME NEW x \in DOMAIN pair_infos'
          PROVE  x \in Nat /\ x < 2 * (n + 1) /\ pair_infos'[x].contract_addr = x
        BY <1>1, <1>2, <1>3
    <2> QED
        BY <1>7, <2>1, <2>2 DEF ContractsOK
<1>9. Agrees(pairs', pair_infos', token_infos')
    BY <1>1, <1>6 DEF IInv, Agrees
<1>10. PendingOK'
    <2>1. TmpOK'
        BY <1>1, <1>4 DEF TmpOK
    <2>2. NewPair(pending.contract_addr)'
        <3>1. pending'.contract_addr = addr
            BY <1>1
        <3>2. addr \in DOMAIN pair_infos' /\ pair_infos'[addr] = info
            BY <1>1
        <3>3. \A key \in DOMAIN pairs' : pairs'[key].contract_addr # addr
            BY <1>1, <1>6 DEF IInv, Agrees
        <3> QED
            BY <1>1, <1>4, <3>1, <3>2, <3>3 DEF NewPair
    <2> QED
        BY <1>1, <2>1, <2>2 DEF PendingOK
<1>11. CommittedOK'
    BY <1>1 DEF IInv, CommittedOK
<1> QED
    BY <1>8, <1>9, <1>10, <1>11 DEF IInv

\* The LP token is created at the address after the pair's.
LEMMA TokenLemma == IInv /\ instantiate_token => IInv'
<1> SUFFICES ASSUME IInv, instantiate_token PROVE IInv'
    OBVIOUS
<1> DEFINE addr == pending.contract_addr
           info == TokenInfo(LpTokenMsg(addr))
<1>1. /\ pending.stage = "token"
      /\ token_infos' = [x \in DOMAIN token_infos \cup {addr + 1} |->
                            IF x = addr + 1 THEN info ELSE token_infos[x]]
      /\ pending' = [stage |-> "token reply", contract_addr |-> addr]
      /\ UNCHANGED <<config, pairs, tmp_pair_info, pair_infos, committed>>
    BY DEF instantiate_token
<1>2. TmpOK /\ NewPair(addr)
    BY <1>1 DEF IInv, PendingOK
<1>3. ContractsOK(pair_infos)
    BY DEF IInv
<1>4. addr \in Nat
    BY <1>2, <1>3 DEF NewPair, ContractsOK
<1>5. Mints(addr, token_infos')
    <2>1. info.mint = [minter |-> addr, cap |-> Unset]
        BY DEF TokenInfo, LpTokenMsg
    <2> QED
        BY <1>1, <2>1 DEF Mints
<1>6. Agrees(pairs', pair_infos', token_infos')
    <2>1. ASSUME NEW key \in DOMAIN pairs
          PROVE  Mints(pairs[key].contract_addr, token_infos')
        <3>1. Mints(pairs[key].contract_addr, token_infos)
            BY DEF IInv, Agrees
        <3>2. pairs[key].contract_addr # addr
            BY <1>2 DEF NewPair
        <3>3. pairs[key].contract_addr \in Nat
            BY <1>3 DEF IInv, Agrees, ContractsOK
        <3>4. pairs[key].contract_addr + 1 # addr + 1
            BY <1>4, <3>2, <3>3
        <3> QED
            BY <1>1, <3>1, <3>4 DEF Mints
    <2> QED
        BY <1>1, <2>1 DEF IInv, Agrees
<1>7. PendingOK'
    <2>1. TmpOK' /\ NewPair(addr)'
        BY <1>1, <1>2 DEF TmpOK, NewPair
    <2> QED
        BY <1>1, <1>5, <2>1 DEF PendingOK
<1>8. CommittedOK'
    BY <1>1 DEF IInv, CommittedOK
<1> QED
    BY <1>1, <1>3, <1>6, <1>7, <1>8 DEF IInv

\* The pair's reply changes only the contract that is being set up.
LEMMA ReplyPairLemma == IInv /\ reply_pair => IInv'
<1> SUFFICES ASSUME IInv, reply_pair PROVE IInv'
    OBVIOUS
<1> DEFINE addr == pending.contract_addr
<1>1. /\ pending.stage = "token reply"
      /\ pair_infos' = [pair_infos EXCEPT ![addr].liquidity_token = addr + 1]
      /\ pending' = [stage |-> "reply", contract_addr |-> addr]
      /\ UNCHANGED <<config, pairs, tmp_pair_info, token_infos, committed>>
    BY DEF reply_pair
<1>2. TmpOK /\ NewPair(addr) /\ Mints(addr, token_infos)
    BY <1>1 DEF IInv, PendingOK
<1>3. ContractsOK(pair_infos)
    BY DEF IInv
<1>4. addr \in Nat /\ addr \in DOMAIN pair_infos
    BY <1>2, <1>3 DEF NewPair, ContractsOK
<1>5. /\ DOMAIN pair_infos' = DOMAIN pair_infos
      /\ \A x \in DOMAIN pair_infos : x # addr => pair_infos'[x] = pair_infos[x]
      /\ pair_infos'[addr] = [pair_infos[addr] EXCEPT !.liquidity_token = addr + 1]
    BY <1>1, <1>3, <1>4 DEF ContractsOK
<1>6. pair_infos[addr] \in PairInfos
    BY <1>3, <1>4 DEF ContractsOK
<1>7. /\ pair_infos'[addr] \in PairInfos
      /\ pair_infos'[addr].contract_addr = pair_infos[addr].contract_addr
      /\ pair_infos'[addr].asset_infos = pair_infos[addr].asset_infos
      /\ pair_infos'[addr].liquidity_token = addr + 1
    BY <1>4, <1>5, <1>6 DEF PairInfos
<1>8. ContractsOK(pair_infos')
    <2>1. pair_infos' \in [DOMAIN pair_infos' -> PairInfos]
        BY <1>1, <1>3, <1>5, <1>7 DEF ContractsOK
    <2> QED
        BY <2>1, <1>3, <1>5, <1>7 DEF ContractsOK
<1>9. Agrees(pairs', pair_infos', token_infos')
    BY <1>1, <1>2, <1>5 DEF IInv, Agrees, NewPair
<1>10. PendingOK'
    <2>1. TmpOK' /\ NewPair(addr)'
        BY <1>1, <1>2, <1>5, <1>7 DEF TmpOK, NewPair
    <2>2. Mints(addr, token_infos)'
        BY <1>1, <1>2 DEF Mints
    <2> QED
        BY <1>1, <1>7, <2>1, <2>2 DEF PendingOK
<1>11. CommittedOK'
    BY <1>1 DEF IInv, CommittedOK
<1> QED
    BY <1>8, <1>9, <1>10, <1>11 DEF IInv

\* The factory's reply lists the contract under a key that was free.
LEMMA ReplyLemma ==
    IInv /\ reply => /\ IInv'
                     /\ \A key \in DOMAIN pairs : key \in DOMAIN pairs' /\ pairs'[key] = pairs[key]
<1> SUFFICES ASSUME IInv, reply
             PROVE  /\ IInv'
                    /\ \A key \in DOMAIN pairs : key \in DOMAIN pairs' /\ pairs'[key] = pairs[key]
    OBVIOUS
<1> DEFINE addr == pending.contract_addr
           new == tmp_pair_info.pair_key
           info == [asset_infos |-> tmp_pair_info.asset_infos, contract_addr |-> addr,
                    liquidity_token |-> pair_infos[addr].liquidity_token]
<1>1. /\ pending.stage = "reply"
      /\ pairs' = [k \in DOMAIN pairs \cup {new} |-> IF k = new THEN info ELSE pairs[k]]
      /\ pending' = NoTx
      /\ committed' = Snapshot(config, pairs', tmp_pair_info, pair_infos, token_infos)
      /\ UNCHANGED <<config, tmp_pair_info, pair_infos, token_infos>>
    BY DEF reply, query_liquidity_token
<1>2. /\ TmpOK /\ NewPair(addr) /\ Mints(addr, token_infos)
      /\ pair_infos[addr].liquidity_token = addr + 1
    BY <1>1 DEF IInv, PendingOK
<1>3. ContractsOK(pair_infos)
    BY DEF IInv
<1>4. pair_infos[addr] = info
    <2>1. pair_infos[addr] \in PairInfos /\ pair_infos[addr].contract_addr = addr
        BY <1>2, <1>3 DEF NewPair, ContractsOK
    <2> QED
        BY <1>2, <2>1 DEF NewPair, PairInfos
<1>5. Agrees(pairs', pair_infos', token_infos')
    <2>1. ASSUME NEW key \in DOMAIN pairs'
          PROVE  /\ key = pair_key(pairs'[key].asset_infos)
                 /\ pairs'[key].contract_addr \in DOMAIN pair_infos
                 /\ pair_infos[pairs'[key].contract_addr] = pairs'[key]
                 /\ pairs'[key].liquidity_token = pairs'[key].contract_addr + 1
                 /\ Mints(pairs'[key].contract_addr, token_infos)
        <3>1. CASE key = new
            <4>1. pairs'[key] = info
                BY <1>1, <3>1
            <4> QED
                BY <4>1, <3>1, <1>2, <1>4 DEF TmpOK, NewPair
        <3>2. CASE key # new
            BY <1>1, <3>2 DEF IInv, Agrees
        <3> QED
            BY <3>1, <3>2
    <2> QED
        BY <1>1, <2>1 DEF Agrees
<1>6. PendingOK'
    BY <1>1 DEF PendingOK, NoTx
<1>7. CommittedOK'
    <2>1. /\ committed'.pairs = pairs'
          /\ committed'.pair_infos = pair_infos'
          /\ committed'.token_infos = token_infos'
        BY <1>1 DEF Snapshot
    <2> QED
        BY <2>1, <1>1, <1>3, <1>5 DEF CommittedOK
<1>8. IInv'
    BY <1>1, <1>3, <1>5, <1>6, <1>7 DEF IInv
<1>9. ASSUME NEW key \in DOMAIN pairs
      PROVE  key \in DOMAIN pairs' /\ pairs'[key] = pairs[key]
    BY <1>1, <1>2 DEF TmpOK
<1> QED
    BY <1>8, <1>9

\* Every other step leaves the directory as it is.
LEMMA OtherLemma ==
    ASSUME IInv,
           \/ \E sender \in Users, owner \in Users \cup {Unset},
                 token_code_id, pair_code_id \in CodeIds \cup {Unset} :
                 execute_update_config(sender, owner, token_code_id, pair_code_id)
           \/ Abort
           \/ start_listing
           \/ \E limit \in Limits : read_on(limit)
           \/ UNCHANGED vars
    PROVE  IInv' /\ pairs' = pairs
<1>1. CASE \E sender \in Users, owner \in Users \cup {Unset},
              token_code_id, pair_code_id \in CodeIds \cup {Unset} :
              execute_update_config(sender, owner, token_code_id, pair_code_id)
    <2>1. /\ UNCHANGED <<pairs, tmp_pair_info, pair_infos, token_infos, pending>>
          /\ committed' = [committed EXCEPT !.config = config']
        BY <1>1 DEF execute_update_config
    <2>2. /\ committed'.pairs = committed.pairs
          /\ committed'.pair_infos = committed.pair_infos
          /\ committed'.token_infos = committed.token_infos
        BY <2>1
    <2> QED
        BY <2>1, <2>2 DEF IInv, PendingOK, TmpOK, NewPair, CommittedOK
<1>2. CASE Abort
    BY <1>2 DEF Abort, IInv, PendingOK, NoTx, CommittedOK
<1>3. CASE UNCHANGED <<pairs, tmp_pair_info, pair_infos, token_infos, pending, committed>>
    BY <1>3 DEF IInv, PendingOK, TmpOK, NewPair, CommittedOK
<1> QED
    BY <1>1, <1>2, <1>3 DEF start_listing, read_on, vars

\* Every step keeps the invariant, and every pair that is listed.
LEMMA NextLemma ==
    ASSUME IInv, [Next]_vars
    PROVE  /\ IInv'
           /\ \A key \in DOMAIN pairs : key \in DOMAIN pairs' /\ pairs'[key] = pairs[key]
<1>1. CASE \E asset_infos \in Twos : execute_create_pair(asset_infos)
    <2>1. pairs' = pairs
        BY <1>1 DEF execute_create_pair
    <2> QED
        BY <1>1, <2>1, CreateLemma
<1>2. CASE instantiate_pair
    BY <1>2, InstantiateLemma DEF instantiate_pair
<1>3. CASE instantiate_token
    BY <1>3, TokenLemma DEF instantiate_token
<1>4. CASE reply_pair
    BY <1>4, ReplyPairLemma DEF reply_pair
<1>5. CASE reply
    BY <1>5, ReplyLemma
<1> QED
    BY <1>1, <1>2, <1>3, <1>4, <1>5, OtherLemma DEF Next, ExecuteMsg, Twos

\* The invariant holds in every reachable state.
THEOREM Inductive == Spec => []IInv
<1>1. Init => IInv
    BY InitLemma
<1>2. IInv /\ [Next]_vars => IInv'
    BY NextLemma
<1> QED
    BY <1>1, <1>2, PTL DEF Spec

\* The directory agrees with what the pair contracts store, and lists no pair
\* before its LP token exists and lets it mint.
THEOREM DirectoryAgrees == Spec => []ListedAgrees
<1>1. IInv => ListedAgrees
    BY DEF IInv, Agrees, Mints, ListedAgrees, LpTokenOf
<1> QED
    BY <1>1, Inductive, PTL

\* A listed pair is never replaced or removed.
THEOREM ListedForGood == Spec => PairsKept
<1>1. IInv /\ [Next]_vars =>
          [\A key \in DOMAIN pairs : key \in DOMAIN pairs' /\ pairs'[key] = pairs[key]]_pairs
    BY NextLemma
<1> QED
    BY <1>1, Inductive, PTL DEF Spec, PairsKept

(***************************************************************************)
(* The order of byte strings, which keys are stored in.                    *)
(***************************************************************************)
Strings == Seq(Bytes)

\* What the elements of a byte string are.
LEMMA StringLemma ==
    ASSUME NEW s \in Strings
    PROVE  Len(s) \in Nat /\ \A k \in 1..Len(s) : s[k] \in Int
<1>1. Len(s) \in Nat /\ \A k \in 1..Len(s) : s[k] \in Bytes
    BY DEF Strings
<1>2. Bytes \subseteq Int
    BY DEF Bytes
<1> QED
    BY <1>1, <1>2

\* No string precedes itself.
LEMMA IrreflexiveLemma ==
    ASSUME NEW s \in Strings
    PROVE  ~Precedes(s, s)
    BY StringLemma DEF Precedes

\* The order is transitive.
LEMMA TransitiveLemma ==
    ASSUME NEW s \in Strings, NEW t \in Strings, NEW u \in Strings,
           Precedes(s, t), Precedes(t, u)
    PROVE  Precedes(s, u)
<1>1. /\ Len(s) \in Nat /\ Len(t) \in Nat /\ Len(u) \in Nat
      /\ \A k \in 1..Len(s) : s[k] \in Int
      /\ \A k \in 1..Len(t) : t[k] \in Int
      /\ \A k \in 1..Len(u) : u[k] \in Int
    BY StringLemma
<1>2. PICK n \in 0..Len(s) : /\ n < Len(t)
                             /\ \A k \in 1..n : s[k] = t[k]
                             /\ n = Len(s) \/ s[n + 1] < t[n + 1]
    BY DEF Precedes
<1>3. PICK m \in 0..Len(t) : /\ m < Len(u)
                             /\ \A k \in 1..m : t[k] = u[k]
                             /\ m = Len(t) \/ t[m + 1] < u[m + 1]
    BY DEF Precedes
<1>4. CASE n < m
    <2>1. n < Len(u) /\ n + 1 \in 1..m /\ \A k \in 1..n : k \in 1..m
        BY <1>1, <1>2, <1>3, <1>4
    <2>2. /\ \A k \in 1..n : s[k] = u[k]
          /\ n = Len(s) \/ s[n + 1] < u[n + 1]
        BY <1>2, <1>3, <2>1
    <2> QED
        BY <1>2, <2>1, <2>2 DEF Precedes
<1>5. CASE n = m
    <2>1. n < Len(u) /\ t[n + 1] < u[n + 1]
        BY <1>2, <1>3, <1>5
    <2>2. \A k \in 1..n : s[k] = u[k]
        BY <1>2, <1>3, <1>5
    <2>3. n = Len(s) \/ s[n + 1] < u[n + 1]
        <3>1. CASE n = Len(s)
            BY <3>1
        <3>2. CASE n # Len(s)
            <4>1. n + 1 \in 1..Len(s) /\ n + 1 \in 1..Len(t) /\ n + 1 \in 1..Len(u)
                BY <1>1, <1>2, <2>1, <3>2
            <4>2. s[n + 1] \in Int /\ t[n + 1] \in Int /\ u[n + 1] \in Int
                BY <1>1, <4>1
            <4>3. s[n + 1] < t[n + 1]
                BY <1>2, <3>2
            <4> HIDE DEF Strings
            <4> QED
                BY <4>2, <4>3, <2>1
        <3> QED
            BY <3>1, <3>2
    <2> QED
        BY <1>2, <2>1, <2>2, <2>3 DEF Precedes
<1>6. CASE m < n
    <2>1. /\ m \in 0..Len(s) /\ m # Len(t) /\ m + 1 \in 1..n
          /\ \A k \in 1..m : k \in 1..n
        BY <1>1, <1>2, <1>3, <1>6
    <2>2. s[m + 1] < u[m + 1]
        BY <1>2, <1>3, <2>1
    <2>3. \A k \in 1..m : s[k] = u[k]
        BY <1>2, <1>3, <2>1
    <2> QED
        BY <1>3, <2>1, <2>2, <2>3 DEF Precedes
<1> QED
    BY <1>1, <1>4, <1>5, <1>6

\* Of two strings that differ one precedes the other.
LEMMA TotalLemma ==
    ASSUME NEW s \in Strings, NEW t \in Strings, s # t
    PROVE  Precedes(s, t) \/ Precedes(t, s)
<1>1. /\ Len(s) \in Nat /\ Len(t) \in Nat
      /\ \A k \in 1..Len(s) : s[k] \in Int
      /\ \A k \in 1..Len(t) : t[k] \in Int
    BY StringLemma
<1> DEFINE differ == {k \in 1..Len(s) : k <= Len(t) /\ s[k] # t[k]}
<1>2. CASE differ = {}
    <2>1. \A k \in 1..Len(s) : k <= Len(t) => s[k] = t[k]
        BY <1>2
    <2>2. CASE Len(s) < Len(t)
        BY <1>1, <2>1, <2>2 DEF Precedes
    <2>3. CASE Len(t) < Len(s)
        <3>1. \A k \in 1..Len(t) : t[k] = s[k]
            BY <1>1, <2>1, <2>3
        <3> QED
            BY <1>1, <2>3, <3>1 DEF Precedes
    <2>4. CASE Len(s) = Len(t)
        <3>1. \A k \in 1..Len(s) : s[k] = t[k]
            BY <1>1, <2>1, <2>4
        <3>2. s = t
            BY <2>4, <3>1 DEF Strings
        <3> QED
            BY <3>2
    <2> QED
        BY <1>1, <2>2, <2>3, <2>4
<1>3. CASE differ # {}
    <2>1. differ \subseteq Nat
        BY <1>1
    <2>2. \E x \in differ : \A y \in differ : ~(y < x)
        <3> DEFINE less == {p \in Nat \X Nat : p[1] < p[2]}
        <3>1. IsWellFoundedOn(less, Nat)
            BY NatLessThanWellFounded DEF OpToRel
        <3> HIDE DEF less, differ
        <3>2. PICK x \in differ : \A y \in differ : ~(<<y, x>> \in less)
            BY <1>3, <2>1, <3>1, WFMin, Zenon
        <3>3. ASSUME NEW y \in differ PROVE ~(y < x)
            <4>1. y \in Nat /\ x \in Nat /\ <<y, x>> \notin less
                BY <2>1, <3>2
            <4> QED
                BY <4>1 DEF less
        <3> QED
            BY <3>3
    <2>3. PICK x \in differ : \A y \in differ : ~(y < x)
        BY <2>2
    <2>4. /\ x \in 1..Len(s) /\ x \in 1..Len(t) /\ s[x] # t[x]
          /\ x - 1 \in 0..Len(s) /\ x - 1 \in 0..Len(t)
          /\ x - 1 < Len(s) /\ x - 1 < Len(t) /\ (x - 1) + 1 = x
        BY <1>1, <2>3
    <2>5. \A k \in 1..x - 1 : s[k] = t[k]
        <3> SUFFICES ASSUME NEW k \in 1..x - 1, s[k] # t[k] PROVE FALSE
            OBVIOUS
        <3>1. k \in differ
            BY <1>1, <2>4
        <3> QED
            BY <2>3, <2>4, <3>1
    <2> DEFINE n == x - 1
    <2>6. n \in 0..Len(s) /\ n \in 0..Len(t) /\ n < Len(s) /\ n < Len(t) /\ n + 1 = x
        BY <2>4
    <2>7. s[n + 1] < t[n + 1] \/ t[n + 1] < s[n + 1]
        BY <1>1, <2>4, <2>6
    <2>8. \A k \in 1..n : s[k] = t[k] /\ t[k] = s[k]
        BY <2>5
    <2> HIDE DEF n
    <2> QED
        BY <2>6, <2>7, <2>8 DEF Precedes
<1> QED
    BY <1>2, <1>3

\* A string precedes what it begins, and nothing comes after it and before it.
LEMMA AppendLemma ==
    ASSUME NEW s \in Strings
    PROVE  Append(s, 1) \in Strings /\ Precedes(s, Append(s, 1))
<1>1. /\ Append(s, 1) \in Strings /\ Len(Append(s, 1)) = Len(s) + 1 /\ Len(s) \in Nat
      /\ \A k \in 1..Len(s) : s[k] = Append(s, 1)[k]
    BY DEF Strings, Bytes
<1> QED
    BY <1>1 DEF Precedes

\* Not both of two strings precede each other.
LEMMA AsymmetricLemma ==
    ASSUME NEW s \in Strings, NEW t \in Strings, Precedes(s, t)
    PROVE  ~Precedes(t, s)
    BY TransitiveLemma, IrreflexiveLemma

(***************************************************************************)
(* Pages: strings numbered in their order.                                 *)
(***************************************************************************)
Before(later, key) == {k \in later : Precedes(k, key)}
Number(later, key) == Cardinality(Before(later, key)) + 1

\* The numbers of a finite set of strings are those from 1 to its size, in the
\* order of the strings.
LEMMA NumberLemma ==
    ASSUME NEW later, IsFiniteSet(later), later \subseteq Strings
    PROVE  /\ {Number(later, key) : key \in later} = 1..Cardinality(later)
           /\ Cardinality(later) \in Nat
           /\ \A k, l \in later : Precedes(k, l) => Number(later, k) < Number(later, l)
<1> DEFINE size == Cardinality(later)
           f == [key \in later |-> Number(later, key)]
           T == {Number(later, key) : key \in later}
<1>1. size \in Nat
    BY FS_CardinalityType
<1>2. ASSUME NEW key \in later
      PROVE  /\ IsFiniteSet(Before(later, key))
             /\ Cardinality(Before(later, key)) \in Nat
             /\ Number(later, key) \in 1..size
    <2>1. Before(later, key) \in SUBSET later /\ Before(later, key) # later
        BY IrreflexiveLemma DEF Before
    <2>2. /\ IsFiniteSet(Before(later, key))
          /\ Cardinality(Before(later, key)) <= size
          /\ Cardinality(Before(later, key)) # size
        BY <2>1, FS_Subset
    <2>3. Cardinality(Before(later, key)) \in Nat
        BY <2>2, FS_CardinalityType
    <2> QED
        BY <1>1, <2>2, <2>3 DEF Number
<1>3. ASSUME NEW k \in later, NEW l \in later, Precedes(k, l)
      PROVE  Number(later, k) < Number(later, l)
    <2>1. Before(later, k) \in SUBSET Before(later, l)
        BY <1>3, TransitiveLemma DEF Before
    <2>2. k \in Before(later, l) /\ k \notin Before(later, k)
        BY <1>3, IrreflexiveLemma DEF Before
    <2>3. /\ Cardinality(Before(later, k)) <= Cardinality(Before(later, l))
          /\ Cardinality(Before(later, k)) # Cardinality(Before(later, l))
        BY <1>2, <2>1, <2>2, FS_Subset
    <2>4. /\ Cardinality(Before(later, k)) \in Nat
          /\ Cardinality(Before(later, l)) \in Nat
        BY <1>2
    <2> QED
        BY <2>3, <2>4 DEF Number
<1>4. f \in Injection(later, T)
    <2>1. f \in [later -> T]
        OBVIOUS
    <2>2. ASSUME NEW k \in later, NEW l \in later, Number(later, k) = Number(later, l)
          PROVE  k = l
        <3> SUFFICES ASSUME k # l PROVE FALSE
            OBVIOUS
        <3>1. Precedes(k, l) \/ Precedes(l, k)
            BY TotalLemma
        <3>2. Number(later, k) \in 1..size /\ Number(later, l) \in 1..size
            BY <1>2
        <3> QED
            BY <1>3, <2>2, <3>1, <3>2
    <2> QED
        BY <2>1, <2>2 DEF Injection, IsInjective
<1>5. f \in Surjection(later, T)
    BY DEF Surjection
<1>6. IsFiniteSet(T) /\ Cardinality(T) = size
    BY <1>4, <1>5, FS_Surjection
<1>7. T \in SUBSET (1..size)
    BY <1>2
<1>8. IsFiniteSet(1..size) /\ Cardinality(1..size) = size
    BY <1>1, FS_Interval
<1>9. T = 1..size
    BY <1>6, <1>7, <1>8, FS_Subset
<1> QED
    BY <1>1, <1>3, <1>9

(***************************************************************************)
(* Assets and their keys.                                                  *)
(***************************************************************************)
RawPairs == RawInfos \X RawInfos

\* An asset in its raw form is one as users may name it, and comes back from
\* being spelled out.
LEMMA RawLemma ==
    ASSUME NEW raw \in RawInfos
    PROVE  raw \in AssetInfo /\ to_raw(to_normal(raw)) = raw /\ to_normal(raw) \in AssetInfo
           /\ as_bytes(raw) \in Strings
<1>1. PICK info \in AssetInfos : raw = to_raw(info)
    BY DEF RawInfos
<1>2. info \in AssetInfo
    BY FactoryAssumption
<1>3. CASE info.native
    <2>1. raw = info /\ to_normal(raw) = raw
        BY <1>1, <1>3 DEF to_raw, to_normal
    <2> QED
        BY <1>2, <1>3, <2>1 DEF to_raw, as_bytes, AssetInfo, Strings
<1>4. CASE ~info.native
    <2> DEFINE addr == addr_canonicalize[info.name]
    <2>1. raw = [native |-> FALSE, name |-> addr]
        BY <1>1, <1>4 DEF to_raw
    <2>2. addr \in DOMAIN addr_humanize
        BY <1>4, FactoryAssumption
    <2>3. /\ addr \in Strings /\ addr_humanize[addr] \in Strings
          /\ addr_canonicalize[addr_humanize[addr]] = addr
        BY <2>2, FactoryAssumption DEF Strings
    <2> HIDE DEF addr
    <2>4. to_normal(raw) = [native |-> FALSE, name |-> addr_humanize[addr]]
        BY <2>1 DEF to_normal
    <2>5. to_raw(to_normal(raw)) = raw
        <3> DEFINE normal == [native |-> FALSE, name |-> addr_humanize[addr]]
        <3>1. ~normal.native /\ normal.name = addr_humanize[addr]
            OBVIOUS
        <3> HIDE DEF normal
        <3>2. to_raw(normal) = [native |-> FALSE, name |-> addr_canonicalize[normal.name]]
            BY <3>1, Zenon DEF to_raw
        <3>3. to_raw(normal) = raw
            BY <2>1, <2>3, <3>1, <3>2
        <3> QED
            BY <2>4, <3>3 DEF normal
    <2>6. \A name \in Strings : [native |-> FALSE, name |-> name] \in AssetInfo
        BY DEF AssetInfo, Strings
    <2> QED
        BY <2>1, <2>3, <2>4, <2>5, <2>6 DEF as_bytes
<1> QED
    BY <1>3, <1>4

\* Two assets as users name them are in RawPairs in their raw form.
LEMMA TwosLemma ==
    ASSUME NEW asset_infos \in Twos
    PROVE  Raw(asset_infos) \in RawPairs
    BY DEF Raw, RawPairs, RawInfos, Twos

\* Two assets have a key, the same whichever is named first, and come back from
\* being spelled out.
LEMMA KeyLemma ==
    ASSUME NEW x \in RawPairs
    PROVE  /\ pair_key(x) \in Strings /\ calc_range_start(x) \in Strings
           /\ Precedes(pair_key(x), calc_range_start(x))
           /\ Raw(Normal(x)) = x
           /\ x # Unset /\ Normal(x) # Unset
           /\ \A y \in RawPairs : AssetsOf(x) = AssetsOf(y) => pair_key(x) = pair_key(y)
<1>1. x[1] \in RawInfos /\ x[2] \in RawInfos /\ x = <<x[1], x[2]>>
    BY DEF RawPairs
<1>2. /\ as_bytes(x[1]) \in Strings /\ as_bytes(x[2]) \in Strings
      /\ to_raw(to_normal(x[1])) = x[1] /\ to_raw(to_normal(x[2])) = x[2]
      /\ x[1] \in AssetInfo /\ x[2] \in AssetInfo
      /\ to_normal(x[1]) \in AssetInfo /\ to_normal(x[2]) \in AssetInfo
    BY <1>1, RawLemma
<1>3. pair_key(x) \in Strings
    BY <1>2 DEF pair_key, Strings
<1>4. calc_range_start(x) \in Strings /\ Precedes(pair_key(x), calc_range_start(x))
    BY <1>3, AppendLemma DEF calc_range_start
<1>5. Raw(Normal(x)) = x
    BY <1>1, <1>2, Zenon DEF Raw, Normal
<1>6. x # Unset /\ Normal(x) # Unset
    <2>1. Normal(x) \in AssetInfo \X AssetInfo
        BY <1>2 DEF Normal
    <2>2. x \in AssetInfo \X AssetInfo
        BY <1>1, <1>2
    <2> QED
        BY <2>1, <2>2, FactoryAssumption
<1>7. ASSUME NEW y \in RawPairs, AssetsOf(x) = AssetsOf(y)
      PROVE  pair_key(x) = pair_key(y)
    <2>1. \/ y[1] = x[1] /\ y[2] = x[2]
          \/ y[1] = x[2] /\ y[2] = x[1]
        BY <1>7 DEF AssetsOf
    <2>2. CASE y[1] = x[1] /\ y[2] = x[2]
        BY <2>2 DEF pair_key
    <2>3. CASE y[1] = x[2] /\ y[2] = x[1]
        <3> DEFINE s == as_bytes(x[1])
                   t == as_bytes(x[2])
        <3>1. /\ pair_key(x) = IF Precedes(t, s) THEN t \o s ELSE s \o t
              /\ pair_key(y) = IF Precedes(s, t) THEN s \o t ELSE t \o s
            BY <2>3 DEF pair_key
        <3>2. s \in Strings /\ t \in Strings
            BY <1>2
        <3> HIDE DEF s, t
        <3> QED
            BY <3>1, <3>2, TotalLemma, AsymmetricLemma
    <2> QED
        BY <2>1, <2>2, <2>3
<1> QED
    BY <1>3, <1>4, <1>5, <1>6, <1>7

\* What the directory holds, and that it is finite.
LEMMA ListedLemma ==
    ASSUME IInv
    PROVE  /\ IsFiniteSet(DOMAIN pairs) /\ DOMAIN pairs \subseteq Strings
           /\ \A key \in DOMAIN pairs :
                 /\ pairs[key] \in PairInfos
                 /\ pairs[key].asset_infos \in RawPairs
                 /\ key = pair_key(pairs[key].asset_infos)
           /\ \A key, other \in DOMAIN pairs :
                 pairs[key].contract_addr = pairs[other].contract_addr => key = other
<1>1. ContractsOK(pair_infos) /\ Agrees(pairs, pair_infos, token_infos)
    BY DEF IInv
<1>2. ASSUME NEW key \in DOMAIN pairs
      PROVE  /\ pairs[key] \in PairInfos
             /\ pairs[key].asset_infos \in RawPairs
             /\ key = pair_key(pairs[key].asset_infos)
             /\ pairs[key].contract_addr \in DOMAIN pair_infos
             /\ pair_infos[pairs[key].contract_addr] = pairs[key]
    BY <1>1 DEF Agrees, ContractsOK, PairInfos, RawPairs
<1>3. ASSUME NEW key \in DOMAIN pairs, NEW other \in DOMAIN pairs,
             pairs[key].contract_addr = pairs[other].contract_addr
      PROVE  key = other
    <2>1. pairs[key] = pairs[other]
        BY <1>2, <1>3
    <2> QED
        BY <1>2, <2>1
<1>4. DOMAIN pairs \subseteq Strings
    BY <1>2, KeyLemma
<1>5. IsFiniteSet(DOMAIN pairs)
    <2> DEFINE f == [addr \in DOMAIN pair_infos |-> pair_key(pair_infos[addr].asset_infos)]
               T == {f[addr] : addr \in DOMAIN pair_infos}
    <2>1. f \in Surjection(DOMAIN pair_infos, T)
        BY DEF Surjection
    <2>2. IsFiniteSet(T)
        BY <1>1, <2>1, FS_Surjection DEF ContractsOK
    <2>3. DOMAIN pairs \in SUBSET T
        <3> SUFFICES ASSUME NEW key \in DOMAIN pairs PROVE key \in T
            OBVIOUS
        <3>1. f[pairs[key].contract_addr] = key
            BY <1>2
        <3> QED
            BY <1>2, <3>1
    <2> QED
        BY <2>2, <2>3, FS_Subset
<1> QED
    BY <1>2, <1>3, <1>4, <1>5

(***************************************************************************)
(* Queries.                                                                *)
(***************************************************************************)
Start(cursor) == IF cursor = Unset THEN Unset ELSE Raw(cursor)
Later(start) == {key \in DOMAIN pairs : After(start, key)}

\* A page holds the first of the pairs later, and is empty only if there are none.
IsPage(page, later) ==
    \E given \in SUBSET later :
        /\ {page[n].contract_addr : n \in DOMAIN page}
              = {pairs[key].contract_addr : key \in given}
        /\ given = {} => later = {}
        /\ given # {} =>
               \E last \in given :
                  /\ page[Cardinality(DOMAIN page)].asset_infos
                        = Normal(pairs[last].asset_infos)
                  /\ \A key \in given : key = last \/ Precedes(key, last)
                  /\ \A key \in later \ given : Precedes(last, key)

\* A query is answered with the first pairs after its bound.
LEMMA PageLemma ==
    ASSUME IInv, NEW start, NEW limit \in Limits
    PROVE  IsPage(read_pairs(start, limit), Later(start))
<1> DEFINE later == Later(start)
           size == Cardinality(later)
           page == read_pairs(start, limit)
           m == IF size <= PageSize(limit) THEN size ELSE PageSize(limit)
           at(n) == CHOOSE key \in later : Number(later, key) = n
           given == {key \in later : Number(later, key) \in 1..m}
<1>1. IsFiniteSet(later) /\ later \subseteq Strings /\ later \subseteq DOMAIN pairs
    BY ListedLemma, FS_Subset DEF Later
<1>2. /\ {Number(later, key) : key \in later} = 1..size
      /\ size \in Nat
      /\ \A k, l \in later : Precedes(k, l) => Number(later, k) < Number(later, l)
    BY <1>1, NumberLemma
<1>3. PageSize(limit) \in Nat \ {0}
    BY FactoryAssumption DEF PageSize
<1>4. /\ m \in Nat /\ 1..size \cap 1..PageSize(limit) = 1..m
      /\ m <= size /\ (m = 0 => size = 0) /\ m <= PageSize(limit)
      /\ (m = size \/ m = PageSize(limit))
    BY <1>2, <1>3
<1>5. page = [n \in 1..m |-> pair_to_normal(pairs[at(n)])]
    <2>1. page = [n \in {Number(later, key) : key \in later} \cap 1..PageSize(limit) |->
                     pair_to_normal(pairs[at(n)])]
        BY DEF read_pairs, Later, Number, Before
    <2> HIDE DEF page, later, size, m, at
    <2> QED
        BY <1>2, <1>4, <2>1
<1> HIDE DEF page, later, size, m
<1>6. \A n \in 1..m : at(n) \in later /\ Number(later, at(n)) = n
    <2> SUFFICES ASSUME NEW n \in 1..m PROVE at(n) \in later /\ Number(later, at(n)) = n
        OBVIOUS
    <2>1. n \in 1..size
        BY <1>2, <1>4
    <2>2. \E key \in later : Number(later, key) = n
        BY <1>2, <2>1
    <2> QED
        BY <2>2
<1>7. \A key \in later : Number(later, key) \in 1..size
    BY <1>2
<1>8. \A k, l \in later : k = l \/ Number(later, k) < Number(later, l)
                               \/ Number(later, l) < Number(later, k)
    BY <1>1, <1>2, TotalLemma
<1>9. \A key \in given : at(Number(later, key)) = key
    <2> SUFFICES ASSUME NEW key \in given PROVE at(Number(later, key)) = key
        OBVIOUS
    <2>1. key \in later /\ Number(later, key) \in 1..m
        OBVIOUS
    <2> DEFINE n == Number(later, key)
    <2> HIDE DEF at
    <2>2. at(n) \in later /\ Number(later, at(n)) = n
        BY <1>6, <2>1
    <2>3. n \in Int
        BY <2>1
    <2> QED
        BY <1>8, <2>1, <2>2, <2>3
<1> HIDE DEF at
<1>10. \A n \in 1..m : at(n) \in given
    BY <1>6
<1>11. DOMAIN page = 1..m /\ \A n \in 1..m : page[n] = pair_to_normal(pairs[at(n)])
    BY <1>5
<1>12. \A key \in given :
          /\ pair_to_normal(pairs[key]).contract_addr = pairs[key].contract_addr
          /\ pair_to_normal(pairs[key]).asset_infos = Normal(pairs[key].asset_infos)
    <2> SUFFICES ASSUME NEW key \in given
                 PROVE  /\ pair_to_normal(pairs[key]).contract_addr = pairs[key].contract_addr
                        /\ pair_to_normal(pairs[key]).asset_infos = Normal(pairs[key].asset_infos)
        OBVIOUS
    <2>1. pairs[key] \in PairInfos
        BY <1>1, ListedLemma
    <2> QED
        BY <2>1 DEF PairInfos, pair_to_normal
<1>13. {page[n].contract_addr : n \in DOMAIN page} = {pairs[key].contract_addr : key \in given}
    <2>1. \A n \in 1..m : page[n].contract_addr = pairs[at(n)].contract_addr
        BY <1>10, <1>11, <1>12
    <2>2. \A key \in given : Number(later, key) \in 1..m
        OBVIOUS
    <2> HIDE DEF given
    <2> QED
        BY <1>9, <1>10, <1>11, <2>1, <2>2
<1>14. given = {} => later = {}
    <2> SUFFICES ASSUME given = {}, later # {} PROVE FALSE
        OBVIOUS
    <2>1. size > 0
        BY <1>2, <1>7
    <2>2. 1 \in 1..m
        BY <1>2, <1>4, <2>1
    <2> QED
        BY <1>10, <2>2
<1>15. ASSUME given # {}
       PROVE  \E last \in given :
                 /\ page[Cardinality(DOMAIN page)].asset_infos
                       = Normal(pairs[last].asset_infos)
                 /\ \A key \in given : key = last \/ Precedes(key, last)
                 /\ \A key \in later \ given : Precedes(last, key)
    <2>1. m \in 1..m
        BY <1>4, <1>15
    <2>2. Cardinality(DOMAIN page) = m
        BY <1>4, <1>11, <2>1, FS_Interval
    <2>3. at(m) \in given /\ at(m) \in later /\ Number(later, at(m)) = m
        BY <1>6, <1>10, <2>1
    <2>4. page[m].asset_infos = Normal(pairs[at(m)].asset_infos)
        BY <1>11, <1>12, <2>1, <2>3
    <2>5. ASSUME NEW key \in later
          PROVE  key = at(m) \/ Precedes(key, at(m)) \/ Precedes(at(m), key)
        BY <1>1, <2>3, TotalLemma
    <2>6. ASSUME NEW key \in given PROVE key = at(m) \/ Precedes(key, at(m))
        <3>1. Number(later, key) \in 1..m /\ key \in later
            OBVIOUS
        <3>2. ~Precedes(at(m), key)
            BY <1>2, <1>4, <2>3, <3>1
        <3> QED
            BY <2>5, <3>1, <3>2
    <2>7. ASSUME NEW key \in later \ given PROVE Precedes(at(m), key)
        <3>1. Number(later, key) \in 1..size /\ Number(later, key) \notin 1..m
            BY <1>7
        <3>2. key # at(m) /\ ~Precedes(key, at(m))
            BY <1>2, <1>4, <2>3, <3>1
        <3> QED
            BY <2>5, <3>2
    <2> QED
        BY <2>2, <2>3, <2>4, <2>6, <2>7
<1>16. given \in SUBSET later
    OBVIOUS
<1> HIDE DEF given
<1>17. IsPage(page, later)
    BY <1>13, <1>14, <1>15, <1>16 DEF IsPage
<1> QED
    BY <1>17 DEF page, later

(***************************************************************************)
(* The client.                                                             *)
(***************************************************************************)
Cursors == {Unset} \cup {Normal(x) : x \in RawPairs}
Listings == [stage : {"idle", "reading", "done"}, cursor : Cursors, owed : SUBSET Nat,
             seen : SUBSET Nat, repeated : BOOLEAN]

\* What a client has been given is listed and not after its cursor.
ListingOK ==
    /\ listing \in Listings /\ ListedOnce
    /\ listing.seen \subseteq Listed /\ listing.owed \subseteq Listed
    /\ \A key \in DOMAIN pairs :
          pairs[key].contract_addr \in listing.seen => ~After(Start(listing.cursor), key)

\* What it is owed and has not been given is after its cursor.
OwedOK ==
    listing.stage = "reading" =>
        \A key \in DOMAIN pairs :
            pairs[key].contract_addr \in listing.owed =>
                \/ pairs[key].contract_addr \in listing.seen
                \/ After(Start(listing.cursor), key)

\* A transaction lists one contract, which was not listed, under a free key.
Lists ==
    \E new \in DOMAIN pairs' \ DOMAIN pairs :
        /\ DOMAIN pairs' = DOMAIN pairs \cup {new}
        /\ \A key \in DOMAIN pairs : pairs'[key] = pairs[key]
        /\ pairs'[new].contract_addr \notin Listed

\* A query gives the client pairs from after its cursor, in order, and none it
\* has been given; when there are none the client ends.
Ending == Later(Start(listing.cursor)) = {} /\ listing' = [listing EXCEPT !.stage = "done"]

Reading ==
    \E given \in SUBSET Later(Start(listing.cursor)) :
        \E last \in given :
            /\ \A key \in given : key = last \/ Precedes(key, last)
            /\ \A key \in Later(Start(listing.cursor)) \ given : Precedes(last, key)
            /\ listing' = [listing EXCEPT
                              !.cursor = Normal(pairs[last].asset_infos),
                              !.seen = @ \cup {pairs[key].contract_addr : key \in given}]

\* A query either gives something new or ends the reading.
LEMMA ReadLemma ==
    ASSUME IInv, ListingOK, NEW limit \in Limits, read_on(limit)
    PROVE  Ending \/ Reading
<1> DEFINE start == Start(listing.cursor)
           later == Later(start)
           page == query_pairs(listing.cursor, limit)
           got == {page[n].contract_addr : n \in DOMAIN page}
<1>1. IsPage(page, later)
    <2>1. page = read_pairs(start, limit)
        BY DEF query_pairs, Start
    <2> HIDE DEF page
    <2> QED
        BY <2>1, PageLemma
<1>2. listing' = IF got = {}
                 THEN [listing EXCEPT !.stage = "done"]
                 ELSE [listing EXCEPT
                          !.cursor = page[Cardinality(DOMAIN page)].asset_infos,
                          !.seen = @ \cup got,
                          !.repeated = @ \/ got \cap listing.seen # {}]
    BY DEF read_on
<1>3. listing \in Listings /\ ~listing.repeated
    BY DEF ListingOK, ListedOnce
<1> HIDE DEF page
<1>4. PICK given \in SUBSET later :
          /\ got = {pairs[key].contract_addr : key \in given}
          /\ given = {} => later = {}
          /\ given # {} =>
                 \E last \in given :
                    /\ page[Cardinality(DOMAIN page)].asset_infos
                          = Normal(pairs[last].asset_infos)
                    /\ \A key \in given : key = last \/ Precedes(key, last)
                    /\ \A key \in later \ given : Precedes(last, key)
    BY <1>1 DEF IsPage
<1>5. got = {} <=> given = {}
    BY <1>4
<1>6. got \cap listing.seen = {}
    BY <1>4 DEF ListingOK, Later
<1> HIDE DEF got, later
<1>7. CASE got = {}
    <2>1. later = {} /\ listing' = [listing EXCEPT !.stage = "done"]
        BY <1>2, <1>4, <1>5, <1>7
    <2> QED
        BY <2>1 DEF Ending, later
<1>8. CASE got # {}
    <2>1. PICK last \in given :
              /\ page[Cardinality(DOMAIN page)].asset_infos = Normal(pairs[last].asset_infos)
              /\ \A key \in given : key = last \/ Precedes(key, last)
              /\ \A key \in later \ given : Precedes(last, key)
        BY <1>4, <1>5, <1>8
    <2> DEFINE next == Normal(pairs[last].asset_infos)
    <2>2. listing' = [listing EXCEPT !.cursor = next, !.seen = @ \cup got, !.repeated = FALSE]
        <3>1. (listing.repeated \/ got \cap listing.seen # {}) = FALSE
            BY <1>3, <1>6
        <3>2. listing' = [listing EXCEPT
                             !.cursor = page[Cardinality(DOMAIN page)].asset_infos,
                             !.seen = @ \cup got,
                             !.repeated = @ \/ got \cap listing.seen # {}]
            BY <1>2, <1>8
        <3> QED
            BY <2>1, <3>1, <3>2, Zenon
    <2> HIDE DEF next
    <2>3. listing.repeated = FALSE
        BY <1>3 DEF Listings
    <2>4. listing' = [listing EXCEPT !.cursor = next, !.seen = @ \cup got]
        BY <1>3, <2>2, <2>3 DEF Listings
    <2> QED
        BY <1>4, <2>1, <2>4 DEF Reading, later, next
<1> QED
    BY <1>7, <1>8

\* The factory's reply lists the contract that was set up.
LEMMA ListsLemma ==
    ASSUME IInv, reply
    PROVE  Lists
<1> DEFINE new == tmp_pair_info.pair_key
           info == [asset_infos |-> tmp_pair_info.asset_infos,
                    contract_addr |-> pending.contract_addr,
                    liquidity_token |-> query_liquidity_token(pending.contract_addr)]
<1>1. /\ pending.stage = "reply"
      /\ pairs' = [k \in DOMAIN pairs \cup {new} |-> IF k = new THEN info ELSE pairs[k]]
    BY DEF reply
<1>2. TmpOK /\ NewPair(pending.contract_addr)
    BY <1>1 DEF IInv, PendingOK
<1>3. new \notin DOMAIN pairs /\ pending.contract_addr \notin Listed
    BY <1>2 DEF TmpOK, NewPair, Listed
<1>4. info.contract_addr = pending.contract_addr
    OBVIOUS
<1> HIDE DEF new, info
<1>5. /\ DOMAIN pairs' = DOMAIN pairs \cup {new} /\ pairs'[new] = info
      /\ \A key \in DOMAIN pairs : pairs'[key] = pairs[key]
    BY <1>1, <1>3
<1> QED
    BY <1>3, <1>4, <1>5 DEF Lists

\* What a step does to the directory and to the client.
LEMMA StepLemma ==
    ASSUME IInv, [Next]_vars
    PROVE  \/ UNCHANGED <<pairs, listing>>
           \/ Lists /\ UNCHANGED listing
           \/ pairs' = pairs /\ (start_listing \/ \E limit \in Limits : read_on(limit))
<1>1. CASE reply
    BY <1>1, ListsLemma DEF reply
<1>2. CASE Abort
    BY <1>2 DEF Abort, IInv, CommittedOK
<1>3. CASE start_listing
    BY <1>3 DEF start_listing
<1>4. CASE \E limit \in Limits : read_on(limit)
    BY <1>4 DEF read_on
<1>5. CASE ExecuteMsg
    BY <1>5 DEF ExecuteMsg, execute_update_config, execute_create_pair
<1>6. CASE instantiate_pair \/ instantiate_token \/ reply_pair
    BY <1>6 DEF instantiate_pair, instantiate_token, reply_pair
<1> QED
    BY <1>1, <1>2, <1>3, <1>4, <1>5, <1>6 DEF Next, vars

\* Keys in order: after a bound, then up to the last of a page, whose bound is
\* after all of them.
LEMMA BoundLemma ==
    ASSUME IInv, ListingOK, NEW last \in Later(Start(listing.cursor)),
           NEW key \in DOMAIN pairs,
           ~After(Start(listing.cursor), key) \/ key = last \/ Precedes(key, last)
    PROVE  ~After(Start(Normal(pairs[last].asset_infos)), key)
<1> DEFINE x == pairs[last].asset_infos
           bound == calc_range_start(x)
<1>1. last \in DOMAIN pairs /\ After(Start(listing.cursor), last)
    BY DEF Later
<1>2. /\ last \in Strings /\ key \in Strings /\ x \in RawPairs /\ last = pair_key(x)
    BY <1>1, ListedLemma
<1>3. bound \in Strings /\ Precedes(last, bound) /\ Start(Normal(x)) = x /\ x # Unset
    BY <1>2, KeyLemma DEF Start
<1> HIDE DEF x, bound
<1>4. ~Precedes(bound, key)
    <2> SUFFICES ASSUME Precedes(bound, key) PROVE FALSE
        OBVIOUS
    <2>1. Precedes(last, key)
        BY <1>2, <1>3, TransitiveLemma
    <2>2. ~(key = last \/ Precedes(key, last))
        BY <1>2, <2>1, AsymmetricLemma, IrreflexiveLemma
    <2>3. ~After(Start(listing.cursor), key)
        BY <2>2
    <2> DEFINE start == Start(listing.cursor)
    <2>4. start # Unset /\ Precedes(calc_range_start(start), last)
        BY <1>1, <2>3 DEF After
    <2>5. start \in RawPairs
        <3>1. listing.cursor # Unset /\ listing.cursor \in Cursors
            BY <2>4 DEF Start, ListingOK, Listings
        <3>2. PICK y \in RawPairs : listing.cursor = Normal(y)
            BY <3>1 DEF Cursors
        <3> QED
            BY <3>1, <3>2, KeyLemma DEF Start
    <2>6. calc_range_start(start) \in Strings
        BY <2>5, KeyLemma
    <2> HIDE DEF start
    <2>7. Precedes(calc_range_start(start), key)
        BY <1>2, <2>1, <2>4, <2>6, TransitiveLemma
    <2> QED
        BY <2>3, <2>7 DEF After, start
<1> QED
    BY <1>3, <1>4 DEF After, bound, x

\* Every step keeps what is known of the client.
LEMMA ListingLemma ==
    ASSUME IInv, ListingOK, [Next]_vars
    PROVE  ListingOK'
<1>1. CASE UNCHANGED <<pairs, listing>>
    BY <1>1 DEF ListingOK, ListedOnce, Listed
<1>2. CASE Lists /\ UNCHANGED listing
    <2>1. PICK new \in DOMAIN pairs' \ DOMAIN pairs :
              /\ DOMAIN pairs' = DOMAIN pairs \cup {new}
              /\ \A key \in DOMAIN pairs : pairs'[key] = pairs[key]
              /\ pairs'[new].contract_addr \notin Listed
        BY <1>2 DEF Lists
    <2>2. Listed \subseteq Listed'
        BY <2>1 DEF Listed
    <2>3. \A key \in DOMAIN pairs' :
              pairs'[key].contract_addr \in listing.seen => ~After(Start(listing.cursor), key)
        BY <2>1 DEF ListingOK
    <2> QED
        BY <1>2, <2>2, <2>3 DEF ListingOK, ListedOnce
<1>3. CASE pairs' = pairs /\ start_listing
    <2>1. listing' = [stage |-> "reading", cursor |-> Unset, owed |-> Listed, seen |-> {},
                      repeated |-> FALSE]
        BY <1>3 DEF start_listing, NotReading
    <2>2. Listed \in SUBSET Nat
        BY ListedLemma DEF Listed, PairInfos
    <2>3. listing' \in Listings
        BY <2>1, <2>2 DEF Listings, Cursors
    <2> QED
        BY <1>3, <2>1, <2>3 DEF ListingOK, ListedOnce, Listed
<1>4. CASE pairs' = pairs /\ \E limit \in Limits : read_on(limit)
    <2>1. Ending \/ Reading
        BY <1>4, ReadLemma
    <2>2. CASE Ending
        <3>1. /\ listing' \in Listings /\ listing'.repeated = listing.repeated
              /\ listing'.seen = listing.seen /\ listing'.owed = listing.owed
              /\ listing'.cursor = listing.cursor
            BY <2>2 DEF Ending, ListingOK, Listings
        <3> QED
            BY <1>4, <3>1 DEF ListingOK, ListedOnce, Listed
    <2>3. CASE Reading
        <3>1. PICK given \in SUBSET Later(Start(listing.cursor)) : \E last \in given :
                  /\ \A key \in given : key = last \/ Precedes(key, last)
                  /\ listing' = [listing EXCEPT
                                    !.cursor = Normal(pairs[last].asset_infos),
                                    !.seen = @ \cup {pairs[key].contract_addr : key \in given}]
            BY <2>3 DEF Reading
        <3>2. PICK last \in given :
                  /\ \A key \in given : key = last \/ Precedes(key, last)
                  /\ listing' = [listing EXCEPT
                                    !.cursor = Normal(pairs[last].asset_infos),
                                    !.seen = @ \cup {pairs[key].contract_addr : key \in given}]
            BY <3>1
        <3> DEFINE next == Normal(pairs[last].asset_infos)
                   got == {pairs[key].contract_addr : key \in given}
        <3>3. given \subseteq DOMAIN pairs /\ last \in DOMAIN pairs
            BY DEF Later
        <3>4. got \subseteq Listed /\ got \subseteq Nat
            BY <3>3, ListedLemma DEF Listed, PairInfos
        <3>5. next \in Cursors
            BY <3>3, ListedLemma DEF Cursors
        <3>6. \A key \in DOMAIN pairs :
                  pairs[key].contract_addr \in got => key \in given
            BY <3>3, ListedLemma
        <3>7. listing' = [listing EXCEPT !.cursor = next, !.seen = @ \cup got]
            BY <3>2
        <3> HIDE DEF next, got
        <3>8. /\ listing' \in Listings /\ listing'.repeated = listing.repeated
              /\ listing'.owed = listing.owed
              /\ listing'.seen = listing.seen \cup got /\ listing'.cursor = next
            BY <3>4, <3>5, <3>7 DEF ListingOK, Listings
        <3>9. ASSUME NEW key \in DOMAIN pairs, pairs[key].contract_addr \in listing.seen \cup got
              PROVE  ~After(Start(next), key)
            <4>1. ~After(Start(listing.cursor), key) \/ key = last \/ Precedes(key, last)
                BY <3>2, <3>6, <3>9 DEF ListingOK
            <4> QED
                BY <4>1, BoundLemma DEF next
        <3> QED
            BY <1>4, <3>4, <3>8, <3>9 DEF ListingOK, ListedOnce, Listed
    <2> QED
        BY <2>1, <2>2, <2>3
<1> QED
    BY <1>1, <1>2, <1>3, <1>4, StepLemma

\* No pair is given to a client twice.
THEOREM GivenOnce == Spec => []ListedOnce
<1>1. Init => ListingOK
    <2> SUFFICES ASSUME Init PROVE ListingOK
        OBVIOUS
    <2>1. listing = [stage |-> "idle", cursor |-> Unset, owed |-> {}, seen |-> {},
                     repeated |-> FALSE]
        BY DEF Init, NotReading
    <2>2. listing \in Listings
        BY <2>1 DEF Listings, Cursors
    <2> QED
        BY <2>1, <2>2 DEF ListingOK, ListedOnce
<1>2. IInv /\ ListingOK /\ [Next]_vars => ListingOK'
    BY ListingLemma
<1>3. ListingOK => ListedOnce
    BY DEF ListingOK
<1> QED
    BY <1>1, <1>2, <1>3, Inductive, PTL DEF Spec

(***************************************************************************)
(* What holds of assets whose names tell them apart.  A key is the two     *)
(* names run together, and says neither where the first ends nor that the  *)
(* second is complete.                                                     *)
(***************************************************************************)
\* No key stands for two sets of assets.
OneKeyEach ==
    \A x, y \in RawPairs : pair_key(x) = pair_key(y) => AssetsOf(x) = AssetsOf(y)

\* A key that begins with the whole of another goes on with a byte above 1, the
\* byte that ends a bound.
KeysApart ==
    \A x, y \in RawPairs :
        LET s == pair_key(x)
            t == pair_key(y)
        IN  Len(s) < Len(t) /\ (\A k \in 1..Len(s) : s[k] = t[k]) => t[Len(s) + 1] > 1

\* If no two sets of assets share a key, a query for two assets finds their
\* pair, however they are named, or none.
THEOREM QueriesAreFaithful == OneKeyEach /\ Spec => []DirectoryFaithful
<1> SUFFICES ASSUME OneKeyEach PROVE Spec => []DirectoryFaithful
    OBVIOUS
<1>1. IInv => DirectoryFaithful
    <2> SUFFICES ASSUME IInv PROVE DirectoryFaithful
        OBVIOUS
    <2>1. ASSUME NEW asset_infos \in Twos, Registered(asset_infos)
          PROVE  AssetsOf(Raw(query_pair(asset_infos).asset_infos)) = AssetsOf(Raw(asset_infos))
        <3> DEFINE key == pair_key(Raw(asset_infos))
                   x == pairs[key].asset_infos
        <3>1. key \in DOMAIN pairs
            BY <2>1 DEF Registered
        <3>2. pairs[key] \in PairInfos /\ x \in RawPairs /\ pair_key(x) = key
            BY <3>1, ListedLemma
        <3>3. query_pair(asset_infos).asset_infos = Normal(x)
            BY <3>2 DEF query_pair, pair_to_normal, PairInfos
        <3>4. Raw(Normal(x)) = x
            BY <3>2, KeyLemma
        <3>5. Raw(asset_infos) \in RawPairs
            BY <2>1, TwosLemma
        <3>6. AssetsOf(x) = AssetsOf(Raw(asset_infos))
            BY <3>2, <3>5 DEF OneKeyEach
        <3> HIDE DEF x
        <3> QED
            BY <3>3, <3>4, <3>6
    <2>2. ASSUME NEW asset_infos \in Twos, NEW key \in DOMAIN pairs,
                 AssetsOf(pairs[key].asset_infos) = AssetsOf(Raw(asset_infos))
          PROVE  key = pair_key(Raw(asset_infos))
        <3>1. Raw(asset_infos) \in RawPairs
            BY TwosLemma
        <3>2. pairs[key].asset_infos \in RawPairs /\ key = pair_key(pairs[key].asset_infos)
            BY ListedLemma
        <3> QED
            BY <2>2, <3>1, <3>2, KeyLemma
    <2> QED
        BY <2>1, <2>2 DEF DirectoryFaithful, Twos
<1> QED
    BY <1>1, Inductive, PTL

\* Then what comes after a key comes after its bound.
LEMMA ApartLemma ==
    ASSUME KeysApart, NEW x \in RawPairs, NEW y \in RawPairs,
           Precedes(pair_key(x), pair_key(y))
    PROVE  Precedes(calc_range_start(x), pair_key(y))
<1> DEFINE s == pair_key(x)
           t == pair_key(y)
           b == Append(s, 1)
<1>1. s \in Strings /\ t \in Strings
    BY KeyLemma
<1>2. /\ Len(s) \in Nat /\ Len(b) = Len(s) + 1 /\ b[Len(s) + 1] = 1
      /\ \A k \in 1..Len(s) : b[k] = s[k]
    BY <1>1 DEF Strings
<1>3. Len(s) < Len(t) /\ (\A k \in 1..Len(s) : s[k] = t[k]) => t[Len(s) + 1] > 1
    BY DEF KeysApart
<1>4. calc_range_start(x) = b
    BY DEF calc_range_start
<1> HIDE DEF s, t, b
<1>5. PICK n \in 0..Len(s) : /\ n < Len(t)
                             /\ \A k \in 1..n : s[k] = t[k]
                             /\ n = Len(s) \/ s[n + 1] < t[n + 1]
    BY DEF Precedes, s, t
<1>6. /\ n \in 0..Len(b) /\ \A k \in 1..n : b[k] = t[k]
    BY <1>2, <1>5
<1>7. b[n + 1] < t[n + 1]
    <2>1. CASE n = Len(s)
        <3>1. t[n + 1] > 1
            BY <1>3, <1>5, <2>1
        <3>2. t[n + 1] \in Int
            <4>1. n + 1 \in 1..Len(t)
                BY <1>1, <1>2, <1>5, StringLemma
            <4> QED
                BY <1>1, <4>1, StringLemma
        <3> QED
            BY <1>2, <2>1, <3>1, <3>2
    <2>2. CASE n # Len(s)
        <3>1. n + 1 \in 1..Len(s)
            BY <1>2, <1>5, <2>2
        <3> QED
            BY <1>2, <1>5, <2>2, <3>1
    <2> QED
        BY <2>1, <2>2
<1> QED
    BY <1>4, <1>5, <1>6, <1>7 DEF Precedes, t

\* Every step keeps what a client is owed within its reach.
LEMMA OwedLemma ==
    ASSUME KeysApart, IInv, ListingOK, OwedOK, [Next]_vars
    PROVE  OwedOK'
<1>1. CASE UNCHANGED <<pairs, listing>>
    BY <1>1 DEF OwedOK
<1>2. CASE Lists /\ UNCHANGED listing
    BY <1>2 DEF Lists, OwedOK, ListingOK
<1>3. CASE pairs' = pairs /\ start_listing
    <2>1. listing'.cursor = Unset
        BY <1>3 DEF start_listing, NotReading
    <2> QED
        BY <2>1 DEF OwedOK, After, Start
<1>4. CASE pairs' = pairs /\ \E limit \in Limits : read_on(limit)
    <2>1. Ending \/ Reading
        BY <1>4, ReadLemma
    <2>2. listing \in Listings /\ listing.stage = "reading"
        BY <1>4 DEF ListingOK, read_on
    <2>3. CASE Ending
        <3>1. listing'.stage = "done"
            BY <2>2, <2>3 DEF Ending, Listings
        <3> QED
            BY <3>1 DEF OwedOK
    <2>4. CASE Reading
        <3>1. PICK given \in SUBSET Later(Start(listing.cursor)) : \E last \in given :
                  /\ \A key \in Later(Start(listing.cursor)) \ given : Precedes(last, key)
                  /\ listing' = [listing EXCEPT
                                    !.cursor = Normal(pairs[last].asset_infos),
                                    !.seen = @ \cup {pairs[key].contract_addr : key \in given}]
            BY <2>4 DEF Reading
        <3>2. PICK last \in given :
                  /\ \A key \in Later(Start(listing.cursor)) \ given : Precedes(last, key)
                  /\ listing' = [listing EXCEPT
                                    !.cursor = Normal(pairs[last].asset_infos),
                                    !.seen = @ \cup {pairs[key].contract_addr : key \in given}]
            BY <3>1
        <3> DEFINE x == pairs[last].asset_infos
                   next == Normal(x)
                   got == {pairs[key].contract_addr : key \in given}
        <3>3. x \in RawPairs /\ last = pair_key(x)
            BY ListedLemma DEF Later
        <3>4. Start(next) = x
            BY <3>3, KeyLemma DEF Start
        <3>5. listing' = [listing EXCEPT !.cursor = next, !.seen = @ \cup got]
            BY <3>2
        <3> HIDE DEF next
        <3>6. /\ listing'.cursor = next /\ listing'.seen = listing.seen \cup got
              /\ listing'.owed = listing.owed
            BY <2>2, <3>5 DEF Listings
        <3>7. ASSUME NEW key \in DOMAIN pairs, pairs[key].contract_addr \in listing.owed
              PROVE  pairs[key].contract_addr \in listing.seen \cup got \/ After(x, key)
            <4>1. CASE pairs[key].contract_addr \in listing.seen \/ key \in given
                BY <4>1
            <4>2. CASE pairs[key].contract_addr \notin listing.seen /\ key \notin given
                <5>1. key \in Later(Start(listing.cursor))
                    BY <2>2, <3>7, <4>2 DEF OwedOK, Later
                <5>2. Precedes(last, key)
                    BY <3>2, <4>2, <5>1
                <5>3. pairs[key].asset_infos \in RawPairs
                      /\ key = pair_key(pairs[key].asset_infos)
                    BY ListedLemma
                <5>4. Precedes(calc_range_start(x), key)
                    BY <3>3, <5>2, <5>3, ApartLemma
                <5> QED
                    BY <5>4 DEF After
            <4> QED
                BY <4>1, <4>2
        <3> QED
            BY <1>4, <3>4, <3>6, <3>7 DEF OwedOK
    <2> QED
        BY <2>1, <2>3, <2>4
<1> QED
    BY <1>1, <1>2, <1>3, <1>4, StepLemma

\* What the directory says from outside.
Entry(key) == [assets |-> AssetsOf(pairs[key].asset_infos),
               contract |-> pairs[key].contract_addr]
Entries == {Entry(key) : key \in DOMAIN pairs}

\* The contracts of its entries are those that are listed.
LEMMA ContractsLemma == D!Contracts = Listed
<1>1. D!Contracts = {e.contract : e \in Entries}
    BY DEF D!Contracts, Entries, Entry
<1>2. \A key \in DOMAIN pairs : Entry(key).contract = pairs[key].contract_addr
    BY DEF Entry
<1> QED
    BY <1>1, <1>2 DEF Entries, Listed

\* A contract that is listed is a new one, for assets that had none.
LEMMA ListLemma ==
    ASSUME IInv, IInv', Lists, UNCHANGED listing
    PROVE  D!List
<1>1. PICK new \in DOMAIN pairs' \ DOMAIN pairs :
          /\ DOMAIN pairs' = DOMAIN pairs \cup {new}
          /\ \A key \in DOMAIN pairs : pairs'[key] = pairs[key]
          /\ pairs'[new].contract_addr \notin Listed
    BY DEF Lists
<1> DEFINE e == [assets |-> AssetsOf(pairs'[new].asset_infos),
                 contract |-> pairs'[new].contract_addr]
<1>2. \A key \in DOMAIN pairs' : /\ pairs'[key].asset_infos \in RawPairs
                                 /\ key = pair_key(pairs'[key].asset_infos)
    <2>1. \A key \in DOMAIN pairs : /\ pairs[key].asset_infos \in RawPairs
                                    /\ key = pair_key(pairs[key].asset_infos)
        BY ListedLemma
    <2>2. ContractsOK(pair_infos') /\ Agrees(pairs', pair_infos', token_infos')
        BY DEF IInv
    <2>3. /\ new = pair_key(pairs'[new].asset_infos)
          /\ pairs'[new].contract_addr \in DOMAIN pair_infos'
          /\ pair_infos'[pairs'[new].contract_addr] = pairs'[new]
        BY <2>2 DEF Agrees
    <2>4. pairs'[new] \in PairInfos
        BY <2>2, <2>3 DEF ContractsOK
    <2>5. pairs'[new].asset_infos \in RawPairs
        BY <2>4 DEF PairInfos, RawPairs
    <2> QED
        BY <1>1, <2>1, <2>3, <2>5
<1>3. \A f \in Entries : f.assets # e.assets /\ f.contract # e.contract
    <2> SUFFICES ASSUME NEW key \in DOMAIN pairs
                 PROVE  Entry(key).assets # e.assets /\ Entry(key).contract # e.contract
        BY DEF Entries
    <2>1. Entry(key).contract # e.contract
        BY <1>1 DEF Entry, Listed
    <2>2. AssetsOf(pairs'[key].asset_infos) # AssetsOf(pairs'[new].asset_infos)
        BY <1>1, <1>2, KeyLemma
    <2> QED
        BY <1>1, <2>1, <2>2 DEF Entry
<1>4. Entries' = Entries \cup {e}
    <2>1. Entry(new)' = e
        BY DEF Entry
    <2>2. \A key \in DOMAIN pairs : Entry(key)' = Entry(key)
        BY <1>1 DEF Entry
    <2> HIDE DEF e
    <2> QED
        BY <1>1, <2>1, <2>2 DEF Entries
<1>5. e \in Entries' \ Entries
    BY <1>3, <1>4
<1>6. e.contract \notin D!Contracts
    BY <1>1, ContractsLemma
<1>7. /\ Entries = {[assets |-> AssetsOf(pairs[key].asset_infos),
                     contract |-> pairs[key].contract_addr] : key \in DOMAIN pairs}
      /\ Entries' = {[assets |-> AssetsOf(pairs'[key].asset_infos),
                      contract |-> pairs'[key].contract_addr] : key \in DOMAIN pairs'}
    BY DEF Entries, Entry
<1> HIDE DEF e
<1> QED
    BY <1>3, <1>4, <1>5, <1>6, <1>7 DEF D!List

\* If every key is told from those it begins, a client that reads to the end is
\* given all that was listed when it began, and nothing but what is listed, in a
\* directory that has one contract for each set of assets and only grows.
THEOREM ImplementsADirectory == KeysApart /\ Spec => ImplementsDirectory
<1> SUFFICES ASSUME KeysApart PROVE Spec => ImplementsDirectory
    OBVIOUS
<1>1. Init => D!Init /\ ListingOK /\ OwedOK
    <2> SUFFICES ASSUME Init PROVE D!Init /\ ListingOK /\ OwedOK
        OBVIOUS
    <2>1. listing = [stage |-> "idle", cursor |-> Unset, owed |-> {}, seen |-> {},
                     repeated |-> FALSE]
        BY DEF Init, NotReading
    <2>2. listing \in Listings
        BY <2>1 DEF Listings, Cursors
    <2>3. DOMAIN pairs = {}
        BY DEF Init, Empty
    <2> QED
        BY <2>1, <2>2, <2>3 DEF ListingOK, ListedOnce, OwedOK, D!Init
<1>2. IInv /\ ListingOK /\ OwedOK /\ [Next]_vars => ListingOK' /\ OwedOK'
    BY ListingLemma, OwedLemma
<1>3. IInv /\ IInv' /\ ListingOK /\ OwedOK /\ [Next]_vars => [D!Next]_D!vars
    <2> SUFFICES ASSUME IInv, IInv', ListingOK, OwedOK, [Next]_vars PROVE [D!Next]_D!vars
        OBVIOUS
    <2>1. CASE UNCHANGED <<pairs, listing>>
        BY <2>1 DEF D!vars
    <2>2. CASE Lists /\ UNCHANGED listing
        BY <2>2, ListLemma DEF D!Next
    <2>3. CASE pairs' = pairs /\ start_listing
        <3>1. listing' = [stage |-> "reading", cursor |-> Unset, owed |-> Listed, seen |-> {},
                          repeated |-> FALSE] /\ listing.stage # "reading"
            BY <2>3 DEF start_listing, NotReading
        <3> QED
            BY <2>3, <3>1, ContractsLemma DEF D!Next, D!Begin
    <2>4. CASE pairs' = pairs /\ \E limit \in Limits : read_on(limit)
        <3>1. Ending \/ Reading
            BY <2>4, ReadLemma
        <3>2. listing \in Listings /\ listing.stage = "reading"
            BY <2>4 DEF ListingOK, read_on
        <3>3. CASE Ending
            <4>1. /\ listing'.stage = "done"
                  /\ listing'.owed = listing.owed /\ listing'.seen = listing.seen
                BY <3>2, <3>3 DEF Ending, Listings
            <4>2. listing.owed \subseteq listing.seen
                BY <3>2, <3>3 DEF Ending, OwedOK, ListingOK, Listed, Later
            <4> QED
                BY <2>4, <3>2, <4>1, <4>2 DEF D!Next, D!End
        <3>4. CASE Reading
            <4>1. /\ listing'.stage = "reading" /\ listing'.owed = listing.owed
                  /\ listing.seen \subseteq listing'.seen
                BY <3>2, <3>4 DEF Reading, Listings
            <4>2. ListingOK'
                BY <1>2
            <4>3. listing'.seen \subseteq Listed
                BY <2>4, <4>2 DEF ListingOK, Listed
            <4> QED
                BY <2>4, <3>2, <4>1, <4>3, ContractsLemma DEF D!Next, D!Give, D!vars
        <3> QED
            BY <3>1, <3>3, <3>4
    <2> QED
        BY <2>1, <2>2, <2>3, <2>4, StepLemma
<1> QED
    BY <1>1, <1>2, <1>3, Inductive, PTL DEF Spec, ImplementsDirectory, D!Spec

=============================================================================
