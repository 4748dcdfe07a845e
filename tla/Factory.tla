------------------------------- MODULE Factory -------------------------------
(***************************************************************************)
(* The factory (contracts/terraswap_factory): a directory of pairs, one    *)
(* for each key.  Creating a pair takes one transaction of five steps: the *)
(* factory's call, the instantiation of the pair, that of its LP token,    *)
(* the pair's reply, and the factory's own reply, which lists the pair.  A *)
(* failure in any of them undoes them all.                                 *)
(*                                                                         *)
(* A client reads the directory page by page, other transactions coming in *)
(* between: it asks for the pairs after the last one it was given, until   *)
(* it is given none.  PAIRS changes only in the last step of a             *)
(* transaction, so that a query never finds it half done.                  *)
(***************************************************************************)
EXTENDS Token, FiniteSets

CONSTANTS
    AssetInfos,         \* the assets, as users name them
    addr_canonicalize,  \* external: the address behind a spelling of it
    addr_humanize,      \* external: the usual spelling of an address
    Users,              \* who may own the factory
    CodeIds,            \* the code ids the owner may configure
    PairCodes,          \* those of them that are the pair contract
    TokenCodes,         \* those of them that are the token contract
    MAX_LIMIT,          \* 30 in the code
    DEFAULT_LIMIT,      \* 10 in the code
    Limits              \* the limits clients ask for; Unset when they do not

NoToken == -1           \* CanonicalAddr::from(vec![])
Bytes == 0..255

Config == [owner : Users, token_code_id : CodeIds, pair_code_id : CodeIds]
\* Denominations, spellings and addresses are strings of bytes.
AssetInfo == [native : BOOLEAN, name : Seq(Bytes)]

ASSUME FactoryAssumption ==
    /\ AssetInfos \subseteq AssetInfo
    /\ \A info \in AssetInfos :
          ~info.native => addr_canonicalize[info.name] \in DOMAIN addr_humanize
    /\ \A addr \in DOMAIN addr_humanize :
          /\ addr \in Seq(Bytes) /\ addr_humanize[addr] \in Seq(Bytes)
          /\ addr_canonicalize[addr_humanize[addr]] = addr
    /\ Unset \notin AssetInfo \X AssetInfo
    /\ MAX_LIMIT \in Nat \ {0} /\ DEFAULT_LIMIT \in Nat \ {0}
    /\ Limits \subseteq (Nat \ {0}) \cup {Unset}

VARIABLES
    config,         \* CONFIG
    pairs,          \* PAIRS, from keys to PairInfoRaw
    tmp_pair_info,  \* TMP_PAIR_INFO
    pair_infos,     \* the PAIR_INFO of every pair contract, by its address
    token_infos,    \* the TOKEN_INFO of every LP token, by its address
    pending,        \* what is left of the transaction in progress
    committed,      \* the state at the end of the last transaction
    listing         \* the client's progress

vars == <<config, pairs, tmp_pair_info, pair_infos, token_infos, pending, committed,
          listing>>

(***************************************************************************)
(* Assets: an AssetInfo names a token by any spelling of its address, an   *)
(* AssetInfoRaw by the address itself.  A denomination is its own name.    *)
(***************************************************************************)
to_raw(info) ==
    IF info.native THEN info
    ELSE [native |-> FALSE, name |-> addr_canonicalize[info.name]]

to_normal(raw) ==
    IF raw.native THEN raw
    ELSE [native |-> FALSE, name |-> addr_humanize[raw.name]]

as_bytes(raw) == raw.name

Raw(asset_infos) == <<to_raw(asset_infos[1]), to_raw(asset_infos[2])>>
Normal(raw_infos) == <<to_normal(raw_infos[1]), to_normal(raw_infos[2])>>

\* PairInfoRaw::to_normal.  A contract's address is a number, however it is
\* spelled.
pair_to_normal(info) == [info EXCEPT !.asset_infos = Normal(@)]

(***************************************************************************)
(* Keys: the concatenated bytes of the two assets, the smaller first.      *)
(***************************************************************************)
\* The order of byte strings.
Precedes(s, t) ==
    \E n \in 0..Len(s) :
        /\ n < Len(t)
        /\ \A k \in 1..n : s[k] = t[k]
        /\ n = Len(s) \/ s[n + 1] < t[n + 1]

\* Mutant: the assets are not sorted.
pair_key_unsorted(raw_infos) == as_bytes(raw_infos[1]) \o as_bytes(raw_infos[2])

\* Of two assets in their raw form.
pair_key(raw_infos) ==
    LET s == as_bytes(raw_infos[1])
        t == as_bytes(raw_infos[2])
    IN  IF Precedes(t, s) THEN t \o s ELSE s \o t

(***************************************************************************)
(* Queries.                                                                *)
(***************************************************************************)
\* Mutant: a byte above every other.
calc_range_far(start_after) == Append(pair_key(start_after), 255)

\* The bound after which a page starts: the key with the byte 1 appended.
calc_range_start(start_after) == Append(pair_key(start_after), 1)

\* Mutant: the page starts at the bound's key.
AfterOrAt(start_after, key) ==
    start_after = Unset \/ ~Precedes(key, pair_key(start_after))

After(start_after, key) ==
    start_after = Unset \/ Precedes(calc_range_start(start_after), key)

PageSize(limit) ==
    LET asked == IF limit = Unset THEN DEFAULT_LIMIT ELSE limit
    IN  IF asked <= MAX_LIMIT THEN asked ELSE MAX_LIMIT

\* The first pairs after the bound, in the order of their keys.
read_pairs(start_after, limit) ==
    LET later == {key \in DOMAIN pairs : After(start_after, key)}
        number(key) == Cardinality({k \in later : Precedes(k, key)}) + 1
    IN  [n \in {number(key) : key \in later} \cap 1..PageSize(limit) |->
            pair_to_normal(pairs[CHOOSE key \in later : number(key) = n])]

query_pairs(start_after, limit) ==
    read_pairs(IF start_after = Unset THEN Unset ELSE Raw(start_after), limit)

Registered(asset_infos) == pair_key(Raw(asset_infos)) \in DOMAIN pairs
query_pair(asset_infos) == pair_to_normal(pairs[pair_key(Raw(asset_infos))])

(***************************************************************************)
(* Transactions.                                                           *)
(***************************************************************************)
NoTx == [stage |-> "none"]
Idle == pending = NoTx
Snapshot(c, p, t, q, l) == [config |-> c, pairs |-> p, tmp_pair_info |-> t,
                            pair_infos |-> q, token_infos |-> l]

\* Only the owner can execute it; a field may be left as it is.
execute_update_config(sender, owner, token_code_id, pair_code_id) ==
    /\ Idle
    /\ sender = config.owner
    /\ config' = [owner |-> IF owner = Unset THEN config.owner ELSE owner,
                  token_code_id |-> IF token_code_id = Unset
                                    THEN config.token_code_id ELSE token_code_id,
                  pair_code_id |-> IF pair_code_id = Unset
                                   THEN config.pair_code_id ELSE pair_code_id]
    /\ committed' = [committed EXCEPT !.config = config']
    /\ UNCHANGED <<pairs, tmp_pair_info, pair_infos, token_infos, pending, listing>>

\* Mutant: a key that is taken is not refused.
CanCreateAnyway(asset_infos) == TRUE

CanCreate(asset_infos) == ~Registered(asset_infos)

\* Mutant: a record of an earlier pair is kept.
TmpKept(asset_infos) ==
    IF tmp_pair_info.asset_infos = << >>
    THEN [pair_key |-> pair_key(Raw(asset_infos)), asset_infos |-> Raw(asset_infos)]
    ELSE tmp_pair_info

TmpPairInfo(asset_infos) ==
    [pair_key |-> pair_key(Raw(asset_infos)), asset_infos |-> Raw(asset_infos)]

execute_create_pair(asset_infos) ==
    /\ Idle
    /\ CanCreate(asset_infos)
    /\ tmp_pair_info' = TmpPairInfo(asset_infos)
    /\ pending' = [stage |-> "pair", asset_infos |-> asset_infos,
                   pair_code_id |-> config.pair_code_id,
                   token_code_id |-> config.token_code_id]
    /\ UNCHANGED <<config, pairs, pair_infos, token_infos, committed, listing>>

\* The pair's instantiate.  Addresses are numbered: a pair's is odd, that of
\* its LP token the next.
instantiate_pair ==
    LET addr == 2 * Cardinality(DOMAIN pair_infos) + 1
        info == [asset_infos |-> Raw(pending.asset_infos), contract_addr |-> addr,
                 liquidity_token |-> NoToken]
    IN  /\ pending.stage = "pair"
        /\ pending.pair_code_id \in PairCodes
        /\ pair_infos' = [a \in DOMAIN pair_infos \cup {addr} |->
                             IF a = addr THEN info ELSE pair_infos[a]]
        /\ pending' = [stage |-> "token", contract_addr |-> addr,
                       token_code_id |-> pending.token_code_id]
        /\ UNCHANGED <<config, pairs, tmp_pair_info, token_infos, committed, listing>>

\* The LP token that a pair asks for: "terraswap liquidity token", a name of 25
\* bytes of which only the length matters, and "uLP".
LpTokenMsg(contract_addr) ==
    [name |-> [k \in 1..25 |-> 97], symbol |-> <<117, 76, 80>>, decimals |-> 6,
     initial_balances |-> << >>, mint |-> [minter |-> contract_addr, cap |-> Unset]]

\* The LP token's instantiate.
instantiate_token ==
    LET msg == LpTokenMsg(pending.contract_addr)
        addr == pending.contract_addr + 1
    IN  /\ pending.stage = "token"
        /\ pending.token_code_id \in TokenCodes
        /\ Accepts(msg)
        /\ token_infos' = [a \in DOMAIN token_infos \cup {addr} |->
                              IF a = addr THEN TokenInfo(msg) ELSE token_infos[a]]
        /\ pending' = [stage |-> "token reply", contract_addr |-> pending.contract_addr]
        /\ UNCHANGED <<config, pairs, tmp_pair_info, pair_infos, committed, listing>>

\* The pair's reply stores the address of its LP token.
reply_pair ==
    /\ pending.stage = "token reply"
    /\ pair_infos' = [pair_infos EXCEPT ![pending.contract_addr].liquidity_token =
                                            pending.contract_addr + 1]
    /\ pending' = [stage |-> "reply", contract_addr |-> pending.contract_addr]
    /\ UNCHANGED <<config, pairs, tmp_pair_info, token_infos, committed, listing>>

query_liquidity_token(contract_addr) == pair_infos[contract_addr].liquidity_token

\* The factory's reply: the pair is listed, under the key that is stored.
reply ==
    LET key == tmp_pair_info.pair_key
        info == [asset_infos |-> tmp_pair_info.asset_infos,
                 contract_addr |-> pending.contract_addr,
                 liquidity_token |-> query_liquidity_token(pending.contract_addr)]
        listed == [k \in DOMAIN pairs \cup {key} |-> IF k = key THEN info ELSE pairs[k]]
    IN  /\ pending.stage = "reply"
        /\ pairs' = listed
        /\ pending' = NoTx
        /\ committed' = Snapshot(config, listed, tmp_pair_info, pair_infos, token_infos)
        /\ UNCHANGED <<config, tmp_pair_info, pair_infos, token_infos, listing>>

\* External: any step may fail (a wrong code id, gas); everything is undone.
Abort ==
    /\ ~Idle
    /\ config' = committed.config
    /\ pairs' = committed.pairs
    /\ tmp_pair_info' = committed.tmp_pair_info
    /\ pair_infos' = committed.pair_infos
    /\ token_infos' = committed.token_infos
    /\ pending' = NoTx
    /\ UNCHANGED <<committed, listing>>

(***************************************************************************)
(* External: the client, which knows a pair by its contract's address.     *)
(***************************************************************************)
NotReading == [stage |-> "idle", cursor |-> Unset, owed |-> {}, seen |-> {},
               repeated |-> FALSE]

Listed == {pairs[key].contract_addr : key \in DOMAIN pairs}

start_listing ==
    /\ listing.stage # "reading"
    /\ listing' = [NotReading EXCEPT !.stage = "reading", !.owed = Listed]
    /\ UNCHANGED <<config, pairs, tmp_pair_info, pair_infos, token_infos, pending,
                   committed>>

\* One query: the next page, or the end.
read_on(limit) ==
    LET page == query_pairs(listing.cursor, limit)
        got == {page[n].contract_addr : n \in DOMAIN page}
    IN  /\ listing.stage = "reading"
        /\ listing' = IF got = {}
                      THEN [listing EXCEPT !.stage = "done"]
                      ELSE [listing EXCEPT
                               !.cursor = page[Cardinality(DOMAIN page)].asset_infos,
                               !.seen = @ \cup got,
                               !.repeated = @ \/ got \cap listing.seen # {}]
        /\ UNCHANGED <<config, pairs, tmp_pair_info, pair_infos, token_infos, pending,
                       committed>>

(***************************************************************************)
(* The specification.  Init is the state after the factory's instantiate.  *)
(***************************************************************************)
Empty == [x \in {} |-> 0]

Init ==
    /\ config \in Config
    /\ pairs = Empty
    /\ tmp_pair_info = [pair_key |-> << >>, asset_infos |-> << >>]
    /\ pair_infos = Empty
    /\ token_infos = Empty
    /\ pending = NoTx
    /\ committed = Snapshot(config, pairs, tmp_pair_info, pair_infos, token_infos)
    /\ listing = NotReading

\* The messages users may send to the factory.
ExecuteMsg ==
    \/ \E sender \in Users, owner \in Users \cup {Unset},
          token_code_id, pair_code_id \in CodeIds \cup {Unset} :
          execute_update_config(sender, owner, token_code_id, pair_code_id)
    \/ \E asset_infos \in AssetInfos \X AssetInfos : execute_create_pair(asset_infos)

Next ==
    \/ ExecuteMsg
    \/ instantiate_pair
    \/ instantiate_token
    \/ reply_pair
    \/ reply
    \/ Abort
    \/ start_listing
    \/ \E limit \in Limits : read_on(limit)

\* A client that has begun goes on asking, and a query is always answered.
Fairness == WF_vars(\E limit \in Limits : read_on(limit))

Spec == Init /\ [][Next]_vars /\ Fairness

(***************************************************************************)
(* Properties.                                                             *)
(***************************************************************************)
\* What the directory says of a pair is what the pair contract itself stores,
\* and its LP token exists and lets the pair mint, without a cap: the factory's
\* reply finds the record of its own call and comes after the pair's reply.
LpTokenOf(info) ==
    /\ info.liquidity_token \in DOMAIN token_infos
    /\ token_infos[info.liquidity_token].mint
          = [minter |-> info.contract_addr, cap |-> Unset]

ListedAgrees ==
    \A key \in DOMAIN pairs :
        /\ key = pair_key(pairs[key].asset_infos)
        /\ pairs[key].contract_addr \in DOMAIN pair_infos
        /\ pair_infos[pairs[key].contract_addr] = pairs[key]
        /\ LpTokenOf(pairs[key])

\* A pair that is listed stays listed, unchanged: later creations of the same
\* assets, in either order, failed ones too, never replace it.
PairsKept ==
    [][\A key \in DOMAIN pairs : key \in DOMAIN pairs' /\ pairs'[key] = pairs[key]]_pairs

\* query_pair finds the one pair of two assets, whichever is named first and
\* however the addresses are spelled, and answers for no other assets.
AssetsOf(raw_infos) == {raw_infos[1], raw_infos[2]}
DirectoryFaithful ==
    \A asset_infos \in AssetInfos \X AssetInfos :
        /\ Registered(asset_infos) =>
               AssetsOf(Raw(query_pair(asset_infos).asset_infos)) = AssetsOf(Raw(asset_infos))
        /\ \A key \in DOMAIN pairs :
               AssetsOf(pairs[key].asset_infos) = AssetsOf(Raw(asset_infos)) =>
                   key = pair_key(Raw(asset_infos))

\* No pair is given to a client twice, whatever is created before its cursor or
\* after it.
ListedOnce == ~listing.repeated

\* A client that goes on asking comes to the end of the directory, though pairs
\* are created while it reads.
ListingEnds == listing.stage = "reading" ~> listing.stage = "done"

\* Seen from outside, the factory is a Directory: one contract for each set of
\* assets, and a client who has read to the end has been given every pair that
\* was listed when it began.
D == INSTANCE Directory WITH
        entries <- {[assets |-> AssetsOf(pairs[key].asset_infos),
                     contract |-> pairs[key].contract_addr] : key \in DOMAIN pairs},
        reading <- listing.stage = "reading",
        owed <- listing.owed,
        given <- listing.seen
ImplementsDirectory == D!Spec

=============================================================================
