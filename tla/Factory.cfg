\* A directory that is read while pairs are created, with good and bad code ids.
SPECIFICATION Spec
CONSTANTS
    Unset = Unset
    AssetInfos <- PrefixNames
    addr_canonicalize <- Canonical
    addr_humanize <- Human
    u1 = u1
    u2 = u2
    Users = {u1, u2}
    CodeIds = {1, 2}
    PairCodes = {1}
    TokenCodes = {2}
    MAX_LIMIT = 2
    DEFAULT_LIMIT = 1
    Limits = {Unset, 3}
INVARIANTS ListedAgrees DirectoryFaithful ListedOnce
PROPERTIES PairsKept ImplementsDirectory ListingEnds
