\* README: a directory for all pairs.
SPECIFICATION Spec
CONSTANTS
    Unset = Unset
    AssetInfos <- SplitNames
    addr_canonicalize <- Canonical
    addr_humanize <- Human
    u1 = u1
    u2 = u2
    Users = {u1}
    CodeIds = {1, 2}
    PairCodes = {1}
    TokenCodes = {2}
    MAX_LIMIT = 2
    DEFAULT_LIMIT = 1
    Limits = {Unset, 3}
INVARIANTS DirectoryFaithful
