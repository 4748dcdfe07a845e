\* u64 of 4 bits and u128 of 8 bits: casts truncate and products overflow.
SPECIFICATION Spec
CONSTANTS
    Two64 = 16
    U128Max = 255
    FEE_DENOMINATOR = 4
    ITERATIONS = 32
    NativeTokens = {uusd}
    Uluna = uluna
    DECIMAL_FRACTION = 100
    TaxRate = 0
    TaxCap = 0
    Alice = Alice
    Bob = Bob
    Pair = Pair
    LpToken = LpToken
    Assets = {uusd, token}
    InstantiateMsgs <- NarrowPool
    Endowment <- Only20
    Amounts = {0, 3, 17}
    MinOuts = {0}
    Receivers = {Alice}
    SwapPairs <- TwoWay
    Gifts = {}
    SupplyBound = 100
    uusd = uusd
    uluna = uluna
    token = token
INVARIANTS SupplyFitsU64 NeverDrained
PROPERTIES SharePriceKept
CHECK_DEADLOCK FALSE
