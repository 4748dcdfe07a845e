\* pair.rs: swap an offer asset to the other.
SPECIFICATION Spec
CONSTANTS
    Two64 = 46340
    U128Max = 2147395599
    FEE_DENOMINATOR = 10000
    ITERATIONS = 32
    NativeTokens = {uusd, uluna}
    Uluna = uluna
    DECIMAL_FRACTION = 1000000
    TaxRate = 0
    TaxCap = 0
    Alice = Alice
    Bob = Bob
    Pair = Pair
    LpToken = LpToken
    Assets = {uusd, token, uluna}
    InstantiateMsgs <- OnePool
    Endowment <- Only6
    Amounts = {0, 1, 3, 6}
    MinOuts = {0}
    Receivers = {Alice}
    SwapPairs <- AnySwap
    Gifts = {}
    SupplyBound = 100
    uusd = uusd
    uluna = uluna
    token = token
PROPERTIES TradePaidIn
