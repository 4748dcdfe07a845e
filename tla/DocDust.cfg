\* README: a user can provide liquidity to each pool.
SPECIFICATION Spec
CONSTANTS
    Two64 = 46340
    U128Max = 2147395599
    FEE_DENOMINATOR = 10000
    ITERATIONS = 32
    NativeTokens = {uusd}
    Uluna = uluna
    DECIMAL_FRACTION = 1000000
    TaxRate = 300000
    TaxCap = 1
    Alice = Alice
    Bob = Bob
    Pair = Pair
    LpToken = LpToken
    Assets = {uusd, token}
    InstantiateMsgs <- OnePool
    Endowment <- Only6
    Amounts = {0, 1, 3, 6}
    MinOuts = {0}
    Receivers = {Alice}
    SwapPairs <- TwoWay
    Gifts = {}
    SupplyBound = 100
    uusd = uusd
    uluna = uluna
    token = token
INVARIANTS AcceptsDeposits
