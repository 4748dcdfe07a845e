\* README: a deposit below the tolerance is refused.
SPECIFICATION Spec
CONSTANTS
    Two64 = 16
    U128Max = 255
    FEE_DENOMINATOR = 4
    ITERATIONS = 32
    NativeTokens = {uusd}
    Uluna = uluna
    DECIMAL_FRACTION = 100
    TaxRate = 0
    TaxCap = 0
    Alice = Alice
    Bob = Bob
    Pair = Pair
    LpToken = LpToken
    Assets = {uusd, token}
    InstantiateMsgs <- NarrowPool
    Endowment <- Only6
    Amounts = {0, 1, 3, 6}
    MinOuts = {0, 17}
    Receivers = {Alice}
    SwapPairs <- TwoWay
    Gifts = {}
    SupplyBound = 100
    uusd = uusd
    uluna = uluna
    token = token
PROPERTIES DepositHonoursMinOut
