\* Two users, a taxed denomination, gifts that drive the reserves apart, receivers
\* of all kinds.
SPECIFICATION Spec
CONSTANTS
    Two64 = 46340
    U128Max = 2147395599
    FEE_DENOMINATOR = 10000
    ITERATIONS = 32
    NativeTokens = {uusd}
    Uluna = uluna
    DECIMAL_FRACTION = 1000000
    TaxRate = 300000
    TaxCap = 1
    Alice = Alice
    Bob = Bob
    Pair = Pair
    LpToken = LpToken
    Assets = {uusd, token}
    InstantiateMsgs <- LowAmp
    Endowment <- Only7
    Amounts = {1, 3}
    MinOuts = {0}
    Receivers = {Bob, Pair}
    SwapPairs <- TwoWay
    Gifts = {6}
    SupplyBound = 2
    uusd = uusd
    uluna = uluna
    token = token
INVARIANTS PayoutsCovered NeverUndervalued
PROPERTIES SharePriceKept WithdrawFair TakenOnCurve
CHECK_DEADLOCK FALSE
