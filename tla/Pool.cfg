\* One provider, three assets, every operation.
SPECIFICATION Spec
CONSTANTS
    Two64 = 46340
    U128Max = 2147395599
    FEE_DENOMINATOR = 10000
    ITERATIONS = 32
    NativeTokens = {uusd, uluna}
    Uluna = uluna
    DECIMAL_FRACTION = 1000000
    TaxRate = 0
    TaxCap = 0
    Alice = Alice
    Bob = Bob
    Pair = Pair
    LpToken = LpToken
    Assets = {uusd, uluna, token}
    InstantiateMsgs <- ThreeCoins
    Endowment <- Only4
    Amounts = {0, 1, 4}
    MinOuts = {0}
    Receivers = {Alice}
    SwapPairs <- Distinct
    Gifts = {}
    SupplyBound = 100
    uusd = uusd
    uluna = uluna
    token = token
INVARIANTS TypeOK NeverDrained AcceptsDeposits
PROPERTIES ImplementsVault WithdrawsBalanced
