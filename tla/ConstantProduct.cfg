\* Two users, a taxed denomination, a commission of a quarter, gifts.
SPECIFICATION Spec
CONSTANTS
    Two64 = 46340
    U128Max = 46340
    U256Max = 2147395599
    COMMISSION_RATE = 250
    NativeTokens = {uusd}
    Uluna = uluna
    DECIMAL_FRACTION = 1000
    TaxRate = 300
    TaxCap = 1
    Alice = Alice
    Bob = Bob
    Pair = Pair
    LpToken = LpToken
    Assets = {uusd, token}
    Pools <- OnePool
    Endowment <- Both6and2
    Amounts = {0, 1, 2, 4, 6}
    Receivers = {Alice}
    Tolerances = {Unset, 300}
    Limits <- SomeLimits
    Gifts = {1}
    Unset = Unset
    uusd = uusd
    uluna = uluna
    token = token
INVARIANTS PayoutsCovered NeverDrained QuoteSuffices
PROPERTIES NobodyDiluted ProductKept SimulationHonoured ImplementsVault
CHECK_DEADLOCK FALSE
