\* Routes of up to three operations, with a tax, over two pairs and the market.
SPECIFICATION Spec
CONSTANTS
    Two64 = 46340
    U128Max = 46340
    U256Max = 2147395599
    COMMISSION_RATE = 250
    NativeTokens = {uusd, uluna}
    Uluna = uluna
    DECIMAL_FRACTION = 1000
    TaxRate = 300
    TaxCap = 1
    Users = {alice, bob}
    Addr = Addr
    Assets = {uusd, uluna, token}
    pair_assets <- TwoPairs
    Reserve = 5
    Endowment <- OnlyAlice
    MarketRate = 900
    Routes <- ShortRoutes
    Amounts = {4}
    Coins <- SomeCoins
    Minimums = {Unset, 2}
    Receivers = {bob}
    Gifts = {4}
    Unset = Unset
    uusd = uusd
    uluna = uluna
    token = token
    p1 = p1
    p2 = p2
    alice = alice
    bob = bob
PROPERTIES MinimumReceived SimulationExact NothingStranded SwappedIntoOne ImplementsSettlement
CHECK_DEADLOCK FALSE
