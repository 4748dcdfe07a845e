\* Every pool of two or three coins up to a bound, at four amplifications.
SPECIFICATION Spec
CONSTANTS
    Two64 = 46340
    U128Max = 2147395599
    FEE_DENOMINATOR = 10000
    ITERATIONS = 32
    Amps = {1, 2, 5, 60}
    Fees = {0, 2500}
    Coins = {2, 3}
    MaxBalance <- MCMaxBalance
    Offers = {1, 2, 3, 7}
INVARIANTS DIsRoot SwapKeepsD OfferMonotone ReverseCovers DepositKeepsPrice
CHECK_DEADLOCK FALSE
