SPECIFICATION Spec
CONSTANTS
    a = a
    b = b
    c = c
    i = i
    j = j
    Players <- ThreePlayers
    Items <- TwoItems
    None = None
    MAX_MONEY_AMOUNT = 2
    Capacity = 1
    Purse = 1
SYMMETRY Symmetry
INVARIANTS
    AcceptanceIsOfThisOffer
    TradesArePaired
    NothingLost
PROPERTY ExchangesAreAgreed
CHECK_DEADLOCK FALSE
