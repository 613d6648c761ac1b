SPECIFICATION AuctionSpec
CONSTANTS
    None = None
    Players = {p1, p2, p3}
    Items = {i1}
    MailIds <- MailIds3
    Purse = 2
    Capacity = 1
    MaxEarned = 0
    COST = 1
    CODs = {0}
    MaxMailSize = 1
    MAX_MONEY_AMOUNT = 6
    UINT32 = 16
    Deposit = 1
    CutPercent = 50
    Prices = {0, 1, 2}
    MaxAuctions = 2
SYMMETRY Symmetry
INVARIANTS
    AuctionMoneyAccounted
    ItemsAreSoldOnce
PROPERTIES
    LosersAreRefunded
    AuctionsAreSettled
CHECK_DEADLOCK FALSE
