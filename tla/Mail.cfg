SPECIFICATION Spec
CONSTANTS
    None = None
    Players = {p1, p2}
    Items = {i1, i2}
    MailIds <- MailIds2
    Purse = 1
    Capacity = 2
    MaxEarned = 2
    COST = 1
    CODs = {0, 1}
    MaxMailSize = 1
    MAX_MONEY_AMOUNT = 3
    UINT32 = 16
SYMMETRY Symmetry
INVARIANTS
    BoxIsFaithful
    MoneyAccounted
    ItemsAreNotCopied
PROPERTIES
    ItemsAreNotLost
CHECK_DEADLOCK FALSE
