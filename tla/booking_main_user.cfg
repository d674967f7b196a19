SPECIFICATION Spec
CONSTANTS
    FirstDate = 0
    LastDate = 1
    UtcOffset <- OffsetFixed
    Readings <- ReadOnce
    Users = {u1}
    NoUser = NoUser
    MaxSignIns = 1
    Hotels = {h1}
    Prices = {1}
    FirstPrices <- OpeningPrices
    MaxEdits = 1
    NoData = NoData
    PaymentOptions = {BCA}
    DefaultOption = BCA
    Fields = {f1}
    MaxOrders = 1
    MaxVisits = 1
INVARIANT
    MainHasUser
