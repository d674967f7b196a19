SPECIFICATION FairSpec
CONSTANTS
    FirstDate = 0
    LastDate = 2
    UtcOffset <- OffsetSaving
    Readings <- ReadTwice
    Users = {u1}
    NoUser = NoUser
    MaxSignIns = 1
    Hotels = {h1}
    Prices = {1}
    FirstPrices <- OpeningPrices
    MaxEdits = 1
    NoData = NoData
    PaymentOptions = {BCA, BNI}
    DefaultOption = BCA
    Fields = {f1}
    MaxOrders = 1
    MaxVisits = 1
INVARIANTS
    OptionShownIsOrdered
    NightsExact
PROPERTIES
    OrderSettles
    BookingAnswered
