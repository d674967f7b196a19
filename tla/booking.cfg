SPECIFICATION Spec
CONSTANTS
    FirstDate = 0
    LastDate = 1
    UtcOffset <- OffsetFixed
    Readings <- ReadOnce
    Users = {u1, u2}
    NoUser = NoUser
    MaxSignIns = 1
    Hotels = {h1}
    Prices = {1, 2}
    FirstPrices <- OpeningPrices
    MaxEdits = 1
    NoData = NoData
    PaymentOptions = {BCA}
    DefaultOption = BCA
    Fields = {}
    MaxOrders = 2
    MaxVisits = 1
SYMMETRY AccountSymmetry
INVARIANTS
    TypeOK
    PaymentPageBacked
    PaymentPageAlone
    PaymentShownToOwner
    MainUserCurrent
    NoLostOrder
    OrderPriced
