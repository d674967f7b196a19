SPECIFICATION FairSpec
CONSTANTS
    Users = {u1, u2}
    Orders = {o1, o2}
    NoUser = NoUser
    NoRow = NoRow
    MaxSignIns = 2
INVARIANTS
    ShownToOwner
    OnlyDoneIsHidden
PROPERTIES
    OpenOrdersListed
