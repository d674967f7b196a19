SPECIFICATION Spec
CONSTANTS
    Users = {u1, u2}
    MaxOrders = 4
    MaxPendingWrites = 4
    MaxWaiters = 0
    MaxFaults = 2
    MaxOvertakes = 1
INVARIANTS
    FuturesTruthful
PROPERTIES
    ImplementsOrderStore
