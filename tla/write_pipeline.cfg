SPECIFICATION FairSpec
CONSTANTS
    Users = {u1, u2}
    MaxOrders = 3
    MaxPendingWrites = 2
    MaxWaiters = 1
    MaxFaults = 2
    MaxOvertakes = 0
INVARIANTS
    PipelineInStep
    AnswersCorrelate
    WaitersReleasedLate
PROPERTIES
    WritesSettle
