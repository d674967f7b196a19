SPECIFICATION Spec
CONSTANTS
    Queries = {q1, q2}
    Keys = {a, b}
    MaxConcurrent = 1
    NoView = NoView
INVARIANTS
    LimboTracked
    SlotsUsed
